---------------------------- MODULE TrafficProofs ----------------------------
(***************************************************************************)
(* The type invariant, OneClient, NoneMissed and NoOrphan of Traffic, for  *)
(* any callers, servers, clients, panels, callbacks, queue length and      *)
(* mixture of events.                                                      *)
(*                                                                         *)
(* The BNC and the panels share no variable, so each has an invariant of   *)
(* its own that the steps of the other one leave alone.                    *)
(***************************************************************************)
EXTENDS Traffic, TLAPS

Links == [at : Servers \cup {None}, pc : {"none", "in", "held", "over"}, open : BOOLEAN]
Steps == [pc : {"ready", "start", "stop", "close", "tunnel", "clear"}, server : Servers \cup {None}]
InHand == [pc : {"idle", "tunnel", "write", "look", "send"}, conn : Clients \cup {None},
           to : SUBSET Panels, part : {"raw", "high"}]

\* TypeOK by parts.  A call that is under way has a server.
BncTyped ==
    /\ bnc \in Servers \cup {None} /\ stopped \subseteq Servers
    /\ phase \in [Servers -> {"none", "new", "made", "listening", "over"}]
    /\ tunnel \in [Servers -> Clients \cup {None}]
    /\ link \in [Clients -> Links]
    /\ reading \subseteq Clients /\ stalled \subseteq Clients
    /\ call \in [Callers -> Steps]
    /\ \A o \in Callers : call[o].pc # "ready" => call[o].server # None
    /\ rushed \subseteq Servers
LineTyped == src \in [Sources -> InHand] /\ done \in [Sources -> Nat] /\ late \subseteq Callbacks
PanelTyped ==
    /\ sess \in [Panels -> {"none", "ready", "track", "untrack", "raw", "quit", "answer", "unlisted", "gone"}]
    /\ open \subseteq Panels /\ attached \subseteq Panels /\ tracked \subseteq Panels
    /\ queued \in [Panels -> 0 .. OutSize]
    /\ sent \in [Panels -> [Sources -> Seq(Nat)]] /\ from \in [Panels -> [Sources -> Nat]]
LeftTyped == left \in [Things -> Nat]
Typed == BncTyped /\ LineTyped /\ PanelTyped /\ LeftTyped

\* Nobody reads from a client before it was let in, so nobody is given another
\* server by the reader of an older one.
ReadersLetIn == \A c \in reading : link[c].pc \in {"held", "over"}
Heard == ReadersLetIn /\ OneClient

\* A server whose call did not come too soon is one that is being started, by
\* the only call there is, or the one the bot knows, with only calls about that
\* one, which began when it listened.
InTurn(k) ==
    \/ /\ bnc = None
       /\ \E o \in Callers : /\ call[o].pc = "start" /\ call[o].server = k
                             /\ \A q \in Callers \ {o} : call[q].pc = "ready"
    \/ /\ bnc = k
       /\ \A q \in Callers : \/ call[q].pc = "ready"
                            \/ /\ call[q].server = k /\ call[q].pc \in {"stop", "close"}
                               /\ phase[k] = "listening"
AllInTurn == \A k \in Servers \ rushed : phase[k] \in {"new", "made", "listening"} => InTurn(k)

\* Where the handler of a session is says whether it is attached.
Handled(p) ==
    /\ sess[p] \in {"none", "unlisted", "gone"} => p \notin open
    /\ sess[p] = "none" => p \notin attached \cup tracked
    /\ sess[p] = "track" => p \in attached
    /\ sess[p] = "untrack" => p \notin attached
    /\ sess[p] \in {"ready", "raw", "quit", "answer", "unlisted"} => (p \in tracked <=> p \in attached)

Has(f, i) == \E j \in DOMAIN f : f[j] = i

\* The events about s that were queued for an attached session.  The event in
\* hand is either yet to be sent to it, or was queued, or is older than its
\* attach.
Complete(p, s) ==
    /\ \A i \in from[p][s] .. done[s] : Has(sent[p][s], i)
    /\ \A j \in DOMAIN sent[p][s] : sent[p][s][j] <= done[s] + 1
    /\ src[s].pc = "send" /\ p \notin src[s].to => Has(sent[p][s], done[s] + 1) \/ from[p][s] > done[s] + 1
    /\ src[s].pc # "send" \/ p \in src[s].to => \A j \in DOMAIN sent[p][s] : sent[p][s][j] <= done[s]

Streams ==
    /\ \A p \in Panels : Handled(p)
    /\ \A p \in attached \cap open, s \in Sources : Complete(p, s)

IInv == Typed /\ Heard /\ Streams /\ AllInTurn

-----------------------------------------------------------------------------
(* Types. *)

\* What a step does not touch stays typed.
LEMMA SameTypes ==
  /\ BncTyped /\ UNCHANGED bncVars => BncTyped'
  /\ LineTyped /\ UNCHANGED lineVars => LineTyped'
  /\ PanelTyped /\ UNCHANGED panelVars => PanelTyped'
  /\ LeftTyped /\ UNCHANGED left => LeftTyped'
<1>1. BncTyped /\ UNCHANGED bncVars => BncTyped'
  BY DEF BncTyped, bncVars
<1>2. LineTyped /\ UNCHANGED lineVars => LineTyped'
  BY DEF LineTyped, lineVars
<1>3. PanelTyped /\ UNCHANGED panelVars => PanelTyped'
  BY DEF PanelTyped, panelVars
<1>4. LeftTyped /\ UNCHANGED left => LeftTyped'
  BY DEF LeftTyped
<1> QED
  BY <1>1, <1>2, <1>3, <1>4

\* The budget stays one.
LEMMA SpendTyped == ASSUME NEW t \in Things, LeftTyped, Spend(t) PROVE LeftTyped'
  BY DEF Spend, LeftTyped

\* One link changes, or some are closed.
LEMMA LinkTyped ==
  ASSUME BncTyped, NEW c \in Clients, NEW v \in Links, link' = [link EXCEPT ![c] = v]
  PROVE  link' \in [Clients -> Links]
  BY DEF BncTyped

\* Closing connections keeps the links typed.
LEMMA ShutTyped == ASSUME BncTyped, NEW S PROVE Shut(S) \in [Clients -> Links]
<1>1. SUFFICES ASSUME NEW c \in Clients
               PROVE  (IF c \in S THEN [link[c] EXCEPT !.open = FALSE] ELSE link[c]) \in Links
  BY DEF Shut
<1>2. link[c] \in Links
  BY DEF BncTyped
<1>3. [link[c] EXCEPT !.open = FALSE] \in Links
  BY <1>2 DEF Links
<1> QED
  BY <1>2, <1>3

\* RawTunnel.Stop keeps tunnels and links typed.
LEMMA TunnelStopTyped ==
  ASSUME BncTyped, NEW k, TunnelStop(k)
  PROVE  link' \in [Clients -> Links] /\ tunnel' \in [Servers -> Clients \cup {None}]
  BY ShutTyped DEF TunnelStop, BncTyped

\* A call moves on.
LEMMA CallsTyped ==
  ASSUME BncTyped, NEW o \in Callers, NEW l \in {"ready", "start", "stop", "close", "tunnel", "clear"},
         NEW k \in Servers \cup {None}, l # "ready" => k # None, Calls(o, l, k)
  PROVE  /\ call' \in [Callers -> Steps]
         /\ \A q \in Callers : call'[q].pc # "ready" => call'[q].server # None
<1>1. call' = [call EXCEPT ![o] = [pc |-> l, server |-> k]] /\ [pc |-> l, server |-> k] \in Steps
  BY DEF Calls, Steps
<1> QED
  BY <1>1 DEF BncTyped

\* Servers only are rushed.
LEMMA RushingTyped ==
  ASSUME BncTyped, NEW o \in Callers, NEW k \in Servers PROVE rushed \cup Rushing(o, k) \subseteq Servers
<1>1. \A q \in Callers : call[q].pc = "start" => call[q].server \in Servers
  BY DEF BncTyped, Steps
<1> QED
  BY <1>1 DEF Rushing, BncTyped

\* StartBNC and StopBNC.
LEMMA CallTyped ==
  ASSUME Typed, NEW o \in Callers, StartBNC(o) \/ StopBNC(o) \/ Call(o)
  PROVE  Typed'
<1> USE DEF Typed
<1>1. LineTyped' /\ PanelTyped'
  <2>1. UNCHANGED <<lineVars, panelVars>>
    BY DEF StartBNC, StopBNC, Call, Started, StopChan, CloseServer, StopTunnel, Stopped
  <2> QED
    BY <2>1, SameTypes
<1>2. LeftTyped'
  <2>1. Spend("call") \/ UNCHANGED left
    BY DEF StartBNC, StopBNC, Call, Started, StopChan, CloseServer, StopTunnel, Stopped
  <2> QED
    BY <2>1, SpendTyped, SameTypes DEF Things
<1>3. call[o].server \in Servers \cup {None} /\ (call[o].pc # "ready" => call[o].server \in Servers)
  BY DEF BncTyped, Steps
<1>4. CASE StartBNC(o)
  <2> DEFINE new == {k \in Servers : phase[k] = "none"}
             k == Anyone(new)
  <2>0. rushed' \subseteq Servers
    <3>1. k \in Servers
      BY <1>4 DEF StartBNC, Anyone
    <3> QED
      BY <1>4, <3>1, RushingTyped DEF StartBNC
  <2>1. k \in Servers
    BY <1>4 DEF StartBNC, Anyone
  <2>2. phase' = [phase EXCEPT ![k] = "new"] /\ Calls(o, "start", k)
    BY <1>4 DEF StartBNC
  <2> HIDE DEF k
  <2>3. UNCHANGED <<bnc, stopped, tunnel, link, reading, stalled>>
    BY <1>4 DEF StartBNC
  <2> QED
    BY <1>1, <1>2, <2>0, <2>1, <2>2, <2>3, CallsTyped, ServerAssumption DEF BncTyped
<1>5. CASE StopBNC(o)
  <2>1. bnc \in Servers
    BY <1>5 DEF StopBNC, BncTyped
  <2>2. rushed' \subseteq Servers
    BY <1>5, <2>1, RushingTyped DEF StopBNC
  <2> QED
    BY <1>1, <1>2, <1>5, <2>1, <2>2, CallsTyped DEF StopBNC, BncTyped
<1>6. CASE Started(o)
  BY <1>1, <1>2, <1>3, <1>6, CallsTyped DEF Started, BncTyped
<1>7. CASE StopChan(o)
  BY <1>1, <1>2, <1>3, <1>7, CallsTyped, ServerAssumption DEF StopChan, BncTyped
<1>8. CASE CloseServer(o)
  <2>1. link' \in [Clients -> Links] /\ phase' \in [Servers -> {"none", "new", "made", "listening", "over"}]
    BY <1>8, ShutTyped DEF CloseServer, BncTyped
  <2>2. UNCHANGED <<bnc, stopped, tunnel, reading, stalled, rushed>> /\ Calls(o, "tunnel", call[o].server)
    BY <1>8 DEF CloseServer
  <2> QED
    BY <1>1, <1>2, <1>3, <1>8, <2>1, <2>2, CallsTyped, ServerAssumption DEF CloseServer, BncTyped
<1>9. CASE StopTunnel(o)
  <2>1. UNCHANGED <<bnc, phase, stopped, reading, stalled, rushed>> /\ Calls(o, "clear", call[o].server)
    BY <1>9 DEF StopTunnel
  <2>2. link' \in [Clients -> Links] /\ tunnel' \in [Servers -> Clients \cup {None}]
    BY <1>9, TunnelStopTyped DEF StopTunnel
  <2> QED
    BY <1>1, <1>2, <1>3, <1>9, <2>1, <2>2, CallsTyped, ServerAssumption DEF StopTunnel, BncTyped
<1>10. CASE Stopped(o)
  BY <1>1, <1>2, <1>10, CallsTyped DEF Stopped, BncTyped
<1> QED
  BY <1>4, <1>5, <1>6, <1>7, <1>8, <1>9, <1>10 DEF Call

\* listen.
LEMMA ListenTyped == ASSUME Typed, NEW k \in Servers, Listen(k) PROVE Typed'
<1>1. BncTyped'
  BY DEF Listen, Typed, BncTyped
<1> QED
  BY <1>1, SameTypes DEF Listen, Typed

\* The SSH clients.
LEMMA ClientTyped ==
  ASSUME Typed, NEW c \in Clients, Connects(c) \/ Client(c) \/ QuitTunnel(c) \/ Stalls(c) \/ Leaves(c)
  PROVE  Typed'
<1> USE DEF Typed
<1>1. LineTyped' /\ PanelTyped'
  <2>1. UNCHANGED <<lineVars, panelVars>>
    BY DEF Connects, Client, Start, HandlerEnds, ReaderEnds, QuitTunnel, Stalls, Leaves
  <2> QED
    BY <2>1, SameTypes
<1>2. LeftTyped'
  <2>1. Spend("client") \/ Spend("trouble") \/ UNCHANGED left
    BY DEF Connects, Client, Start, HandlerEnds, ReaderEnds, QuitTunnel, Stalls, Leaves
  <2> QED
    BY <2>1, SpendTyped, SameTypes DEF Things
<1>3. link[c] \in Links
  BY DEF BncTyped
<1>4. CASE Connects(c)
  <2>1. PICK k \in Servers : link' = [link EXCEPT ![c] = [at |-> k, pc |-> "in", open |-> TRUE]]
    BY <1>4 DEF Connects
  <2>2. [at |-> k, pc |-> "in", open |-> TRUE] \in Links
    BY DEF Links
  <2>3. link' \in [Clients -> Links]
    BY <2>1, <2>2, LinkTyped
  <2> QED
    BY <1>1, <1>2, <1>4, <2>3 DEF Connects, BncTyped
<1>5. CASE Start(c)
  <2> DEFINE v == [link[c] EXCEPT !.pc = "held"]
  <2>1. v \in Links
    BY <1>3 DEF Links
  <2>2. link' = [link EXCEPT ![c] = v]
    BY <1>5 DEF Start
  <2>3. link' \in [Clients -> Links]
    BY <2>1, <2>2, LinkTyped
  <2> QED
    BY <1>1, <1>2, <1>5, <2>3 DEF Start, BncTyped
<1>6. CASE HandlerEnds(c)
  <2> DEFINE v == [link[c] EXCEPT !.pc = "over", !.open = @ /\ c \in stalled]
  <2>1. v \in Links
    BY <1>3 DEF Links
  <2>2. link' = [link EXCEPT ![c] = v]
    BY <1>6 DEF HandlerEnds
  <2>3. link' \in [Clients -> Links]
    BY <2>1, <2>2, LinkTyped
  <2> QED
    BY <1>1, <1>2, <1>6, <2>3 DEF HandlerEnds, BncTyped
<1>7. CASE ReaderEnds(c)
  <2>1. link' \in [Clients -> Links] /\ tunnel' \in [Servers -> Clients \cup {None}]
    BY <1>7, TunnelStopTyped DEF ReaderEnds
  <2> QED
    BY <1>1, <1>2, <1>7, <2>1 DEF ReaderEnds, BncTyped
<1>8. CASE QuitTunnel(c)
  <2>1. link' \in [Clients -> Links] /\ tunnel' \in [Servers -> Clients \cup {None}]
    BY <1>8, TunnelStopTyped DEF QuitTunnel
  <2> QED
    BY <1>1, <1>2, <1>8, <2>1 DEF QuitTunnel, BncTyped
<1>9. CASE Stalls(c)
  BY <1>1, <1>2, <1>9 DEF Stalls, BncTyped
<1>10. CASE Leaves(c)
  <2>1. link' \in [Clients -> Links]
    BY <1>10, ShutTyped DEF Leaves
  <2> QED
    BY <1>1, <1>2, <1>10, <2>1 DEF Leaves, BncTyped
<1> QED
  BY <1>4, <1>5, <1>6, <1>7, <1>8, <1>9, <1>10 DEF Client

\* What becomes of the line in hand.
LEMMA InHandTyped ==
  ASSUME LineTyped, NEW s \in Sources, NEW v \in InHand, src' = [src EXCEPT ![s] = v]
  PROVE  src' \in [Sources -> InHand]
  BY DEF LineTyped

\* What Publish does, for the session p.
LEMMA PublishFacts ==
  ASSUME Typed, NEW s \in Sources, Publish(s)
  PROVE  \E p \in Panels :
           /\ p \in src[s].to
           /\ \E v \in InHand : src' = [src EXCEPT ![s] = v] /\ v.pc = "send" /\ v.to = src[s].to \ {p}
           /\ Send(p)
           /\ \/ p \notin open' /\ open' = open \ {p} /\ sent' = sent
              \/ open' = open /\ sent' = [sent EXCEPT ![p] = [sent[p] EXCEPT ![s] = Append(sent[p][s], done[s] + 1)]]
<1>1. PICK p \in src[s].to :
        /\ src' = [src EXCEPT ![s].to = @ \ {p}]
        /\ Send(p)
        /\ sent' = IF queued'[p] > queued[p]
                   THEN [sent EXCEPT ![p][s] = Append(@, done[s] + 1)] ELSE sent
  BY DEF Publish
<1>2. src[s] \in InHand /\ src[s].pc = "send"
  BY DEF Publish, Typed, LineTyped
<1>3. p \in Panels
  BY <1>1, <1>2 DEF InHand
<1> DEFINE v == [src[s] EXCEPT !.to = @ \ {p}]
<1>4. v \in InHand /\ v.pc = "send" /\ v.to = src[s].to \ {p}
  BY <1>2 DEF InHand
<1>5. src' = [src EXCEPT ![s] = v]
  BY <1>1
<1>6. queued[p] \in Nat /\ queued \in [Panels -> 0 .. OutSize]
  BY <1>3, BoundAssumption DEF Typed, PanelTyped
<1>7. \/ p \notin open' /\ open' = open \ {p} /\ sent' = sent
      \/ open' = open /\ sent' = [sent EXCEPT ![p] = [sent[p] EXCEPT ![s] = Append(sent[p][s], done[s] + 1)]]
  <2>1. CASE queued[p] < OutSize
    <3>1. queued'[p] = queued[p] + 1 /\ open' = open
      BY <1>1, <1>3, <1>6, <2>1 DEF Send
    <3> QED
      BY <1>1, <1>6, <3>1
  <2>2. CASE ~(queued[p] < OutSize)
    <3>1. queued' = queued /\ open' = open \ {p}
      BY <1>1, <2>2 DEF Send
    <3> QED
      BY <1>1, <1>6, <3>1
  <2> QED
    BY <2>1, <2>2
<1> QED
  BY <1>1, <1>3, <1>4, <1>5, <1>7

\* Session.send
LEMMA SendTyped ==
  ASSUME PanelTyped, NEW p \in Panels, Send(p) PROVE queued' \in [Panels -> 0 .. OutSize] /\ open' \subseteq Panels
<1>1. queued[p] \in 0 .. OutSize /\ OutSize \in Nat
  BY BoundAssumption DEF PanelTyped
<1>2. CASE queued[p] < OutSize
  <2>1. queued[p] + 1 \in 0 .. OutSize /\ queued' = [queued EXCEPT ![p] = queued[p] + 1] /\ open' = open
    BY <1>1, <1>2 DEF Send
  <2> QED
    BY <2>1 DEF PanelTyped
<1>3. CASE ~(queued[p] < OutSize)
  BY <1>3 DEF Send, PanelTyped
<1> QED
  BY <1>2, <1>3

\* A source takes a line, or is given up.
Taken(s) ==
    \/ s \in Callbacks /\ (Read(s) \/ Overruns(s))
    \/ s \in Senders /\ SendRaw(s)

\* A line on its way.
LEMMA SourceTyped == ASSUME Typed, NEW s \in Sources, Taken(s) \/ HandleLine(s) PROVE Typed'
<1> USE DEF Typed
<1>1. BncTyped'
  <2>1. UNCHANGED bncVars
    BY DEF Taken, Read, Overruns, SendRaw, HandleLine, Forward, Written, Look, Publish, Published
  <2> QED
    BY <2>1, SameTypes
<1>2. LeftTyped'
  <2>1. Spend("in") \/ Spend("out") \/ UNCHANGED left
    BY DEF Taken, Read, Overruns, SendRaw, HandleLine, Forward, Written, Look, Publish, Published
  <2> QED
    BY <2>1, SpendTyped, SameTypes DEF Things
<1>3. src[s] \in InHand
  BY DEF LineTyped
<1>4. CASE Publish(s)
  <2>1. PICK p \in Panels :
          /\ p \in src[s].to
          /\ \E v \in InHand : src' = [src EXCEPT ![s] = v]
          /\ Send(p)
          /\ \/ sent' = sent
             \/ sent' = [sent EXCEPT ![p] = [sent[p] EXCEPT ![s] = Append(sent[p][s], done[s] + 1)]]
    BY <1>4, PublishFacts
  <2>2. LineTyped'
    BY <1>4, <2>1, InHandTyped DEF Publish, LineTyped
  <2>3. sent' \in [Panels -> [Sources -> Seq(Nat)]]
    <3>1. sent[p] \in [Sources -> Seq(Nat)] /\ done[s] + 1 \in Nat
      BY DEF PanelTyped, LineTyped
    <3>2. Append(sent[p][s], done[s] + 1) \in Seq(Nat)
      BY <3>1
    <3> DEFINE f == [sent[p] EXCEPT ![s] = Append(sent[p][s], done[s] + 1)]
    <3>3. f \in [Sources -> Seq(Nat)]
      BY <3>1, <3>2
    <3> HIDE DEF f
    <3> QED
      BY <2>1, <3>3 DEF PanelTyped, f
  <2>4. queued' \in [Panels -> 0 .. OutSize] /\ open' \subseteq Panels
    BY <2>1, SendTyped
  <2> QED
    BY <1>1, <1>2, <1>4, <2>2, <2>3, <2>4 DEF Publish, PanelTyped
<1>5. CASE ~Publish(s)
  <2>1. PanelTyped'
    BY <1>5, SameTypes DEF Taken, Read, Overruns, SendRaw, HandleLine, Forward, Written, Look, Published
  <2>2. \E v \in InHand : src' = [src EXCEPT ![s] = v]
    <3>1. CASE Taken(s)
      <4> DEFINE v == [src[s] EXCEPT !.pc = "tunnel"]
      <4>1. v \in InHand /\ src[s] \in InHand /\ (src' = [src EXCEPT ![s] = v] \/ src' = src)
        BY <1>3, <3>1 DEF Taken, Read, SendRaw, Overruns, At, InHand
      <4>2. src = [src EXCEPT ![s] = src[s]]
        BY DEF LineTyped
      <4> QED
        BY <4>1, <4>2
    <3>2. CASE Forward(s)
      <4> DEFINE v == [src[s] EXCEPT !.pc = "look"]
                 w == [src[s] EXCEPT !.pc = "write", !.conn = tunnel[bnc]]
      <4>1. v \in InHand
        BY <1>3 DEF InHand
      <4>2. \/ src' = [src EXCEPT ![s] = v]
            \/ bnc # None /\ tunnel[bnc] # None /\ src' = [src EXCEPT ![s] = w]
        BY <3>2 DEF Forward, At
      <4>3. bnc # None => tunnel[bnc] \in Clients \cup {None}
        BY DEF BncTyped
      <4>4. bnc # None => w \in InHand
        BY <1>3, <4>3 DEF InHand
      <4> QED
        BY <4>1, <4>2, <4>4
    <3>3. CASE Written(s)
      <4> DEFINE v == [src[s] EXCEPT !.pc = "look", !.conn = None]
      <4>1. v \in InHand /\ src' = [src EXCEPT ![s] = v]
        BY <1>3, <3>3 DEF Written, InHand
      <4> QED
        BY <4>1
    <3>4. CASE Look(s)
      <4> DEFINE S == {p \in attached : Listed(p)}
                 v == [src[s] EXCEPT !.pc = "send", !.to = S]
      <4>1. S \subseteq Panels
        BY DEF PanelTyped
      <4>2. v \in InHand /\ src' = [src EXCEPT ![s] = v]
        BY <1>3, <3>4, <4>1 DEF Look, InHand
      <4> QED
        BY <4>2
    <3>5. CASE Published(s)
      <4> DEFINE v == [src[s] EXCEPT !.pc = "look", !.part = "high"]
      <4>1. v \in InHand /\ Idle \in InHand
        BY <1>3 DEF InHand, Idle
      <4>2. src' = [src EXCEPT ![s] = v] \/ src' = [src EXCEPT ![s] = Idle]
        BY <3>5 DEF Published
      <4> QED
        BY <4>1, <4>2
    <3> QED
      BY <1>5, <3>1, <3>2, <3>3, <3>4, <3>5 DEF HandleLine
  <2>3. src' \in [Sources -> InHand]
    BY <2>2, InHandTyped
  <2>4. done' \in [Sources -> Nat]
    BY <1>5 DEF Taken, Read, Overruns, SendRaw, HandleLine, Forward, Written, Look, Published, LineTyped
  <2>5. late' \subseteq Callbacks
    <3>1. late' \subseteq late \cup (Callbacks \cap {s})
      BY <1>5 DEF Taken, Read, Overruns, SendRaw, HandleLine, Forward, Written, Look, Published
    <3> QED
      BY <3>1 DEF LineTyped
  <2> QED
    BY <1>1, <1>2, <2>1, <2>3, <2>4, <2>5 DEF LineTyped
<1> QED
  BY <1>4, <1>5

\* The sessions.
LEMMA SessionTyped ==
  ASSUME Typed, NEW p \in Panels,
         Connect(p) \/ Attach(p) \/ Detach(p) \/ Raw(p) \/ Quit(p) \/ Handler(p) \/ Deliver(p) \/ Hangup(p)
  PROVE  Typed'
<1> USE DEF Typed
<1>1. BncTyped' /\ LineTyped'
  <2>1. UNCHANGED bncVars /\ (UNCHANGED lineVars \/ Raw(p))
    BY DEF Connect, Attach, Detach, Raw, Quit, Handler, Track, Returns, Answer, Unlist, Close, Deliver, Hangup
  <2>2. CASE Raw(p)
    <3> DEFINE v == [src[p] EXCEPT !.pc = "tunnel"]
    <3>1. p \in Sources /\ src[p] \in InHand
      BY DEF LineTyped, Sources
    <3>2. v \in InHand /\ src' = [src EXCEPT ![p] = v] /\ UNCHANGED <<late, done>>
      BY <2>2, <3>1 DEF Raw, At, InHand
    <3> QED
      BY <2>1, <3>1, <3>2, InHandTyped, SameTypes DEF LineTyped
  <2> QED
    BY <2>1, <2>2, SameTypes
<1>2. LeftTyped'
  <2>1. Spend("panel") \/ Spend("request") \/ Spend("trouble") \/ UNCHANGED left
    BY DEF Connect, Attach, Request, Detach, Raw, Quit, Handler, Track, Returns, Answer, Unlist, Close, Deliver, Hangup
  <2> QED
    BY <2>1, SpendTyped, SameTypes DEF Things
<1>3. CASE Attach(p)
  <2>1. sent' \in [Panels -> [Sources -> Seq(Nat)]] /\ from' \in [Panels -> [Sources -> Nat]]
    <3> DEFINE none == [s \in Sources |-> <<>>]
               next == [s \in Sources |-> done[s] + IF src[s].pc = "send" THEN 2 ELSE 1]
    <3>1. none \in [Sources -> Seq(Nat)] /\ next \in [Sources -> Nat]
      BY DEF LineTyped
    <3>2. UNCHANGED <<sent, from>> \/ (sent' = [sent EXCEPT ![p] = none] /\ from' = [from EXCEPT ![p] = next])
      BY <1>3 DEF Attach
    <3> HIDE DEF none, next
    <3> QED
      BY <3>1, <3>2 DEF PanelTyped
  <2> QED
    BY <1>1, <1>2, <1>3, <2>1 DEF Attach, To, PanelTyped
<1>4. CASE Connect(p)
  BY <1>1, <1>2, <1>4 DEF Connect, To, PanelTyped
<1>5. CASE Detach(p)
  BY <1>1, <1>2, <1>5 DEF Detach, To, PanelTyped
<1>6. CASE Track(p)
  BY <1>1, <1>2, <1>6 DEF Track, To, PanelTyped
<1>7. CASE Answer(p)
  BY <1>1, <1>2, <1>7, SendTyped DEF Answer, To, PanelTyped
<1>8. CASE Unlist(p)
  BY <1>1, <1>2, <1>8 DEF Unlist, To, PanelTyped
<1>9. CASE Close(p)
  BY <1>1, <1>2, <1>9 DEF Close, To, PanelTyped
<1>10. CASE Deliver(p)
  <2>1. queued' \in [Panels -> 0 .. OutSize]
    BY <1>10, BoundAssumption DEF Deliver, PanelTyped
  <2> QED
    BY <1>1, <1>2, <1>10, <2>1 DEF Deliver, PanelTyped
<1>11. CASE Hangup(p)
  BY <1>1, <1>2, <1>11 DEF Hangup, PanelTyped
<1>12. CASE Raw(p) \/ Quit(p) \/ Returns(p)
  BY <1>1, <1>2, <1>12 DEF Raw, Quit, Returns, To, PanelTyped
<1> QED
  BY <1>3, <1>4, <1>5, <1>6, <1>7, <1>8, <1>9, <1>10, <1>11, <1>12 DEF Handler

-----------------------------------------------------------------------------
(* The clients. *)

\* Closing connections, whoever's, silences clients and changes nothing else
\* about them.
LEMMA ShutFacts ==
  ASSUME BncTyped, NEW S, link' = Shut(S)
  PROVE  \A c \in Clients : /\ link'[c].at = link[c].at /\ link'[c].pc = link[c].pc
                            /\ link'[c].open <=> link[c].open /\ c \notin S
<1> SUFFICES ASSUME NEW c \in Clients
             PROVE  /\ link'[c].at = link[c].at /\ link'[c].pc = link[c].pc
                    /\ link'[c].open <=> link[c].open /\ c \notin S
  OBVIOUS
<1>1. link[c] \in Links /\ link'[c] = IF c \in S THEN [link[c] EXCEPT !.open = FALSE] ELSE link[c]
  BY DEF Shut, BncTyped
<1> QED
  BY <1>1 DEF Links

\* A step that lets nobody in, opens no connection and takes the tunnel from
\* nobody but a client whose connection it closes.
LEMMA HeardKept ==
  ASSUME BncTyped, Heard, reading' \subseteq reading, stalled \subseteq stalled',
         \A c \in Clients : /\ link'[c].at = link[c].at
                            /\ link'[c].open => link[c].open
                            /\ link'[c].pc = link[c].pc \/ link'[c].pc = "over",
         \A k \in Servers : tunnel'[k] = tunnel[k]
                         \/ \A c \in Of(k) : link'[c].open /\ c \notin stalled' => tunnel[k] # c
  PROVE  Heard'
<1>1. reading \subseteq Clients
  BY DEF BncTyped
<1>2. ReadersLetIn'
  BY <1>1 DEF Heard, ReadersLetIn
<1>3. OneClient'
  BY <1>1 DEF Heard, OneClient, Of
<1> QED
  BY <1>2, <1>3 DEF Heard

\* RawTunnel.Stop silences the client it takes the tunnel from.
LEMMA TunnelStopHeard ==
  ASSUME BncTyped, Heard, NEW k \in Servers \cup {None}, TunnelStop(k),
         reading' \subseteq reading, stalled' = stalled
  PROVE  Heard'
<1>1. \A c \in Clients : /\ link'[c].at = link[c].at /\ link'[c].pc = link[c].pc
                         /\ link'[c].open <=> link[c].open /\ c \notin {tunnel[k]} \ stalled
  BY ShutFacts DEF TunnelStop
<1>2. \A l \in Servers : tunnel'[l] = tunnel[l]
                      \/ \A c \in Of(l) : link'[c].open /\ c \notin stalled' => tunnel[l] # c
  <2> SUFFICES ASSUME NEW l \in Servers, tunnel'[l] # tunnel[l], NEW c \in Of(l),
                      link'[c].open, c \notin stalled'
               PROVE  tunnel[l] # c
    OBVIOUS
  <2>1. l = k
    BY DEF TunnelStop, BncTyped
  <2> QED
    BY <1>1, <2>1 DEF Of
<1> QED
  BY <1>1, <1>2, HeardKept

\* StartBNC and StopBNC let nobody in; StopBNC silences whom it takes the
\* tunnel from.
LEMMA CallHeard ==
  ASSUME Typed, Heard, NEW o \in Callers, StartBNC(o) \/ StopBNC(o) \/ Call(o) PROVE Heard'
<1> USE DEF Typed
<1>1. UNCHANGED <<reading, stalled>>
  BY DEF StartBNC, StopBNC, Call, Started, StopChan, CloseServer, StopTunnel, Stopped
<1>2. CASE CloseServer(o)
  <2>1. UNCHANGED tunnel /\ (link' = link \/ link' = Shut(Of(call[o].server)))
    BY <1>2 DEF CloseServer
  <2>2. \A c \in Clients : /\ link'[c].at = link[c].at /\ link'[c].pc = link[c].pc
                           /\ link'[c].open => link[c].open
    BY <2>1, ShutFacts
  <2> QED
    BY <1>1, <2>1, <2>2, HeardKept
<1>3. CASE StopTunnel(o)
  <2>1. call[o].server \in Servers \cup {None} /\ TunnelStop(call[o].server)
    BY <1>3 DEF StopTunnel, BncTyped, Steps
  <2> QED
    BY <1>1, <2>1, TunnelStopHeard
<1>4. CASE ~CloseServer(o) /\ ~StopTunnel(o)
  <2>1. UNCHANGED <<tunnel, link>>
    BY <1>4 DEF StartBNC, StopBNC, Call, Started, StopChan, Stopped
  <2> QED
    BY <1>1, <2>1, HeardKept
<1> QED
  BY <1>2, <1>3, <1>4

\* Only RawTunnel.Start lets somebody in, and only when nobody has the
\* tunnel.
LEMMA ClientHeard ==
  ASSUME Typed, Heard, NEW c \in Clients, Connects(c) \/ Client(c) \/ QuitTunnel(c) \/ Stalls(c) \/ Leaves(c)
  PROVE  Heard'
<1> USE DEF Typed
<1>1. link[c] \in Links
  BY DEF BncTyped
<1>2. CASE Connects(c)
  <2>1. PICK k \in Servers : link' = [link EXCEPT ![c] = [at |-> k, pc |-> "in", open |-> TRUE]]
    BY <1>2 DEF Connects
  <2>2. UNCHANGED <<reading, stalled, tunnel>> /\ link[c].pc = "none"
    BY <1>2 DEF Connects
  <2>3. c \notin reading
    BY <2>2 DEF Heard, ReadersLetIn
  <2>4. \A d \in Clients : d # c => link'[d] = link[d]
    BY <2>1 DEF BncTyped
  <2> QED
    BY <2>2, <2>3, <2>4 DEF Heard, ReadersLetIn, OneClient, Of, BncTyped
<1>3. CASE Start(c)
  <2> DEFINE k == link[c].at
             v == [link[c] EXCEPT !.pc = "held"]
  <2>1. v.at = k /\ v.pc = "held" /\ v.open = link[c].open
    BY <1>1 DEF Links
  <2>2. link' = [link EXCEPT ![c] = v] /\ stalled' = stalled
    BY <1>3 DEF Start
  <2> HIDE DEF v
  <2>3. link'[c] = v /\ \A d \in Clients : d # c => link'[d] = link[d]
    BY <2>2 DEF BncTyped
  <2>4. \/ tunnel[k] = None /\ tunnel' = [tunnel EXCEPT ![k] = c] /\ reading' = reading \cup {c}
        \/ UNCHANGED <<tunnel, reading>>
    BY <1>3 DEF Start
  <2>5. ReadersLetIn'
    BY <2>1, <2>3, <2>4 DEF Heard, ReadersLetIn, BncTyped
  <2>6. OneClient'
    <3> SUFFICES ASSUME NEW l \in Servers, NEW d \in Of(l)', d \in reading', link'[d].open, d \notin stalled'
                 PROVE  tunnel'[l] = d
      BY DEF OneClient
    <3>1. d \in Clients /\ link[d].at = l /\ link[d].open /\ d \notin stalled
      BY <2>1, <2>2, <2>3 DEF Of
    <3>2. d \in reading => tunnel[l] = d
      BY <3>1 DEF Heard, OneClient, Of
    <3>3. d # None
      BY <3>1, ServerAssumption
    <3> QED
      BY <2>4, <3>1, <3>2, <3>3 DEF BncTyped
  <2> QED
    BY <2>5, <2>6 DEF Heard
<1>4. CASE HandlerEnds(c)
  <2> DEFINE v == [link[c] EXCEPT !.pc = "over", !.open = @ /\ c \in stalled]
  <2>1. v.at = link[c].at /\ v.pc = "over" /\ (v.open => link[c].open)
    BY <1>1 DEF Links
  <2>2. link' = [link EXCEPT ![c] = v] /\ UNCHANGED <<reading, stalled, tunnel>>
    BY <1>4 DEF HandlerEnds
  <2> HIDE DEF v
  <2>3. link'[c] = v /\ \A d \in Clients : d # c => link'[d] = link[d]
    BY <2>2 DEF BncTyped
  <2>4. \A d \in Clients : /\ link'[d].at = link[d].at
                           /\ link'[d].open => link[d].open
                           /\ link'[d].pc = link[d].pc \/ link'[d].pc = "over"
    BY <2>1, <2>3
  <2> QED
    BY <2>2, <2>4, HeardKept
<1>5. CASE ReaderEnds(c) \/ QuitTunnel(c)
  <2>1. link[c].at \in Servers \cup {None} /\ TunnelStop(link[c].at) /\ reading' \subseteq reading /\ stalled' = stalled
    BY <1>1, <1>5 DEF ReaderEnds, QuitTunnel, Links
  <2> QED
    BY <2>1, TunnelStopHeard
<1>6. CASE Stalls(c)
  BY <1>6, HeardKept DEF Stalls
<1>7. CASE Leaves(c)
  <2>1. \A d \in Clients : /\ link'[d].at = link[d].at /\ link'[d].pc = link[d].pc
                           /\ link'[d].open => link[d].open
    BY <1>7, ShutFacts DEF Leaves
  <2>2. UNCHANGED <<reading, stalled, tunnel>>
    BY <1>7 DEF Leaves
  <2> QED
    BY <2>1, <2>2, HeardKept
<1> QED
  BY <1>2, <1>3, <1>4, <1>5, <1>6, <1>7 DEF Client

\* Everything else leaves the clients alone.
LEMMA SameHeard == ASSUME BncTyped, Heard, UNCHANGED <<link, tunnel, reading, stalled>> PROVE Heard'
  BY HeardKept

-----------------------------------------------------------------------------
(* The servers. *)

\* StartBNC begins without a server the bot knows, StopBNC with the one it
\* knows; whatever other calls there are, Rushing says so.
LEMMA CallInTurn ==
  ASSUME Typed, AllInTurn, NEW o \in Callers, StartBNC(o) \/ StopBNC(o) \/ Call(o)
  PROVE  AllInTurn'
<1> USE DEF Typed
<1>1. /\ \A q \in Callers : call[q].pc # "ready" => call[q].server \in Servers
      /\ bnc \in Servers \cup {None} /\ rushed \subseteq Servers
  BY DEF BncTyped, Steps
<1>2. ASSUME NEW l, NEW k, Calls(o, l, k)
      PROVE  call'[o].pc = l /\ call'[o].server = k /\ \A q \in Callers \ {o} : call'[q] = call[q]
  BY <1>2 DEF Calls, BncTyped
<1> DEFINE Up(k) == phase[k] \in {"new", "made", "listening"}
<1>3. CASE StartBNC(o)
  <2> DEFINE new == {k \in Servers : phase[k] = "none"}
             k == Anyone(new)
  <2>1. k \in Servers /\ phase[k] = "none"
    BY <1>3 DEF StartBNC, Anyone
  <2>2. /\ phase' = [phase EXCEPT ![k] = "new"] /\ Calls(o, "start", k) /\ bnc = None /\ bnc' = bnc
        /\ call[o].pc = "ready" /\ rushed' = rushed \cup Rushing(o, k)
    BY <1>3 DEF StartBNC
  <2> HIDE DEF k
  <2>3. SUFFICES ASSUME NEW m \in Servers \ rushed', phase'[m] \in {"new", "made", "listening"} PROVE InTurn(m)'
    BY DEF AllInTurn
  <2>4. CASE m = k
    <3>1. \A q \in Callers \ {o} : call[q].pc = "ready"
      BY <1>1, <2>1, <2>2, <2>3, <2>4, ServerAssumption DEF Rushing
    <3> QED
      BY <1>2, <2>2, <2>4, <3>1 DEF InTurn
  <2>5. CASE m # k
    <3>1. InTurn(m)
      BY <2>1, <2>2, <2>3, <2>5 DEF AllInTurn, BncTyped
    <3>2. PICK q \in Callers : call[q].pc = "start" /\ call[q].server = m
      BY <2>2, <2>3, <3>1, ServerAssumption DEF InTurn
    <3>3. q # o
      BY <2>2, <3>2
    <3>4. m \in Rushing(o, k)
      BY <3>2, <3>3 DEF Rushing
    <3> QED
      BY <2>2, <2>3, <3>4
  <2> QED
    BY <2>4, <2>5
<1>4. CASE ~StartBNC(o)
  <2>1. SUFFICES ASSUME NEW m \in Servers \ rushed', phase'[m] \in {"new", "made", "listening"} PROVE InTurn(m)'
    BY DEF AllInTurn
  <2>2. m \notin rushed /\ (CloseServer(o) \/ UNCHANGED phase)
    BY <1>4, <2>1 DEF StopBNC, Call, Started, StopChan, StopTunnel, Stopped, CloseServer
  <2>3. Up(m)
    <3>1. CASE CloseServer(o)
      BY <2>1, <3>1 DEF CloseServer, BncTyped
    <3> QED
      BY <2>1, <2>2, <3>1
  <2>4. InTurn(m) /\ m # None
    BY <2>1, <2>2, <2>3, ServerAssumption DEF AllInTurn
  <2>5. CASE StopBNC(o)
    <3>1. bnc # None /\ Calls(o, "stop", bnc) /\ bnc' = bnc /\ phase' = phase /\ rushed' = rushed \cup Rushing(o, bnc)
      BY <2>5 DEF StopBNC
    <3>2. bnc = m
      BY <2>4, <3>1 DEF InTurn
    <3>3. phase[m] = "listening"
      BY <2>1, <3>1, <3>2 DEF Rushing
    <3> QED
      BY <1>2, <2>4, <3>1, <3>2, <3>3 DEF InTurn
  <2>6. CASE Started(o)
    <3>1. call[o].pc = "start" /\ bnc' = call[o].server /\ Calls(o, "ready", None)
      BY <2>6 DEF Started
    <3>2. call[o].server = m /\ \A q \in Callers \ {o} : call[q].pc = "ready"
      BY <2>4, <3>1 DEF InTurn
    <3> QED
      BY <1>2, <3>1, <3>2 DEF InTurn
  <2>7. CASE StopChan(o)
    <3>1. call[o].pc = "stop" /\ Calls(o, "close", call[o].server) /\ UNCHANGED <<bnc, phase>>
      BY <2>7 DEF StopChan
    <3>2. bnc = m /\ call[o].server = m /\ phase[m] = "listening"
      BY <2>4, <3>1 DEF InTurn
    <3> QED
      BY <1>2, <2>4, <3>1, <3>2 DEF InTurn
  <2>8. CASE CloseServer(o)
    <3>1. call[o].pc = "close"
      BY <2>8 DEF CloseServer
    <3>2. call[o].server = m /\ phase[m] = "listening"
      BY <2>4, <3>1 DEF InTurn
    <3>3. phase'[m] = "over"
      BY <2>1, <2>8, <3>2 DEF CloseServer, BncTyped
    <3> QED
      BY <2>1, <3>3
  <2>9. CASE StopTunnel(o) \/ Stopped(o)
    BY <2>4, <2>9 DEF StopTunnel, Stopped, InTurn
  <2> QED
    BY <1>4, <2>5, <2>6, <2>7, <2>8, <2>9 DEF Call
<1> QED
  BY <1>3, <1>4

\* listen goes on.
LEMMA ListenInTurn == ASSUME Typed, AllInTurn, NEW k \in Servers, Listen(k) PROVE AllInTurn'
<1>1. phase' = [phase EXCEPT ![k] = IF @ = "new" THEN "made" ELSE "listening"] /\ UNCHANGED <<bnc, call, rushed>>
      /\ phase[k] \in {"new", "made"}
  BY DEF Listen
<1>2. \A l \in Servers : /\ phase[l] = "listening" => phase'[l] = phase[l]
                       /\ phase'[l] \in {"new", "made", "listening"} => phase[l] \in {"new", "made", "listening"}
  BY <1>1 DEF Typed, BncTyped
<1>3. SUFFICES ASSUME NEW m \in Servers \ rushed', phase'[m] \in {"new", "made", "listening"} PROVE InTurn(m)'
  BY DEF AllInTurn
<1>4. InTurn(m)
  BY <1>1, <1>2, <1>3 DEF AllInTurn
<1> QED
  BY <1>1, <1>2, <1>4 DEF InTurn

\* Steps that change neither b.bncServer nor a server leave the order alone.
LEMMA SameInTurn == ASSUME AllInTurn, UNCHANGED <<bnc, phase, call, rushed>> PROVE AllInTurn'
  BY DEF AllInTurn, InTurn

-----------------------------------------------------------------------------
(* The sessions. *)

\* Complete speaks of these values only.
LEMMA CompleteKept ==
  ASSUME NEW p, NEW s, Complete(p, s), UNCHANGED <<sent[p][s], from[p][s], done[s]>>,
         src'[s].pc = "send" <=> src[s].pc = "send", src'[s].to = src[s].to
  PROVE  Complete(p, s)'
  BY DEF Complete, Has

\* A step of a handler that opens nothing, attaches nobody and queues nothing.
LEMMA HandlerKept ==
  ASSUME Typed, Streams, UNCHANGED <<lineVars, sent, from>>, open' \subseteq open, attached' \subseteq attached,
         \A p \in Panels : Handled(p)'
  PROVE  Streams'
<1>1. UNCHANGED <<src, done>>
  BY DEF lineVars
<1>2. ASSUME NEW p \in (attached \cap open)', NEW s \in Sources PROVE Complete(p, s)'
  <2>1. Complete(p, s)
    BY <1>2 DEF Streams
  <2> QED
    BY <1>1, <2>1, CompleteKept
<1> QED
  BY <1>2 DEF Streams

\* A line takes a step on which no session depends.
LEMMA LineKept ==
  ASSUME Typed, Streams, NEW s \in Sources, UNCHANGED <<done, open, attached, tracked, sent, from>>,
         \A p \in Panels : Handled(p)',
         NEW v, src' = [src EXCEPT ![s] = v], src[s].pc # "send", v.pc # "send"
  PROVE  Streams'
<1>1. UNCHANGED <<open, attached, tracked, sent, from>>
  OBVIOUS
<1>2. \A q \in Sources : q # s => src'[q] = src[q]
  BY DEF Typed, LineTyped
<1>3. src'[s] = v
  BY DEF Typed, LineTyped
<1>4. ASSUME NEW p \in attached \cap open, NEW q \in Sources PROVE Complete(p, q)'
  <2>1. Complete(p, q)
    BY <1>4 DEF Streams
  <2> QED
    BY <1>1, <1>2, <1>3, <2>1 DEF Complete, Has
<1> QED
  BY <1>1, <1>4 DEF Streams

\* The snapshot of the attached sessions holds everybody who has yet to be
\* sent the event in hand.
LEMMA LookStreams == ASSUME Typed, Streams, NEW s \in Sources, Look(s) PROVE Streams'
<1>1. src[s].pc = "look" /\ UNCHANGED <<done, sess, open, attached, tracked, sent, from>>
  BY DEF Look, panelVars
<1>2. src[s] \in InHand /\ src' = [src EXCEPT ![s].pc = "send", ![s].to = {p \in attached : Listed(p)}]
  BY DEF Look, Typed, LineTyped
<1>3. src'[s].pc = "send" /\ src'[s].to = {p \in attached : Listed(p)} /\ \A q \in Sources : q # s => src'[q] = src[q]
  BY <1>2 DEF InHand, Typed, LineTyped
<1>4. \A p \in attached \cap open : Listed(p)
  BY DEF Streams, Handled, Listed, Typed, PanelTyped
<1>5. ASSUME NEW p \in attached \cap open, NEW q \in Sources PROVE Complete(p, q)'
  <2>1. Complete(p, q)
    BY <1>5 DEF Streams
  <2> QED
    BY <1>1, <1>3, <1>4, <2>1 DEF Complete, Has
<1> QED
  BY <1>1, <1>5 DEF Streams, Handled

\* The event in hand is later than everything queued before.
LEMMA AppendComplete ==
  ASSUME NEW f \in Seq(Nat), NEW n \in Nat, NEW m \in Nat,
         \A i \in m .. n : Has(f, i),
         \A j \in DOMAIN f : f[j] <= n
  PROVE  LET g == Append(f, n + 1)
         IN  /\ g \in Seq(Nat)
             /\ \A i \in m .. n : Has(g, i)
             /\ \A j \in DOMAIN g : g[j] <= n + 1
             /\ Has(g, n + 1)
<1> DEFINE g == Append(f, n + 1)
<1>1. /\ g \in Seq(Nat) /\ Len(g) = Len(f) + 1 /\ Len(f) \in Nat /\ DOMAIN f = 1 .. Len(f) /\ DOMAIN g = 1 .. Len(f) + 1
      /\ g[Len(f) + 1] = n + 1 /\ \A j \in DOMAIN f : g[j] = f[j] /\ f[j] \in Nat
  OBVIOUS
<1> HIDE DEF g
<1>3. \A i \in m .. n : Has(g, i)
  <2> SUFFICES ASSUME NEW i \in m .. n PROVE Has(g, i)
    OBVIOUS
  <2>1. PICK j \in DOMAIN f : f[j] = i
    BY DEF Has
  <2> QED
    BY <1>1, <2>1 DEF Has
<1>4. \A j \in DOMAIN g : g[j] <= n + 1
  <2> SUFFICES ASSUME NEW j \in DOMAIN g PROVE g[j] <= n + 1
    OBVIOUS
  <2>1. CASE j \in DOMAIN f
    <3>1. f[j] <= n /\ g[j] = f[j] /\ f[j] \in Nat
      BY <1>1, <2>1
    <3> QED
      BY <3>1
  <2>2. CASE j = Len(f) + 1
    BY <1>1, <2>2
  <2> QED
    BY <1>1, <2>1, <2>2
<1>5. Has(g, n + 1)
  BY <1>1 DEF Has
<1> QED
  BY <1>1, <1>3, <1>4, <1>5 DEF g

\* One session is sent the event in hand, or loses its connection.
LEMMA PublishStreams == ASSUME Typed, Streams, NEW s \in Sources, Publish(s) PROVE Streams'
<1>1. PICK p \in Panels :
        /\ p \in src[s].to
        /\ \E v \in InHand : src' = [src EXCEPT ![s] = v] /\ v.pc = "send" /\ v.to = src[s].to \ {p}
        /\ \/ p \notin open' /\ open' = open \ {p} /\ sent' = sent
           \/ open' = open /\ sent' = [sent EXCEPT ![p] = [sent[p] EXCEPT ![s] = Append(sent[p][s], done[s] + 1)]]
  BY PublishFacts
<1>2. src[s].pc = "send" /\ UNCHANGED <<done, sess, attached, tracked, from>>
  BY DEF Publish
<1>3. src'[s].pc = "send" /\ src'[s].to = src[s].to \ {p} /\ \A q \in Sources : q # s => src'[q] = src[q]
  BY <1>1 DEF Typed, LineTyped
<1>4. \A r \in Panels, q \in Sources : r # p \/ q # s => sent'[r][q] = sent[r][q]
  BY <1>1 DEF Typed, PanelTyped
<1>5. ASSUME NEW r \in (attached \cap open)', NEW q \in Sources PROVE Complete(r, q)'
  <2>1. r \in attached \cap open /\ r \in Panels /\ Complete(r, q)
    BY <1>1, <1>2, <1>5 DEF Streams, Typed, PanelTyped
  <2>2. CASE q # s
    BY <1>2, <1>3, <1>4, <2>1, <2>2, CompleteKept
  <2>3. CASE q = s /\ r # p
    BY <1>2, <1>3, <1>4, <2>1, <2>3 DEF Complete, Has
  <2>4. CASE q = s /\ r = p
    <3> DEFINE f == sent[p][s]
               n == done[s]
               m == from[p][s]
    <3>1. sent'[p][s] = Append(f, n + 1)
      BY <1>1, <1>5, <2>4 DEF Typed, PanelTyped
    <3>2. f \in Seq(Nat) /\ n \in Nat /\ m \in Nat
      BY DEF Typed, PanelTyped, LineTyped
    <3>3. /\ \A i \in m .. n : Has(f, i)
          /\ \A j \in DOMAIN f : f[j] <= n
      BY <1>1, <2>1, <2>4 DEF Complete
    <3>4. done'[s] = n /\ from'[p][s] = m
      BY <1>2
    <3> DEFINE g == Append(f, n + 1)
    <3>5. /\ \A i \in m .. n : Has(g, i)
          /\ \A j \in DOMAIN g : g[j] <= n + 1
          /\ Has(g, n + 1)
      BY <3>2, <3>3, AppendComplete
    <3>6. sent'[p][s] = g
      BY <3>1
    <3> HIDE DEF f, n, m, g
    <3> QED
      BY <1>3, <2>4, <3>4, <3>5, <3>6 DEF Complete, Has
  <2> QED
    BY <2>2, <2>3, <2>4
<1>6. ASSUME NEW r \in Panels PROVE Handled(r)'
  BY <1>1, <1>2 DEF Streams, Handled
<1> QED
  BY <1>5, <1>6 DEF Streams

\* The event in hand has been sent to everybody of the snapshot, so it counts
\* as done.
LEMMA PublishedStreams == ASSUME Typed, Streams, NEW s \in Sources, Published(s) PROVE Streams'
<1>1. src[s].pc = "send" /\ src[s].to = {} /\ UNCHANGED <<sess, open, attached, tracked, sent, from>>
  BY DEF Published, panelVars
<1>2. done[s] \in Nat /\ done'[s] = done[s] + 1 /\ \A q \in Sources : q # s => done'[q] = done[q]
  BY DEF Published, Typed, LineTyped
<1>3. src'[s].pc # "send" /\ \A q \in Sources : q # s => src'[q] = src[q]
  <2>1. \/ src' = [src EXCEPT ![s] = Idle]
        \/ src' = [src EXCEPT ![s].pc = "look", ![s].part = "high"]
    BY DEF Published
  <2>2. src[s] \in InHand
    BY DEF Typed, LineTyped
  <2> QED
    BY <2>1, <2>2 DEF Typed, LineTyped, InHand, Idle
<1>4. ASSUME NEW p \in attached \cap open, NEW q \in Sources PROVE Complete(p, q)'
  <2>1. Complete(p, q) /\ p \in Panels
    BY <1>4 DEF Streams, Typed, PanelTyped
  <2>2. CASE q # s
    BY <1>1, <1>2, <1>3, <2>1, <2>2, CompleteKept
  <2>3. CASE q = s
    <3> DEFINE f == sent[p][s]
               n == done[s]
               m == from[p][s]
    <3>1. /\ \A i \in m .. n : Has(f, i)
          /\ \A j \in DOMAIN f : f[j] <= n + 1
          /\ Has(f, n + 1) \/ m > n + 1
      BY <1>1, <2>1, <2>3 DEF Complete
    <3>2. f \in Seq(Nat) /\ n \in Nat /\ m \in Nat
      BY <2>1 DEF Typed, PanelTyped, LineTyped
    <3>3. sent'[p][s] = f /\ from'[p][s] = m /\ done'[s] = n + 1
      BY <1>1, <1>2
    <3> HIDE DEF f, n, m
    <3>4. \A i \in m .. n + 1 : Has(f, i)
      <4> SUFFICES ASSUME NEW i \in m .. n + 1 PROVE Has(f, i)
        OBVIOUS
      <4>1. i \in m .. n \/ i = n + 1
        BY <3>2
      <4> QED
        BY <3>1, <3>2, <4>1
    <3>5. \A j \in DOMAIN f : f[j] <= n + 1 /\ f[j] <= (n + 1) + 1
      <4> SUFFICES ASSUME NEW j \in DOMAIN f PROVE f[j] <= n + 1 /\ f[j] <= (n + 1) + 1
        OBVIOUS
      <4>1. f[j] \in Nat
        BY <3>2
      <4> QED
        BY <3>1, <3>2, <4>1
    <3> QED
      BY <1>3, <2>3, <3>1, <3>3, <3>4, <3>5 DEF Complete, Has
  <2> QED
    BY <2>2, <2>3
<1> QED
  BY <1>1, <1>4 DEF Streams, Handled

\* A callback that is given up goes on as before.
LEMMA OverrunStreams == ASSUME Streams, UNCHANGED <<src, done, panelVars>> PROVE Streams'
<1>1. UNCHANGED <<src, done, sess, open, attached, tracked, sent, from>>
  BY DEF panelVars
<1> QED
  BY <1>1 DEF Streams, Handled, Complete, Has

\* A line on its way.
LEMMA SourceStreams == ASSUME Typed, Streams, NEW s \in Sources, Taken(s) \/ HandleLine(s) PROVE Streams'
<1>1. src[s] \in InHand
  BY DEF Typed, LineTyped
<1>2. CASE Overruns(s)
  BY <1>2, OverrunStreams DEF Overruns
<1>3. CASE (Taken(s) /\ ~Overruns(s)) \/ Forward(s) \/ Written(s)
  <2>1. PICK v \in {[src[s] EXCEPT !.pc = "tunnel"], [src[s] EXCEPT !.pc = "look"],
                    [src[s] EXCEPT !.pc = "write", !.conn = tunnel[bnc]],
                    [src[s] EXCEPT !.pc = "look", !.conn = None]} : src' = [src EXCEPT ![s] = v]
    BY <1>3 DEF Taken, Read, SendRaw, Forward, Written, At
  <2>2. v.pc # "send" /\ src[s].pc # "send" /\ UNCHANGED <<done, panelVars>>
    BY <1>1, <1>3 DEF Taken, Read, SendRaw, Forward, Written, InHand
  <2>3. \A p \in Panels : Handled(p)'
    BY <2>2 DEF Streams, Handled, panelVars
  <2> QED
    BY <2>1, <2>2, <2>3, LineKept DEF panelVars
<1> QED
  BY <1>2, <1>3, LookStreams, PublishStreams, PublishedStreams DEF HandleLine, Taken

\* Handled of the other sessions.
LEMMA OthersHandled ==
  ASSUME Streams, NEW p \in Panels,
         \A q \in Panels \ {p} : /\ sess'[q] = sess[q] /\ (q \in open' <=> q \in open)
                                 /\ q \in attached' <=> q \in attached
                                 /\ q \in tracked' <=> q \in tracked
  PROVE  \A q \in Panels \ {p} : Handled(q)'
  BY DEF Streams, Handled

\* An attach begins a new stream behind the event that is being sent.
LEMMA AttachStreams == ASSUME Typed, Streams, NEW p \in Panels, Attach(p) PROVE Streams'
<1>1. /\ UNCHANGED <<open, tracked, src, late, done>> /\ attached' = attached \cup {p}
      /\ sess' = [sess EXCEPT ![p] = "track"]
  BY DEF Attach, To, lineVars
<1>2. sess'[p] = "track" /\ \A q \in Panels : q # p => sess'[q] = sess[q]
  BY <1>1 DEF Typed, PanelTyped
<1>3. \A q \in Panels : Handled(q)'
  <2>1. Handled(p)'
    BY <1>1, <1>2 DEF Handled
  <2>2. \A q \in Panels \ {p} : Handled(q)'
    BY <1>1, <1>2, OthersHandled
  <2> QED
    BY <2>1, <2>2
<1>4. CASE p \in attached
  <2>1. UNCHANGED <<sent, from>> /\ attached' = attached
    BY <1>1, <1>4 DEF Attach
  <2> QED
    BY <1>1, <1>3, <2>1, HandlerKept DEF lineVars
<1>5. CASE p \notin attached
  <2>1. /\ sent' = [sent EXCEPT ![p] = [s \in Sources |-> <<>>]]
        /\ from' = [from EXCEPT ![p] = [s \in Sources |-> done[s] + IF src[s].pc = "send" THEN 2 ELSE 1]]
    BY <1>5 DEF Attach
  <2>2. \A q \in Panels : q # p => sent'[q] = sent[q] /\ from'[q] = from[q]
    BY <2>1 DEF Typed, PanelTyped
  <2>3. ASSUME NEW s \in Sources PROVE Complete(p, s)'
    <3>1. sent'[p][s] = <<>> /\ done'[s] = done[s] /\ done[s] \in Nat
      BY <1>1, <2>1 DEF Typed, PanelTyped, LineTyped
    <3>2. from'[p][s] = done[s] + IF src[s].pc = "send" THEN 2 ELSE 1
      BY <2>1 DEF Typed, PanelTyped
    <3>3. src'[s].pc = "send" => from'[p][s] > done'[s] + 1
      BY <1>1, <3>1, <3>2
    <3>4. from'[p][s] .. done'[s] = {} /\ DOMAIN sent'[p][s] = {}
      BY <3>1, <3>2
    <3> QED
      BY <3>3, <3>4 DEF Complete
  <2>4. ASSUME NEW q \in (attached \cap open)', NEW s \in Sources PROVE Complete(q, s)'
    <3>1. CASE q = p
      BY <2>3, <3>1
    <3>2. CASE q # p
      <4>1. q \in attached \cap open /\ q \in Panels
        BY <1>1, <2>4, <3>2 DEF Typed, PanelTyped
      <4>2. Complete(q, s)
        BY <4>1 DEF Streams
      <4> QED
        BY <1>1, <2>2, <3>2, <4>1, <4>2, CompleteKept
    <3> QED
      BY <3>1, <3>2
  <2> QED
    BY <1>3, <2>4 DEF Streams
<1> QED
  BY <1>4, <1>5

\* Whatever else a session does, it does not disturb its stream.
LEMMA HandlerStreams ==
  ASSUME Typed, Streams, NEW p \in Panels, Detach(p) \/ Quit(p) \/ Handler(p) \/ Deliver(p) \/ Hangup(p)
  PROVE  Streams'
<1>1. UNCHANGED <<lineVars, sent, from>>
  BY DEF Detach, Quit, Handler, Track, Returns, Answer, Unlist, Close, Deliver, Hangup
<1>2. open' \subseteq open /\ open \ {p} \subseteq open'
  BY DEF Detach, Quit, Handler, Track, Returns, Answer, Send, Unlist, Close, Deliver, Hangup
<1>3. attached' \subseteq attached /\ attached \ {p} \subseteq attached'
  BY DEF Detach, Quit, Handler, Track, Returns, Answer, Unlist, Close, Deliver, Hangup
<1>4. \A q \in Panels \ {p} : q \in tracked' <=> q \in tracked
  BY DEF Detach, Quit, Handler, Track, Returns, Answer, Unlist, Close, Deliver, Hangup
<1>5. \A q \in Panels \ {p} : sess'[q] = sess[q]
  BY DEF Detach, Quit, Handler, Track, Returns, Answer, Unlist, Close, Deliver, Hangup, To, Typed, PanelTyped
<1>6. Handled(p)'
  <2>1. Handled(p) /\ sess \in [Panels -> {"none", "ready", "track", "untrack", "raw", "quit", "answer", "unlisted", "gone"}]
    BY DEF Streams, Typed, PanelTyped
  <2>2. CASE Detach(p)
    BY <2>1, <2>2 DEF Detach, Request, To, Handled
  <2>3. CASE Track(p)
    BY <2>1, <2>3 DEF Track, To, Handled
  <2>4. CASE Answer(p)
    BY <1>2, <2>1, <2>4 DEF Answer, To, Handled
  <2>5. CASE Unlist(p)
    BY <2>1, <2>5 DEF Unlist, To, Handled
  <2>6. CASE Close(p)
    BY <2>1, <2>6 DEF Close, To, Handled
  <2>7. CASE Deliver(p) \/ Hangup(p)
    BY <1>2, <2>1, <2>7 DEF Deliver, Hangup, Handled
  <2>8. CASE Quit(p) \/ Returns(p)
    BY <2>1, <2>8 DEF Quit, Request, Returns, To, Handled
  <2> QED
    BY <2>2, <2>3, <2>4, <2>5, <2>6, <2>7, <2>8 DEF Handler
<1>7. \A q \in Panels \ {p} : Handled(q)'
  BY <1>2, <1>3, <1>4, <1>5, OthersHandled
<1> QED
  BY <1>1, <1>2, <1>3, <1>6, <1>7, HandlerKept

\* A request whose handler sends a line itself.
LEMMA RawStreams == ASSUME Typed, Streams, NEW p \in Panels, Raw(p) PROVE Streams'
<1>1. /\ sess[p] = "ready" /\ sess' = [sess EXCEPT ![p] = "raw"] /\ src[p].pc = "idle"
      /\ src' = [src EXCEPT ![p].pc = "tunnel"] /\ UNCHANGED <<done, open, attached, tracked, sent, from>>
  BY DEF Raw, Request, To, At
<1>2. sess'[p] = "raw" /\ \A q \in Panels : q # p => sess'[q] = sess[q]
  BY <1>1 DEF Typed, PanelTyped
<1>3. \A q \in Panels : Handled(q)'
  BY <1>1, <1>2 DEF Streams, Handled
<1> DEFINE v == [src[p] EXCEPT !.pc = "tunnel"]
<1>4. p \in Sources /\ v.pc = "tunnel" /\ src' = [src EXCEPT ![p] = v]
  BY <1>1 DEF Sources, Typed, LineTyped, InHand
<1> QED
  BY <1>1, <1>3, <1>4, LineKept

\* A session is new: nobody had it attached.
LEMMA ConnectStreams == ASSUME Typed, Streams, NEW p \in Panels, Connect(p) PROVE Streams'
<1>1. /\ sess[p] = "none" /\ sess' = [sess EXCEPT ![p] = "ready"] /\ open' = open \cup {p}
      /\ UNCHANGED <<attached, tracked, sent, from, src, done>>
  BY DEF Connect, To, lineVars
<1>2. p \notin attached /\ p \notin tracked
  BY <1>1 DEF Streams, Handled
<1>3. sess'[p] = "ready" /\ \A q \in Panels : q # p => sess'[q] = sess[q]
  BY <1>1 DEF Typed, PanelTyped
<1>4. \A q \in Panels : Handled(q)'
  <2>1. Handled(p)'
    BY <1>1, <1>2, <1>3 DEF Handled
  <2>2. \A q \in Panels \ {p} : Handled(q)'
    BY <1>1, <1>3, OthersHandled
  <2> QED
    BY <2>1, <2>2
<1>5. ASSUME NEW q \in (attached \cap open)', NEW s \in Sources PROVE Complete(q, s)'
  <2>1. q \in attached \cap open
    BY <1>1, <1>2, <1>5
  <2>2. Complete(q, s)
    BY <2>1 DEF Streams
  <2> QED
    BY <1>1, <2>2, CompleteKept
<1> QED
  BY <1>4, <1>5 DEF Streams

\* The BNC has nothing to do with the sessions.
LEMMA SameStreams == ASSUME Typed, Streams, UNCHANGED <<lineVars, panelVars>> PROVE Streams'
<1>1. UNCHANGED <<src, done, sess, open, attached, tracked, sent, from>>
  BY DEF lineVars, panelVars
<1> QED
  BY <1>1 DEF Streams, Handled, Complete, Has

-----------------------------------------------------------------------------
\* Nothing is started, connected or attached.
LEMMA InitInv == Init => IInv
<1> SUFFICES ASSUME Init PROVE IInv
  OBVIOUS
<1>1. BncTyped
  BY DEF Init, BncTyped, Links, Steps
<1>2. LineTyped /\ LeftTyped
  BY BoundAssumption DEF Init, LineTyped, LeftTyped, InHand, Idle
<1>3. PanelTyped
  <2>1. <<>> \in Seq(Nat) /\ 0 \in 0 .. OutSize /\ 1 \in Nat
    BY BoundAssumption
  <2>2. [s \in Sources |-> <<>>] \in [Sources -> Seq(Nat)]
    BY <2>1
  <2> QED
    BY <2>1, <2>2 DEF Init, PanelTyped
<1>4. Heard
  BY DEF Init, Heard, ReadersLetIn, OneClient
<1>5. Streams
  BY DEF Init, Streams, Handled
<1>6. AllInTurn
  BY DEF Init, AllInTurn
<1> QED
  BY <1>1, <1>2, <1>3, <1>4, <1>5, <1>6 DEF IInv, Typed

\* Every step keeps the invariant.
LEMMA NextInv == IInv /\ [Next]_vars => IInv'
<1> SUFFICES ASSUME IInv, [Next]_vars PROVE IInv'
  OBVIOUS
<1> USE DEF IInv
<1>1. ASSUME NEW o \in Callers, StartBNC(o) \/ StopBNC(o) \/ Call(o) PROVE IInv'
  <2>1. UNCHANGED <<lineVars, panelVars>>
    BY <1>1 DEF StartBNC, StopBNC, Call, Started, StopChan, CloseServer, StopTunnel, Stopped
  <2> QED
    BY <1>1, <2>1, CallTyped, CallHeard, CallInTurn, SameStreams
<1>2. ASSUME NEW k \in Servers, Listen(k) PROVE IInv'
  BY <1>2, ListenTyped, SameHeard, SameStreams, ListenInTurn DEF Listen, Typed
<1>3. ASSUME NEW c \in Clients, Connects(c) \/ Client(c) \/ QuitTunnel(c) \/ Stalls(c) \/ Leaves(c) PROVE IInv'
  <2>1. UNCHANGED <<lineVars, panelVars>>
    BY <1>3 DEF Connects, Client, Start, HandlerEnds, ReaderEnds, QuitTunnel, Stalls, Leaves
  <2>2. AllInTurn'
    BY <1>3, SameInTurn DEF Connects, Client, Start, HandlerEnds, ReaderEnds, QuitTunnel, Stalls, Leaves
  <2> QED
    BY <1>3, <2>1, <2>2, ClientTyped, ClientHeard, SameStreams
<1>4. ASSUME NEW s \in Sources, Taken(s) \/ HandleLine(s) PROVE IInv'
  <2>1. UNCHANGED bncVars
    BY <1>4 DEF Taken, Read, Overruns, SendRaw, HandleLine, Forward, Written, Look, Publish, Published
  <2> QED
    BY <1>4, <2>1, SourceTyped, SameHeard, SourceStreams, SameInTurn DEF Typed, bncVars
<1>5. ASSUME NEW p \in Panels,
             Connect(p) \/ Attach(p) \/ Detach(p) \/ Raw(p) \/ Quit(p) \/ Handler(p) \/ Deliver(p) \/ Hangup(p)
      PROVE  IInv'
  <2>1. UNCHANGED bncVars
    BY <1>5 DEF Connect, Attach, Detach, Raw, Quit, Handler, Track, Returns, Answer, Unlist, Close, Deliver, Hangup
  <2>2. Streams'
    BY <1>5, ConnectStreams, AttachStreams, RawStreams, HandlerStreams
  <2> QED
    BY <1>5, <2>1, <2>2, SessionTyped, SameHeard, SameInTurn DEF Typed, bncVars
<1>6. CASE UNCHANGED vars
  <2>1. UNCHANGED <<bncVars, lineVars, panelVars, left>>
    BY <1>6 DEF vars
  <2>2. Typed'
    BY <2>1, SameTypes DEF Typed
  <2> QED
    BY <2>1, <2>2, SameHeard, SameStreams, SameInTurn DEF Typed, bncVars
<1> QED
  BY <1>1, <1>2, <1>3, <1>4, <1>5, <1>6 DEF Next, Sources, Taken

\* The invariant holds of every reachable state.
LEMMA InvHolds == Spec => []IInv
<1>1. Init => IInv
  BY InitInv
<1> QED
  BY <1>1, NextInv, PTL DEF Spec

\* The parts make up TypeOK.
LEMMA PartsTyped == Typed <=> TypeOK /\ \A o \in Callers : call[o].pc # "ready" => call[o].server # None
  BY DEF Typed, TypeOK, BncTyped, LineTyped, PanelTyped, LeftTyped, Links, Steps, InHand

\* Every reachable state is well typed: no queue is longer than its capacity,
\* whoever sends (Session.send), and a call that stops a server has one.
THEOREM TypeCorrect == Spec => []TypeOK
<1>1. IInv => TypeOK
  BY PartsTyped DEF IInv
<1> QED
  BY <1>1, InvHolds, PTL

\* One client of a tunnel is heard at a time (RawTunnel.Start, Stop,
\* readFromConn), however many callers start and stop servers.
THEOREM OneClientHolds == Spec => []OneClient
<1>1. IInv => OneClient
  BY DEF IInv, Heard
<1> QED
  BY <1>1, InvHolds, PTL

\* An attached session is queued every event since its attach, whichever
\* callbacks overlap (AttachManager.Publish, Attach, Detach, Session.send).
THEOREM NoneMissedHolds == Spec => []NoneMissed
<1>1. IInv => NoneMissed
  <2> SUFFICES ASSUME IInv, NEW p \in tracked \cap open, NEW s \in Sources, sess[p] \notin {"track", "untrack"}
               PROVE  \A i \in from[p][s] .. done[s] : \E j \in DOMAIN sent[p][s] : sent[p][s][j] = i
    BY DEF NoneMissed
  <2>1. p \in attached \cap open
    BY DEF IInv, Typed, PanelTyped, Streams, Handled
  <2>2. Complete(p, s)
    BY <2>1 DEF IInv, Streams
  <2> QED
    BY <2>2 DEF Complete, Has
<1> QED
  BY <1>1, InvHolds, PTL

\* Every server that listens can be stopped, unless it was started while
\* another call was under way or stopped before it listened: whatever other
\* calls of StartBNC and StopBNC there are.
THEOREM NoOrphanHolds == Spec => []NoOrphan
<1>1. IInv => NoOrphan
  BY DEF IInv, AllInTurn, InTurn, NoOrphan, Known
<1> QED
  BY <1>1, InvHolds, PTL

=============================================================================
