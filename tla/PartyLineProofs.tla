--------------------------- MODULE PartyLineProofs ---------------------------
(***************************************************************************)
(* AliveListed of PartyLine, for any bots, tunnels, owners and quitters.   *)
(*                                                                         *)
(* AliveListed is not inductive: it needs the mutual exclusion of dt.mu    *)
(* (who holds it is in Stop, and the tunnel is inactive as long), and that *)
(* a tunnel is started once, by the callback of its own bot, before        *)
(* anybody reads from it.  Fits says so of one goroutine and its frame.    *)
(***************************************************************************)
EXTENDS PartyLine, TLAPS

Sending == {"collect", "send", "write"}
Stopping == {"remove", "onstop"}
Busy == Sending \cup Stopping \cup {"dial", "start", "greet", "add", "line", "stop", "nick", "log"}

\* A goroutine with the frame f is between the making of a tunnel and the end of
\* the "joined" that b.dccTunnel.Start announces.
Starting(p, f) ==
  \/ f.pc \in {"dial", "start", "greet", "add"}
  \/ f.pc \in Sending /\ ~f.talk /\ tmu[f.tunnel] # p

\* What a frame f of the goroutine p says about the rest of the state.
Fits(p, f) ==
  /\ f.pc \in Busy => f.tunnel \in Tunnels
  /\ f.talk => f.pc \in Sending \cup {"nick", "log"}
  /\ f.pc \in {"nick", "log"} => f.talk
  /\ f.pc \in Stopping => tmu[f.tunnel] = p
  /\ Starting(p, f) =>
       /\ p = Callback(BotOf[f.tunnel]) /\ At(Loop(f.tunnel), "none")
       /\ f.pc \in Sending /\ active[f.tunnel] => f.tunnel \in sessions
  /\ \A t \in Tunnels : tmu[t] = p =>
       /\ f.tunnel = t /\ ~f.talk /\ f.pc \in Sending \cup Stopping
       /\ ~active[t]

AllFit == \A p \in Procs : Fits(p, frame[p])
IInv == TypeOK /\ AllFit /\ AliveListed

-----------------------------------------------------------------------------
(* Goroutines and frames.                                                  *)

\* Goroutines of different kinds are different, those of one kind are told
\* apart by their tunnel or bot.
LEMMA ProcFacts ==
  /\ \A t \in Tunnels : Loop(t) \in Procs /\ Loop(t)[1] = "loop"
  /\ \A b \in Bots : Callback(b) \in Procs /\ Callback(b)[1] = "callback"
  /\ \A b \in Quitters : Quitter(b) \in Procs /\ Quitter(b)[1] = "quit"
  /\ \A t, u \in Tunnels : Loop(t) = Loop(u) => t = u
  /\ \A t \in Tunnels, b \in Bots : Loop(t) # Callback(b)
  /\ \A t \in Tunnels, b \in Quitters : Loop(t) # Quitter(b)
  BY DEF Procs, Loop, Callback, Quitter

\* A new frame.
LEMMA FrameFacts ==
  ASSUME NEW pc \in {"none", "idle", "dial", "read", "line", "use", "stop", "collect", "unlock", "done"},
         NEW t \in {None} \cup Tunnels
  PROVE  /\ Frame(pc, t) \in Frames
         /\ Frame(pc, t).pc = pc /\ Frame(pc, t).tunnel = t
         /\ ~Frame(pc, t).talk /\ Frame(pc, t).todo = {}
  BY DEF Frame, Frames

\* A frame that goes on.
LEMMA GoFacts ==
  ASSUME NEW f \in Frames,
         NEW pc \in {"start", "greet", "add", "remove", "collect", "nick", "send", "write", "log", "onstop"}
  PROVE  LET g == [f EXCEPT !.pc = pc]
         IN  g \in Frames /\ g.pc = pc /\ g.tunnel = f.tunnel /\ g.talk = f.talk
  BY DEF Frames

\* The types of a frame's fields.
LEMMA FieldFacts ==
  ASSUME NEW f \in Frames
  PROVE  f.tunnel \in {None} \cup Tunnels /\ f.talk \in BOOLEAN /\ f.todo \subseteq Tunnels
  BY DEF Frames

\* Where a goroutine rests.
LEMMA RestFacts ==
  ASSUME NEW p \in Procs
  PROVE  /\ \E pc \in {"idle", "unlock", "done"} : AfterStop(p) = Frame(pc, None)
         /\ \E pc \in {"none", "idle"} : Rest(p) = Frame(pc, None)
  BY DEF AfterStop, Rest

\* One goroutine's frame changes.
LEMMA MoveFacts ==
  ASSUME frame \in [Procs -> Frames], NEW p \in Procs, NEW f \in Frames, Becomes(p, f)
  PROVE  /\ frame' \in [Procs -> Frames] /\ frame'[p] = f
         /\ \A q \in Procs : q # p => frame'[q] = frame[q]
  BY DEF Becomes

\* Goes is a Becomes.
LEMMA GoesFacts ==
  ASSUME frame \in [Procs -> Frames], NEW p \in Procs, NEW pc, Goes(p, pc)
  PROVE  Becomes(p, [frame[p] EXCEPT !.pc = pc])
  BY DEF Goes, Becomes

\* What TypeOK says of frames and of dt.mu.
LEMMA TypeFacts ==
  ASSUME TypeOK PROVE frame \in [Procs -> Frames] /\ tmu \in [Tunnels -> {None} \cup Procs]
  BY DEF TypeOK, Frames

\* A step that changes only a frame: the new frame must fit.
LEMMA Move ==
  ASSUME IInv, NEW p \in Procs, NEW f \in Frames, Becomes(p, f),
         frame[p].pc # "none", Fits(p, f),
         UNCHANGED <<tmu, sessions, active>>
  PROVE  AllFit' /\ AliveListed'
<1>1. frame' \in [Procs -> Frames] /\ frame'[p] = f /\ \A q \in Procs : q # p => frame'[q] = frame[q]
  BY MoveFacts, TypeFacts DEF IInv
<1>2. \A t \in Tunnels : At(Loop(t), "none") => At(Loop(t), "none")'
  BY <1>1, ProcFacts DEF At
<1>3. AllFit'
  <2> SUFFICES ASSUME NEW q \in Procs PROVE Fits(q, frame[q])'
    BY DEF AllFit
  <2>1. Fits(q, frame'[q])
    BY <1>1 DEF IInv, AllFit
  <2>2. \A g : Fits(q, g) /\ g = frame'[q] => Fits(q, frame[q])'
    BY <1>2, PartyAssumption DEF Fits, Starting, Sending, Stopping, Busy
  <2> QED
    BY <2>1, <2>2
<1>4. AliveListed'
  BY <1>1, ProcFacts DEF AliveListed, IInv, At
<1> QED
  BY <1>3, <1>4

-----------------------------------------------------------------------------
(* One lemma per action; first those that only move a frame.               *)

\* The callback takes up a tunnel that nobody reads from yet.
LEMMA DialStep == ASSUME IInv, NEW t \in Tunnels, Dial(t) PROVE IInv'
<1> DEFINE p == Callback(BotOf[t])
           f == Frame("dial", t)
<1>1. frame \in [Procs -> Frames] /\ p \in Procs /\ frame[p].pc = "idle" /\ Becomes(p, f)
  BY TypeFacts, ProcFacts, PartyAssumption DEF IInv, Dial, At
<1>2. f \in Frames /\ f.pc = "dial" /\ f.tunnel = t /\ ~f.talk
  BY FrameFacts
<1>3. Fits(p, f)
  BY <1>1, <1>2 DEF IInv, AllFit, Dial, Fits, Starting, Sending, Stopping, Busy, At
<1>4. AllFit' /\ AliveListed'
  BY <1>1, <1>2, <1>3, Move DEF Dial, locks
<1>5. TypeOK'
  BY <1>1, <1>2, MoveFacts, PartyAssumption DEF IInv, TypeOK, Dial, locks, Frames
<1> QED
  BY <1>4, <1>5 DEF IInv

\* The tunnel is the one that its bot knows.
LEMMA NewStep == ASSUME IInv, NEW p \in Procs, NewDCCTunnel(p) PROVE IInv'
<1> DEFINE f == [frame[p] EXCEPT !.pc = "start"]
<1>1. frame \in [Procs -> Frames] /\ frame[p].pc = "dial" /\ frame[p] \in Frames /\ Becomes(p, f)
  BY TypeFacts, GoesFacts DEF IInv, NewDCCTunnel, At
<1>2. f \in Frames /\ f.pc = "start" /\ f.tunnel = My(p) /\ f.talk = frame[p].talk
  BY <1>1, GoFacts, FieldFacts DEF My
<1>3. Fits(p, f) /\ My(p) \in Tunnels
  BY <1>1, <1>2 DEF IInv, AllFit, Fits, Starting, Sending, Stopping, Busy, At, My
<1>4. AllFit' /\ AliveListed'
  BY <1>1, <1>2, <1>3, Move DEF NewDCCTunnel, locks
<1>5. TypeOK'
  BY <1>1, <1>2, <1>3, MoveFacts, PartyAssumption DEF IInv, TypeOK, NewDCCTunnel, locks, Frames
<1> QED
  BY <1>4, <1>5 DEF IInv

\* The tunnel is about to be listed.
LEMMA GreetStep == ASSUME IInv, NEW p \in Procs, Greet(p) PROVE IInv'
<1> DEFINE f == [frame[p] EXCEPT !.pc = "add"]
<1>1. frame \in [Procs -> Frames] /\ frame[p].pc = "greet" /\ frame[p] \in Frames /\ Becomes(p, f)
  BY TypeFacts, GoesFacts DEF IInv, Greet, At
<1>2. f \in Frames /\ f.pc = "add" /\ f.tunnel = My(p) /\ f.talk = frame[p].talk
  BY <1>1, GoFacts, FieldFacts DEF My
<1>3. Fits(p, f)
  BY <1>1, <1>2 DEF IInv, AllFit, Fits, Starting, Sending, Stopping, Busy, At, My
<1>4. AllFit' /\ AliveListed'
  BY <1>1, <1>2, <1>3, Move DEF Greet, locks
<1>5. TypeOK'
  BY <1>1, <1>2, MoveFacts DEF IInv, TypeOK, Greet, locks, Frames
<1> QED
  BY <1>4, <1>5 DEF IInv

\* A line of the owner is taken up.
LEMMA LineStep == ASSUME IInv, NEW t \in Tunnels, Line(t) PROVE IInv'
<1> DEFINE p == Loop(t)
           f == Frame("line", t)
<1>1. frame \in [Procs -> Frames] /\ p \in Procs /\ frame[p].pc = "read" /\ Becomes(p, f)
  BY TypeFacts, ProcFacts, PartyAssumption DEF IInv, Line, At
<1>2. f \in Frames /\ f.pc = "line" /\ f.tunnel = t /\ ~f.talk
  BY FrameFacts
<1>3. Fits(p, f)
  BY <1>1, <1>2 DEF IInv, AllFit, Line, Fits, Starting, Sending, Stopping, Busy, At
<1>4. AllFit' /\ AliveListed'
  BY <1>1, <1>2, <1>3, Move DEF Line, locks
<1>5. TypeOK'
  BY <1>1, <1>2, MoveFacts, PartyAssumption DEF IInv, TypeOK, Line, locks, Frames
<1> QED
  BY <1>4, <1>5 DEF IInv

\* It becomes a broadcast that talks.
LEMMA TalkStep == ASSUME IInv, NEW p \in Procs, Talk(p) PROVE IInv'
<1> DEFINE t == My(p)
           f == [Frame("collect", t) EXCEPT !.talk = TRUE]
<1>1. /\ frame \in [Procs -> Frames] /\ frame[p].pc = "line" /\ Fits(p, frame[p])
      /\ t \in Tunnels /\ Becomes(p, f)
  BY TypeFacts DEF IInv, AllFit, Talk, At, Fits, Busy, My
<1> HIDE DEF t
<1>2. f \in Frames /\ f.pc = "collect" /\ f.tunnel = t /\ f.talk
  BY <1>1, FrameFacts DEF Frame, Frames
<1> HIDE DEF f
<1>3. Fits(p, f)
  BY <1>1, <1>2 DEF Fits, Starting, Sending, Stopping, Busy
<1>4. AllFit' /\ AliveListed'
  BY <1>1, <1>2, <1>3, Move DEF Talk, locks
<1>5. TypeOK'
  BY <1>1, <1>2, MoveFacts DEF IInv, TypeOK, Talk, locks, Frames
<1> QED
  BY <1>4, <1>5 DEF IInv

\* It was a command.
LEMMA CommandStep == ASSUME IInv, NEW p \in Procs, Command(p) PROVE IInv'
<1> DEFINE f == Frame("read", My(p))
<1>1. frame \in [Procs -> Frames] /\ frame[p].pc = "line" /\ frame[p] \in Frames /\ Becomes(p, f)
  BY TypeFacts DEF IInv, Command, At
<1>2. f \in Frames /\ f.pc = "read" /\ ~f.talk
  BY <1>1, FieldFacts, FrameFacts DEF My
<1>3. Fits(p, f)
  BY <1>1, <1>2 DEF IInv, AllFit, Fits, Starting, Sending, Stopping, Busy, At, My
<1>4. AllFit' /\ AliveListed'
  BY <1>1, <1>2, <1>3, Move DEF Command, locks
<1>5. TypeOK'
  BY <1>1, <1>2, MoveFacts DEF IInv, TypeOK, Command, locks, Frames
<1> QED
  BY <1>4, <1>5 DEF IInv

\* The reading loop turns to Stop.
LEMMA EndStep == ASSUME IInv, NEW t \in Tunnels, End(t) PROVE IInv'
<1> DEFINE p == Loop(t)
           f == Frame("stop", t)
<1>1. frame \in [Procs -> Frames] /\ p \in Procs /\ frame[p].pc = "read" /\ Becomes(p, f)
  BY TypeFacts, ProcFacts, PartyAssumption DEF IInv, End, At
<1>2. f \in Frames /\ f.pc = "stop" /\ f.tunnel = t /\ ~f.talk
  BY FrameFacts
<1>3. Fits(p, f)
  BY <1>1, <1>2 DEF IInv, AllFit, End, Fits, Starting, Sending, Stopping, Busy, At
<1>4. AllFit' /\ AliveListed'
  BY <1>1, <1>2, <1>3, Move DEF End, locks
<1>5. TypeOK'
  BY <1>1, <1>2, MoveFacts, PartyAssumption DEF IInv, TypeOK, End, locks, Frames
<1> QED
  BY <1>4, <1>5 DEF IInv

\* The callback has seen a tunnel, and holds nothing.
LEMMA ForwardStep == ASSUME IInv, NEW b \in Bots, Forward(b) PROVE IInv'
<1> DEFINE p == Callback(b)
           f == Frame("use", None)
<1>1. frame \in [Procs -> Frames] /\ p \in Procs /\ frame[p].pc = "idle" /\ Becomes(p, f)
  BY TypeFacts, ProcFacts, PartyAssumption DEF IInv, Forward, At
<1>2. f \in Frames /\ f.pc = "use" /\ ~f.talk
  BY FrameFacts
<1>3. Fits(p, f)
  BY <1>1, <1>2 DEF IInv, AllFit, Forward, Fits, Starting, Sending, Stopping, Busy, At
<1>4. AllFit' /\ AliveListed'
  BY <1>1, <1>2, <1>3, Move DEF Forward, locks
<1>5. TypeOK'
  BY <1>1, <1>2, MoveFacts, PartyAssumption DEF IInv, TypeOK, Forward, locks, Frames
<1> QED
  BY <1>4, <1>5 DEF IInv

\* The reader of the party line goes on to its listeners.
LEMMA NickStep == ASSUME IInv, NEW p \in Procs, Nick(p) PROVE IInv'
<1> DEFINE f == [frame[p] EXCEPT !.pc = "send"]
<1>1. frame \in [Procs -> Frames] /\ frame[p].pc = "nick" /\ frame[p] \in Frames /\ Becomes(p, f)
  BY TypeFacts, GoesFacts DEF IInv, Nick, At
<1>2. f \in Frames /\ f.pc = "send" /\ f.tunnel = My(p) /\ f.talk = frame[p].talk
  BY <1>1, GoFacts, FieldFacts, FrameFacts DEF My
<1>3. Fits(p, f)
  BY <1>1, <1>2 DEF IInv, AllFit, Nick, Fits, Starting, Sending, Stopping, Busy, At, My
<1>4. AllFit' /\ AliveListed'
  BY <1>1, <1>2, <1>3, Move DEF Nick, locks
<1>5. TypeOK'
  BY <1>1, <1>2, MoveFacts, PartyAssumption DEF IInv, TypeOK, Nick, Writes, locks, Frames
<1> QED
  BY <1>4, <1>5 DEF IInv

\* The write is over, with the next listener to come.
LEMMA WrittenStep == ASSUME IInv, NEW p \in Procs, Written(p) PROVE IInv'
<1> DEFINE f == [frame[p] EXCEPT !.pc = "send"]
<1>1. frame \in [Procs -> Frames] /\ frame[p].pc = "write" /\ frame[p] \in Frames /\ Becomes(p, f)
  BY TypeFacts, GoesFacts DEF IInv, Written, At
<1>2. f \in Frames /\ f.pc = "send" /\ f.tunnel = My(p) /\ f.talk = frame[p].talk
  BY <1>1, GoFacts, FieldFacts, FrameFacts DEF My
<1>3. Fits(p, f)
  BY <1>1, <1>2 DEF IInv, AllFit, Written, Fits, Starting, Sending, Stopping, Busy, At, My
<1>4. AllFit' /\ AliveListed'
  BY <1>1, <1>2, <1>3, Move DEF Written, locks
<1>5. TypeOK'
  BY <1>1, <1>2, MoveFacts, PartyAssumption DEF IInv, TypeOK, Written, Writes, locks, Frames
<1> QED
  BY <1>4, <1>5 DEF IInv

\* The talker reads again; it was no stopper, for it talks.
LEMMA LogStep == ASSUME IInv, NEW p \in Procs, Log(p) PROVE IInv'
<1> DEFINE f == Frame("read", My(p))
<1>1. frame \in [Procs -> Frames] /\ frame[p].pc = "log" /\ frame[p] \in Frames /\ Becomes(p, f)
  BY TypeFacts, GoesFacts DEF IInv, Log, At
<1>2. f \in Frames /\ f.pc = "read" /\ ~f.talk
  BY <1>1, GoFacts, FieldFacts, FrameFacts DEF My
<1>3. Fits(p, f)
  BY <1>1, <1>2 DEF IInv, AllFit, Log, Fits, Starting, Sending, Stopping, Busy, At, My
<1>4. AllFit' /\ AliveListed'
  BY <1>1, <1>2, <1>3, Move DEF Log, locks
<1>5. TypeOK'
  BY <1>1, <1>2, MoveFacts, PartyAssumption DEF IInv, TypeOK, Log, Writes, locks, Frames
<1> QED
  BY <1>4, <1>5 DEF IInv

\* A writer queues up; no frame changes.
LEMMA RequestStep == ASSUME IInv, NEW p \in Procs, Request(p) PROVE IInv'
<1>1. AllFit' /\ AliveListed'
  BY DEF IInv, Request, AllFit, Fits, Starting, AliveListed, At
<1>2. TypeOK'
  BY DEF IInv, Request, TypeOK
<1> QED
  BY <1>1, <1>2 DEF IInv

\* Copying the listeners keeps the tunnel and the kind of a broadcast.
LEMMA CollectStep == ASSUME IInv, NEW p \in Procs, Collect(p) PROVE IInv'
<1> DEFINE f == frame[p]
           todo == IF f.talk \/ tmu[f.tunnel] = p THEN sessions \ {f.tunnel} ELSE sessions
           heard == [f EXCEPT !.todo = todo]
<1>1. frame \in [Procs -> Frames] /\ f.pc = "collect" /\ f \in Frames /\ Fits(p, f)
  BY TypeFacts DEF IInv, AllFit, Collect, At
<1>2. heard \in Frames /\ heard.pc = f.pc /\ heard.tunnel = f.tunnel /\ heard.talk = f.talk
  <2>1. todo \subseteq Tunnels
    BY DEF IInv, TypeOK
  <2> HIDE DEF todo
  <2> QED
    BY <1>1, <2>1 DEF Frames
<1>3. PICK pc \in {"nick", "send"} :
        /\ Becomes(p, [heard EXCEPT !.pc = pc])
        /\ pc = "nick" => f.talk /\ readers' = readers \cup {p}
        /\ pc = "send" => readers' = readers
  BY DEF Collect
<1> DEFINE g == [heard EXCEPT !.pc = pc]
<1> HIDE DEF heard
<1>4. g \in Frames /\ g.pc = pc /\ g.tunnel = f.tunnel /\ g.talk = f.talk
  BY <1>2 DEF Frames
<1>5. Becomes(p, g)
  BY <1>3
<1> HIDE DEF g
<1>6. Fits(p, g)
  BY <1>1, <1>3, <1>4 DEF Fits, Starting, Sending, Stopping, Busy
<1>7. AllFit' /\ AliveListed'
  BY <1>1, <1>4, <1>5, <1>6, Move DEF Collect
<1>8. TypeOK'
  BY <1>1, <1>3, <1>4, <1>5, MoveFacts DEF IInv, TypeOK, Collect, Frames
<1> QED
  BY <1>7, <1>8 DEF IInv

\* One listener less, the same tunnel.
LEMMA SendStep == ASSUME IInv, NEW p \in Procs, Send(p) PROVE IInv'
<1>1. frame \in [Procs -> Frames] /\ frame[p].pc = "send" /\ frame[p] \in Frames /\ Fits(p, frame[p])
  BY TypeFacts DEF IInv, AllFit, Send, At
<1>2. PICK t \in frame[p].todo, pc \in {"send", "write"} :
        Becomes(p, [frame[p] EXCEPT !.todo = @ \ {t}, !.pc = pc])
  BY DEF Send
<1> DEFINE f == [frame[p] EXCEPT !.todo = @ \ {t}, !.pc = pc]
<1>3. f \in Frames /\ f.pc = pc /\ f.tunnel = frame[p].tunnel /\ f.talk = frame[p].talk
  BY <1>1 DEF Frames
<1>4. Becomes(p, f)
  BY <1>2
<1> HIDE DEF f
<1>5. Fits(p, f)
  BY <1>1, <1>3 DEF Fits, Starting, Sending, Stopping, Busy
<1>6. AllFit' /\ AliveListed'
  BY <1>1, <1>3, <1>4, <1>5, Move DEF Send, locks
<1>7. TypeOK'
  BY <1>1, <1>3, <1>4, MoveFacts DEF IInv, TypeOK, Send, locks, Frames
<1> QED
  BY <1>6, <1>7 DEF IInv

\* The callback rests, or turns to stop the tunnel that it found.
LEMMA WriteToConnStep == ASSUME IInv, NEW b \in Bots, WriteToConn(b) PROVE IInv'
<1> DEFINE p == Callback(b)
<1>1. frame \in [Procs -> Frames] /\ p \in Procs /\ frame[p].pc = "use" /\ Fits(p, frame[p]) /\ dcc[b] \in Tunnels
  BY TypeFacts, ProcFacts DEF IInv, AllFit, TypeOK, WriteToConn, At
<1>2. PICK f \in Frames : Becomes(p, f) /\ f.pc \in {"none", "idle", "stop"} /\ ~f.talk /\ (f.pc = "stop" => f.tunnel \in Tunnels)
  <2>1. CASE Becomes(p, Rest(p))
    BY <2>1, <1>1, RestFacts, FrameFacts
  <2>2. CASE Becomes(p, Frame("stop", dcc[b]))
    BY <2>2, <1>1, FrameFacts
  <2> QED
    BY <2>1, <2>2 DEF WriteToConn
<1>3. Fits(p, f)
  BY <1>1, <1>2 DEF Fits, Starting, Sending, Stopping, Busy
<1>4. AllFit' /\ AliveListed'
  BY <1>1, <1>2, <1>3, Move DEF WriteToConn, locks
<1>5. TypeOK'
  BY <1>1, <1>2, MoveFacts DEF IInv, TypeOK, WriteToConn, locks, Frames
<1> QED
  BY <1>4, <1>5 DEF IInv

\* Quit turns to the tunnel that it found, if any.
LEMMA QuitStep == ASSUME IInv, NEW b \in Quitters, Quit(b) PROVE IInv'
<1> DEFINE p == Quitter(b)
<1>1. frame \in [Procs -> Frames] /\ p \in Procs /\ frame[p].pc = "idle" /\ Fits(p, frame[p])
      /\ b \in Bots /\ dcc[b] \in {None} \cup Tunnels
  BY TypeFacts, ProcFacts, PartyAssumption DEF IInv, AllFit, TypeOK, Quit, At
<1>2. PICK f \in Frames : Becomes(p, f) /\ f.pc \in {"unlock", "stop"} /\ ~f.talk /\ (f.pc = "stop" => f.tunnel \in Tunnels)
  <2>1. CASE dcc[b] = None
    BY <2>1, FrameFacts DEF Quit
  <2>2. CASE dcc[b] # None
    BY <2>2, <1>1, FrameFacts DEF Quit
  <2> QED
    BY <2>1, <2>2
<1>3. Fits(p, f)
  BY <1>1, <1>2 DEF Fits, Starting, Sending, Stopping, Busy
<1>4. AllFit' /\ AliveListed'
  BY <1>1, <1>2, <1>3, Move DEF Quit
<1>5. TypeOK'
  BY <1>1, <1>2, MoveFacts DEF IInv, TypeOK, Quit, Frames
<1> QED
  BY <1>4, <1>5 DEF IInv

\* Quit is done and held no dt.mu.
LEMMA QuitEndStep == ASSUME IInv, NEW b \in Quitters, QuitEnd(b) PROVE IInv'
<1> DEFINE p == Quitter(b)
           f == Frame("done", None)
<1>1. frame \in [Procs -> Frames] /\ p \in Procs /\ frame[p].pc = "unlock" /\ Fits(p, frame[p])
      /\ b \in Bots /\ Becomes(p, f)
  BY TypeFacts, ProcFacts, PartyAssumption DEF IInv, AllFit, QuitEnd, At
<1>2. f \in Frames /\ f.pc = "done" /\ ~f.talk
  BY FrameFacts
<1>3. Fits(p, f)
  BY <1>1, <1>2 DEF Fits, Starting, Sending, Stopping, Busy
<1>4. AllFit' /\ AliveListed'
  BY <1>1, <1>2, <1>3, Move DEF QuitEnd
<1>5. TypeOK'
  BY <1>1, <1>2, MoveFacts DEF IInv, TypeOK, QuitEnd, Frames
<1> QED
  BY <1>4, <1>5 DEF IInv

-----------------------------------------------------------------------------
(* The actions that start, list and stop a tunnel.                         *)

\* The tunnel becomes active when nobody holds its dt.mu, and nobody reads
\* from it, so AliveListed asks nothing of it yet; the only starter is this
\* callback.
LEMMA StartStep == ASSUME IInv, NEW p \in Procs, Start(p) PROVE IInv'
<1> DEFINE t == My(p)
           f == [frame[p] EXCEPT !.pc = "greet"]
<1>1. frame \in [Procs -> Frames] /\ frame[p] \in Frames /\ frame[p].pc = "start" /\ t \in Tunnels
      /\ Fits(p, frame[p]) /\ Becomes(p, f) /\ tmu \in [Tunnels -> {None} \cup Procs]
  BY TypeFacts, GoesFacts DEF IInv, AllFit, Start, At, My, Fits, Busy
<1>2. f \in Frames /\ f.pc = "greet" /\ f.tunnel = t /\ f.talk = frame[p].talk
  BY <1>1, GoFacts DEF My
<1>3. frame' \in [Procs -> Frames] /\ frame'[p] = f /\ \A q \in Procs : q # p => frame'[q] = frame[q]
  BY <1>1, <1>2, MoveFacts
<1>4. UNCHANGED <<locks, sessions>> /\ active' = [active EXCEPT ![t] = TRUE] /\ tmu[t] = None
  BY DEF Start
<1>5. p = Callback(BotOf[t]) /\ At(Loop(t), "none") /\ p # Loop(t)
  BY <1>1, ProcFacts, PartyAssumption DEF Fits, Starting, My
<1> HIDE DEF f, t
<1>6. AllFit'
  <2> SUFFICES ASSUME NEW q \in Procs PROVE Fits(q, frame[q])'
    BY DEF AllFit
  <2>1. Fits(q, frame[q])
    BY DEF IInv, AllFit
  <2>2. CASE q = p
    BY <1>1, <1>2, <1>3, <1>4, <1>5, <2>1, <2>2, ProcFacts, NoneAssumption
       DEF Fits, Starting, Sending, Stopping, Busy, At, locks
  <2>3. CASE q # p
    <3>1. \A u \in Tunnels : At(Loop(u), "none") => At(Loop(u), "none")'
      BY <1>1, <1>3, ProcFacts DEF At
    <3>2. ~(Starting(q, frame[q]) /\ frame[q].tunnel = t)
      BY <1>5, <2>1, <2>3 DEF Fits
    <3>3. \A u \in Tunnels : active'[u] => active[u] \/ u = t
      BY <1>4 DEF IInv, TypeOK
    <3>4. frame'[q] = frame[q] /\ tmu' = tmu /\ sessions' = sessions
      BY <1>3, <1>4, <2>3 DEF locks
    <3> QED
      BY <1>1, <1>4, <2>1, <3>1, <3>2, <3>3, <3>4, NoneAssumption
         DEF Fits, Starting, Sending, Stopping, Busy
  <2> QED
    BY <2>2, <2>3
<1>7. AliveListed'
  BY <1>1, <1>2, <1>3, <1>4, <1>5, ProcFacts DEF AliveListed, IInv, At, TypeOK
<1>8. TypeOK'
  BY <1>1, <1>2, <1>3, <1>4 DEF IInv, TypeOK, Start, locks, Frames
<1> QED
  BY <1>6, <1>7, <1>8 DEF IInv

\* The tunnel is listed, by its one starter.
LEMMA AddStep == ASSUME IInv, NEW p \in Procs, Add(p) PROVE IInv'
<1> DEFINE t == My(p)
           f == [frame[p] EXCEPT !.pc = "collect"]
<1>1. frame \in [Procs -> Frames] /\ frame[p] \in Frames /\ frame[p].pc = "add" /\ t \in Tunnels
      /\ Fits(p, frame[p]) /\ Becomes(p, f)
  BY TypeFacts, GoesFacts DEF IInv, AllFit, Add, At, My, Fits, Busy
<1>2. f \in Frames /\ f.pc = "collect" /\ f.tunnel = t /\ f.talk = frame[p].talk
  BY <1>1, GoFacts DEF My
<1>3. frame' \in [Procs -> Frames] /\ frame'[p] = f /\ \A q \in Procs : q # p => frame'[q] = frame[q]
  BY <1>1, <1>2, MoveFacts
<1>4. UNCHANGED <<bmu, tmu, readers, active, dcc>> /\ sessions' = sessions \cup {t} /\ writers' = writers \ {p}
  BY DEF Add, Writes
<1> HIDE DEF f, t
<1>5. AllFit'
  <2> SUFFICES ASSUME NEW q \in Procs PROVE Fits(q, frame[q])'
    BY DEF AllFit
  <2>1. Fits(q, frame[q])
    BY DEF IInv, AllFit
  <2>2. \A u \in Tunnels : At(Loop(u), "none") => At(Loop(u), "none")'
    BY <1>1, <1>3, ProcFacts DEF At
  <2>3. CASE q = p
    <3>1. ~frame[p].talk /\ \A u \in Tunnels : tmu[u] # p
      BY <1>1 DEF Fits, Sending, Stopping
    <3>2. p = Callback(BotOf[t]) /\ At(Loop(t), "none")
      BY <1>1 DEF Fits, Starting, My, t
    <3>3. frame'[q] = f /\ t \in sessions' /\ tmu' = tmu /\ frame'[Loop(t)].pc = "none"
      BY <1>1, <1>3, <1>4, <2>2, <2>3, <3>2 DEF At
    <3> QED
      BY <1>1, <1>2, <2>3, <3>1, <3>2, <3>3 DEF Fits, Starting, Sending, Stopping, Busy, At
  <2>4. CASE q # p
    BY <1>3, <1>4, <2>1, <2>2, <2>4 DEF Fits, Starting, Sending, Stopping, Busy
  <2> QED
    BY <2>3, <2>4
<1>6. AliveListed'
  BY <1>1, <1>3, <1>4, ProcFacts DEF AliveListed, IInv, At
<1>7. TypeOK'
  BY <1>1, <1>2, <1>3, <1>4 DEF IInv, TypeOK, Frames
<1> QED
  BY <1>5, <1>6, <1>7 DEF IInv

\* A stopper of an active tunnel takes a free dt.mu and makes the tunnel
\* inactive; of an inactive one it takes nothing.
LEMMA StopStep == ASSUME IInv, NEW p \in Procs, Stop(p) PROVE IInv'
<1> DEFINE t == My(p)
<1>1. frame \in [Procs -> Frames] /\ frame[p] \in Frames /\ frame[p].pc = "stop" /\ t \in Tunnels
      /\ Fits(p, frame[p]) /\ tmu \in [Tunnels -> {None} \cup Procs] /\ tmu[t] = None
  BY TypeFacts DEF IInv, AllFit, Stop, At, My, Fits, Busy
<1>2. CASE ~active[t]
  <2>1. PICK f \in Frames : Becomes(p, f) /\ f.pc \in {"idle", "unlock", "done"} /\ ~f.talk
    <3>1. Becomes(p, AfterStop(p))
      BY <1>2 DEF Stop
    <3> QED
      BY <3>1, RestFacts, FrameFacts
  <2>2. Fits(p, f)
    BY <1>1, <2>1 DEF Fits, Starting, Sending, Stopping, Busy
  <2>3. UNCHANGED <<bmu, tmu, readers, writers, sessions, active, dcc>>
    BY <1>2 DEF Stop
  <2>4. AllFit' /\ AliveListed'
    BY <1>1, <2>1, <2>2, <2>3, Move
  <2>5. TypeOK'
    BY <1>1, <2>1, <2>3, MoveFacts DEF IInv, TypeOK, Frames
  <2> QED
    BY <2>4, <2>5 DEF IInv
<1>3. CASE active[t]
  <2> DEFINE f == [frame[p] EXCEPT !.pc = "remove"]
  <2>1. f \in Frames /\ f.pc = "remove" /\ f.tunnel = t /\ f.talk = frame[p].talk
    BY <1>1, GoFacts DEF My
  <2>2. Becomes(p, f)
    BY <1>1, <1>3, GoesFacts DEF Stop
  <2>3. frame' \in [Procs -> Frames] /\ frame'[p] = f /\ \A q \in Procs : q # p => frame'[q] = frame[q]
    BY <1>1, <2>1, <2>2, MoveFacts
  <2>4. /\ tmu' = [tmu EXCEPT ![t] = p] /\ active' = [active EXCEPT ![t] = FALSE]
        /\ UNCHANGED <<bmu, readers, writers, sessions, dcc>>
    BY <1>3 DEF Stop
  <2> HIDE DEF f, t
  <2>5. /\ \A u \in Tunnels : tmu'[u] = IF u = t THEN p ELSE tmu[u]
        /\ \A u \in Tunnels : active'[u] <=> active[u] /\ u # t
    BY <1>1, <2>4 DEF IInv, TypeOK
  <2>6. AllFit'
    <3> SUFFICES ASSUME NEW q \in Procs PROVE Fits(q, frame[q])'
      BY DEF AllFit
    <3>1. Fits(q, frame[q])
      BY DEF IInv, AllFit
    <3>2. \A u \in Tunnels : At(Loop(u), "none") => At(Loop(u), "none")'
      BY <1>1, <2>3, ProcFacts DEF At
    <3>3. CASE q = p
      <4>1. ~frame[p].talk /\ \A u \in Tunnels : tmu[u] # p
        BY <1>1 DEF Fits, Sending, Stopping
      <4>2. \A u \in Tunnels : tmu'[u] = p <=> u = t
        BY <2>5, <4>1
      <4>3. frame'[q] = f /\ ~active'[t] /\ t \in Tunnels
        BY <1>1, <2>3, <2>5, <3>3
      <4> QED
        BY <2>1, <3>3, <4>1, <4>2, <4>3 DEF Fits, Starting, Sending, Stopping, Busy
    <3>4. CASE q # p
      <4>1. frame'[q] = frame[q] /\ sessions' = sessions
        BY <2>3, <2>4, <3>4
      <4>2. \A u \in Tunnels : tmu'[u] = q <=> tmu[u] = q
        BY <1>1, <2>5, <3>4, NoneAssumption
      <4> QED
        BY <2>5, <3>1, <3>2, <4>1, <4>2 DEF Fits, Starting, Sending, Stopping, Busy
    <3> QED
      BY <3>3, <3>4
  <2>7. AliveListed'
    BY <1>1, <2>3, <2>4, <2>5, ProcFacts DEF AliveListed, IInv, At
  <2>8. TypeOK'
    BY <1>1, <2>1, <2>3, <2>4 DEF IInv, TypeOK, Frames
  <2> QED
    BY <2>6, <2>7, <2>8 DEF IInv
<1> QED
  BY <1>1, <1>2, <1>3

\* The tunnel is taken off the list by the holder of its dt.mu, and is
\* inactive.
LEMMA RemoveStep == ASSUME IInv, NEW p \in Procs, Remove(p) PROVE IInv'
<1> DEFINE t == My(p)
<1>1. frame \in [Procs -> Frames] /\ frame[p] \in Frames /\ frame[p].pc = "remove" /\ t \in Tunnels
      /\ Fits(p, frame[p])
  BY TypeFacts DEF IInv, AllFit, Remove, At, My, Fits, Stopping, Busy
<1>2. PICK pc \in {"collect", "onstop"} : Becomes(p, [frame[p] EXCEPT !.pc = pc])
  BY <1>1, GoesFacts DEF Remove
<1> DEFINE f == [frame[p] EXCEPT !.pc = pc]
<1>3. f \in Frames /\ f.pc = pc /\ f.tunnel = t /\ f.talk = frame[p].talk
  BY <1>1 DEF Frames, My
<1>4. frame' \in [Procs -> Frames] /\ frame'[p] = f /\ \A q \in Procs : q # p => frame'[q] = frame[q]
  BY <1>1, <1>2, <1>3, MoveFacts
<1>5. UNCHANGED <<bmu, tmu, readers, active, dcc>> /\ sessions' = sessions \ {t} /\ writers' = writers \ {p}
  BY DEF Remove, Writes
<1>6. tmu[t] = p /\ ~active[t]
  BY <1>1 DEF Fits, Stopping, My
<1> HIDE DEF f, t
<1>7. AllFit'
  <2> SUFFICES ASSUME NEW q \in Procs PROVE Fits(q, frame[q])'
    BY DEF AllFit
  <2>1. Fits(q, frame[q])
    BY DEF IInv, AllFit
  <2>2. \A u \in Tunnels : At(Loop(u), "none") => At(Loop(u), "none")'
    BY <1>1, <1>4, ProcFacts DEF At
  <2>3. CASE q = p
    BY <1>1, <1>3, <1>4, <1>5, <1>6, <2>1, <2>2, <2>3 DEF Fits, Starting, Sending, Stopping, Busy
  <2>4. CASE q # p
    BY <1>4, <1>5, <1>6, <2>1, <2>2, <2>4 DEF Fits, Starting, Sending, Stopping, Busy
  <2> QED
    BY <2>3, <2>4
<1>8. AliveListed'
  BY <1>1, <1>4, <1>5, <1>6, ProcFacts DEF AliveListed, IInv, At
<1>9. TypeOK'
  BY <1>1, <1>3, <1>4, <1>5 DEF IInv, TypeOK, Frames
<1> QED
  BY <1>7, <1>8, <1>9 DEF IInv

\* dt.mu is given up by the one who has it.
LEMMA OnStopStep == ASSUME IInv, NEW p \in Procs, OnStop(p) PROVE IInv'
<1> DEFINE t == My(p)
<1>1. frame \in [Procs -> Frames] /\ frame[p] \in Frames /\ frame[p].pc = "onstop" /\ t \in Tunnels
      /\ Fits(p, frame[p]) /\ tmu \in [Tunnels -> {None} \cup Procs]
  BY TypeFacts DEF IInv, AllFit, OnStop, At, My, Fits, Stopping, Busy
<1>2. PICK f \in Frames : Becomes(p, f) /\ f.pc \in {"idle", "unlock", "done"} /\ ~f.talk
  <2>1. Becomes(p, AfterStop(p))
    BY DEF OnStop
  <2> QED
    BY <2>1, RestFacts, FrameFacts
<1>3. frame' \in [Procs -> Frames] /\ frame'[p] = f /\ \A q \in Procs : q # p => frame'[q] = frame[q]
  BY <1>1, <1>2, MoveFacts
<1>4. /\ UNCHANGED <<bmu, readers, writers, sessions, active>>
      /\ tmu' = [tmu EXCEPT ![t] = None]
      /\ dcc' = [dcc EXCEPT ![BotOf[t]] = None]
  BY DEF OnStop
<1>5. tmu[t] = p /\ \A u \in Tunnels : tmu[u] = p => u = t
  BY <1>1 DEF Fits, Stopping, My
<1> HIDE DEF t
<1>6. \A u \in Tunnels : tmu'[u] = IF u = t THEN None ELSE tmu[u]
  BY <1>1, <1>4
<1>7. AllFit'
  <2> SUFFICES ASSUME NEW q \in Procs PROVE Fits(q, frame[q])'
    BY DEF AllFit
  <2>1. Fits(q, frame[q])
    BY DEF IInv, AllFit
  <2>2. \A u \in Tunnels : At(Loop(u), "none") => At(Loop(u), "none")'
    BY <1>1, <1>3, ProcFacts DEF At
  <2>3. CASE q = p
    <3>1. frame'[q] = f /\ \A u \in Tunnels : tmu'[u] # q
      BY <1>3, <1>5, <1>6, <2>3, NoneAssumption
    <3> QED
      BY <1>2, <3>1 DEF Fits, Starting, Sending, Stopping, Busy
  <2>4. CASE q # p
    <3>1. frame'[q] = frame[q] /\ sessions' = sessions /\ active' = active
      BY <1>3, <1>4, <2>4
    <3>2. \A u \in Tunnels : tmu'[u] = q <=> tmu[u] = q
      BY <1>5, <1>6, <2>4, NoneAssumption
    <3> QED
      BY <2>1, <2>2, <3>1, <3>2 DEF Fits, Starting, Sending, Stopping, Busy
  <2> QED
    BY <2>3, <2>4
<1>8. AliveListed'
  BY <1>1, <1>3, <1>4, ProcFacts DEF AliveListed, IInv, At
<1>9. TypeOK'
  BY <1>1, <1>2, <1>3, <1>4, PartyAssumption DEF IInv, TypeOK, Frames
<1> QED
  BY <1>7, <1>8, <1>9 DEF IInv

\* A talker logs, a stopper goes on; a starter lets the reading loop run,
\* when an active tunnel has been listed.
LEMMA SentAllStep == ASSUME IInv, NEW p \in Procs, SentAll(p) PROVE IInv'
<1> DEFINE t == My(p)
<1>1. frame \in [Procs -> Frames] /\ frame[p] \in Frames /\ frame[p].pc = "send" /\ t \in Tunnels
      /\ Fits(p, frame[p]) /\ tmu \in [Tunnels -> {None} \cup Procs]
  BY TypeFacts DEF IInv, AllFit, SentAll, At, My, Fits, Sending, Busy
<1>2. UNCHANGED <<locks, sessions, active, dcc>>
  BY DEF SentAll
<1>3. CASE frame[p].talk \/ tmu[t] = p
  <2> DEFINE pc == IF frame[p].talk THEN "log" ELSE "onstop"
             f == [frame[p] EXCEPT !.pc = pc]
  <2>1. f \in Frames /\ f.pc = pc /\ f.tunnel = t /\ f.talk = frame[p].talk
    BY <1>1 DEF Frames, My
  <2>2. Becomes(p, f)
    BY <1>1, <1>3, GoesFacts DEF SentAll
  <2> HIDE DEF f
  <2>3. Fits(p, f)
    BY <1>1, <1>3, <2>1 DEF Fits, Starting, Sending, Stopping, Busy, My
  <2>4. AllFit' /\ AliveListed'
    BY <1>1, <1>2, <2>1, <2>2, <2>3, Move DEF locks
  <2>5. TypeOK'
    BY <1>1, <1>2, <2>1, <2>2, MoveFacts DEF IInv, TypeOK, locks, Frames
  <2> QED
    BY <2>4, <2>5 DEF IInv
<1>4. CASE ~(frame[p].talk \/ tmu[t] = p)
  <2> DEFINE l == Loop(t)
             f == Frame("read", t)
  <2>1. p = Callback(BotOf[t]) /\ frame[l].pc = "none" /\ (active[t] => t \in sessions) /\ l \in Procs /\ l # p
    BY <1>1, <1>4, ProcFacts, PartyAssumption DEF Fits, Starting, Sending, My, At
  <2>2. PICK r \in Frames : r = Rest(p) /\ r.pc \in {"none", "idle"} /\ ~r.talk
    BY RestFacts, FrameFacts
  <2>3. f \in Frames /\ f.pc = "read" /\ ~f.talk
    BY <1>1, FrameFacts
  <2>4. frame' = [frame EXCEPT ![p] = r, ![l] = f]
    BY <1>4, <2>2 DEF SentAll
  <2> HIDE DEF f
  <2>5. /\ frame' \in [Procs -> Frames] /\ frame'[p] = r /\ frame'[l] = f
        /\ \A q \in Procs \ {p, l} : frame'[q] = frame[q]
    <3> HIDE DEF l
    <3> QED BY <1>1, <2>1, <2>2, <2>3, <2>4
  <2>6. \A u \in Tunnels : u # t /\ At(Loop(u), "none") => At(Loop(u), "none")'
    BY <1>1, <2>1, <2>5, ProcFacts DEF At
  <2>7. AllFit'
    <3> SUFFICES ASSUME NEW q \in Procs PROVE Fits(q, frame[q])'
      BY DEF AllFit
    <3>1. Fits(q, frame[q])
      BY DEF IInv, AllFit
    <3>2. CASE q = p
      <4>1. \A u \in Tunnels : tmu[u] # p
        BY <1>1, <1>4 DEF Fits, My
      <4> QED
        BY <1>2, <2>2, <2>5, <3>2, <4>1 DEF Fits, Starting, Sending, Stopping, Busy, locks
    <3>3. CASE q = l
      <4>1. \A u \in Tunnels : tmu[u] # l
        BY <2>1, <3>1, <3>3 DEF Fits, Sending, Stopping
      <4> QED
        BY <1>2, <2>3, <2>5, <3>3, <4>1 DEF Fits, Starting, Sending, Stopping, Busy, locks
    <3>4. CASE q # p /\ q # l
      <4>1. frame'[q] = frame[q]
        BY <2>5, <3>4
      <4>2. Starting(q, frame[q]) => frame[q].tunnel # t
        BY <2>1, <3>1, <3>4 DEF Fits
      <4>3. Starting(q, frame[q]) => frame[q].tunnel \in Tunnels
        BY <3>1 DEF Fits, Starting, Sending, Busy
      <4> QED
        BY <1>2, <2>6, <3>1, <4>1, <4>2, <4>3 DEF Fits, Starting, locks
    <3> QED
      BY <3>2, <3>3, <3>4
  <2>8. AliveListed'
    <3> SUFFICES ASSUME NEW u \in Tunnels, active'[u], ~At(Loop(u), "none")' PROVE u \in sessions'
      BY DEF AliveListed
    <3>1. active[u] /\ sessions' = sessions
      BY <1>2
    <3>2. CASE u = t
      BY <2>1, <3>1, <3>2
    <3>3. CASE u # t
      <4>1. Loop(u) \in Procs \ {p, l}
        BY <1>1, <2>1, <3>3, ProcFacts, PartyAssumption
      <4> QED
        BY <2>5, <3>1, <4>1 DEF AliveListed, IInv, At
    <3> QED
      BY <3>2, <3>3
  <2>9. TypeOK'
    BY <1>1, <1>2, <2>1, <2>5 DEF IInv, TypeOK, locks, Frames
  <2> QED
    BY <2>7, <2>8, <2>9 DEF IInv
<1> QED
  BY <1>3, <1>4

-----------------------------------------------------------------------------
(* The theorems.                                                           *)

\* Nothing is made or held at first.
LEMMA InitInv == Init => IInv
<1> SUFFICES ASSUME Init PROVE IInv
  OBVIOUS
<1>1. frame \in [Procs -> Frames] /\ \A p \in Procs : frame[p].pc \in {"none", "idle"} /\ ~frame[p].talk
  <2>1. \A p \in Procs : Rest(p) \in Frames /\ Rest(p).pc \in {"none", "idle"} /\ ~Rest(p).talk
    BY RestFacts, FrameFacts
  <2> QED
    BY <2>1 DEF Init
<1>2. TypeOK
  BY <1>1 DEF Init, TypeOK, Frames
<1>3. AllFit
  BY <1>1, NoneAssumption DEF Init, AllFit, Fits, Starting, Sending, Stopping, Busy
<1>4. AliveListed
  BY DEF Init, AliveListed
<1> QED
  BY <1>2, <1>3, <1>4 DEF IInv

\* Nothing changes.
LEMMA StutterStep == ASSUME IInv, UNCHANGED vars PROVE IInv'
<1>1. TypeOK'
  BY DEF IInv, TypeOK, vars, locks
<1>2. AllFit'
  BY DEF IInv, AllFit, Fits, Starting, At, vars, locks
<1>3. AliveListed'
  BY DEF IInv, AliveListed, At, vars, locks
<1> QED
  BY <1>1, <1>2, <1>3 DEF IInv

\* Every step keeps the invariant.
LEMMA NextInv == IInv /\ [Next]_vars => IInv'
<1> SUFFICES ASSUME IInv, [Next]_vars PROVE IInv'
  OBVIOUS
<1>1. CASE \E p \in Procs : Step(p)
  <2> PICK p \in Procs : Step(p)
    BY <1>1
  <2> QED
    BY NewStep, StartStep, GreetStep, TalkStep, CommandStep, RequestStep, AddStep, CollectStep, NickStep, SendStep, WrittenStep, SentAllStep,
       LogStep, StopStep, RemoveStep, OnStopStep DEF Step
<1>2. CASE \E t \in Tunnels : Dial(t) \/ Line(t) \/ End(t)
  BY <1>2, DialStep, LineStep, EndStep
<1>3. CASE \E b \in Bots : Forward(b) \/ WriteToConn(b)
  BY <1>3, ForwardStep, WriteToConnStep
<1>4. CASE \E b \in Quitters : Quit(b) \/ QuitEnd(b)
  BY <1>4, QuitStep, QuitEndStep
<1>5. CASE UNCHANGED vars
  BY <1>5, StutterStep
<1> QED
  BY <1>1, <1>2, <1>3, <1>4, <1>5 DEF Next

\* The type invariant of the party line, for every fleet and set of chats.
THEOREM TypeCorrect == Spec => []TypeOK
<1>1. IInv => TypeOK
  BY DEF IInv
<1> QED
  BY InitInv, NextInv, <1>1, PTL DEF Spec

\* A chat that is up and read from is on the party line (dcc_tunnel.go:63-126,
\* 247-316), however Start, Stop, Quit and the callbacks of the bots interleave.
THEOREM AliveListedHolds == Spec => []AliveListed
<1>1. IInv => AliveListed
  BY DEF IInv
<1> QED
  BY InitInv, NextInv, <1>1, PTL DEF Spec
=============================================================================
