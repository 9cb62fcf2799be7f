------------------------------ MODULE NickCatch ------------------------------
(***************************************************************************)
(* How the fleet catches nicks: NickManager's lock map and its response    *)
(* handlers (internal/nickmanager/nickmanager.go), the nick side of every  *)
(* bot (internal/bot/bot.go) and the IRC server between them.              *)
(*                                                                         *)
(* Each poll has its goroutine, which runs handleISONResponse on the reply *)
(* and gives up nm.mutex between its steps: these handlers interleave with *)
(* one another, with the bots' callbacks and with the passing of time.     *)
(* The two directions of a connection are FIFO queues.  go-ircevo starts   *)
(* the callbacks of an event side by side and waits for them, at most 30 s *)
(* (bot.go:334-336), before it goes on to the next event: here they end in *)
(* that time, since none of them waits for more than a mutex.              *)
(*                                                                         *)
(* Left to other modules: which bot polls, when a request times out and    *)
(* missed self-NICK events (Ison; while none is missed, NickChain makes    *)
(* the reconciliation of a 303 a step without effect), reconnection and    *)
(* what makes a bot give up (Fleet), edits of the nick lists (NickList).   *)
(***************************************************************************)
EXTENDS Integers, Sequences, FiniteSets, SequencesExt

CONSTANTS
  Bots,          \* the bots of the fleet
  Crew,          \* the bots in the order of nm.bots
  Polled,        \* nm.connectedBots, the bots that are polled (see Ison)
  Home,          \* [Bots -> Nicks]: the nick each bot registered with
  Nicks,         \* every nick of the model
  Priority,      \* nm.priorityNicks
  Secondary,     \* nm.secondaryNicks, the single letters
  OneChar,       \* the nicks n with len(n) = 1
  Lower,         \* [Nicks -> Nicks]: strings.ToLower and NickEqualRFC, which agree
                 \* on nicks without the letters []\~
  ServerOf,      \* the server of each bot (GetServerName)
  Refusing,      \* the pairs of a server and a nick it answers 432 to
  InflightLock,  \* nickAssignmentInflightLock, in clock ticks
  Backoff,       \* tempUnavailableTimeout, in clock ticks
  MaxPending,    \* bound: spawned AttemptNickChange calls per bot and nick
  MaxQueue,      \* bound: NICK commands of a bot whose answer it has not read
  MaxPolls,      \* bound: ISON requests in all; 0 for no bound
  MayDrop,       \* bots whose connection may break
  Penalised,     \* targets under an &SAVE penalty (437) at the start
  MaxTakes       \* bound: targets taken by foreign users

List == Priority \o Secondary   \* nicksToCatch; the loops take it in this order
Targets == ToSet(Priority) \cup ToSet(Secondary)
Keys == {Lower[n] : n \in Targets}
Servers == {ServerOf[b] : b \in Bots}

None == [none |-> TRUE]
Absent == -1                    \* no entry in tempUnavailableNicks
Locks == Absent .. Backoff      \* time left; 0 is an expired entry

\* SetBots hands over every bot once.  Of the nicks nothing of the kind is
\* assumed: the list may hold one twice, as when nicks.json names a letter.
ASSUME CrewAssumption == Crew \in Seq(Bots) /\ ToSet(Crew) = Bots
ASSUME OnceAssumption == \A i, j \in DOMAIN Crew : Crew[i] = Crew[j] => i = j
ASSUME NicksAssumption ==
  /\ Home \in [Bots -> Nicks]
  /\ Lower \in [Nicks -> Nicks]
  /\ Priority \in Seq(Nicks)
  /\ Secondary \in Seq(Nicks)
  /\ \A b \in Bots : Lower[Home[b]] \notin Keys
ASSUME TimeAssumption ==
  /\ InflightLock \in Nat
  /\ Backoff \in Nat
  /\ 0 < InflightLock
  /\ InflightLock <= Backoff
ASSUME BoundAssumption == MaxPending \in Nat /\ MaxQueue \in Nat /\ MaxTakes \in Nat /\ MaxPolls \in Nat
ASSUME PenaltyAssumption == Penalised \subseteq Keys

VARIABLES
  roster,     \* nm.bots
  lock,       \* nm.tempUnavailableNicks
  noLetters,  \* nm.NoLettersServers
  hnd,        \* handleISONResponse in the goroutine that polled each bot
  pending,    \* spawned AttemptNickChange goroutines, counted per bot and nick
  run,        \* the AttemptNickChange holding nickChangeBusy of each bot
  cur,        \* b.CurrentNick
  lib,        \* the library's own idea of the nick, Connection.GetNick
  up,         \* b.isConnected
  polling,    \* b.isonInFlight
  told,       \* self-NICK accepted, NotifyNickChange still to be called
  leaving,    \* progress of RemoveBotFromManager's goroutine
  held,       \* the nick the server has for the bot, None once it is gone
  foreign,    \* targets borne by users outside the fleet
  penal,      \* free targets the server refuses with 437
  out, in,    \* lines to and from the server
  takes,      \* targets taken by foreign users so far
  polls       \* ISON requests so far, when they are bounded

nmVars  == <<roster, lock, noLetters, hnd>>
botVars == <<run, cur, lib, up, polling, told, leaving>>
netVars == <<held, foreign, penal, takes, polls>>
vars    == <<nmVars, pending, botVars, netVars, out, in>>

Cmd == [type : {"ison"}] \cup [type : {"nick"}, nick : Targets]
Line == [type : {"nick"}, old : Nicks, new : Nicks]
   \cup [type : {"ison"}, online : SUBSET Keys]
   \cup [type : {"refused", "nocando", "penalty"}, nick : Targets]
   \cup [type : {"closed"}]

\* What handleISONResponse holds in local variables: the online nicks, the
\* available bots, the positions in List of the nicks the filter let through,
\* and the expired entries of its copy of the lock map it has yet to delete.
Idle == [pc |-> "idle", online |-> {}, crew |-> {}, avail |-> {}, gone |-> {}]
Handling == [pc : {"idle", "begun", "priority", "secondary"}, online : SUBSET Keys,
             crew : SUBSET Bots, avail : SUBSET DOMAIN List, gone : SUBSET Keys]
Run == {None} \cup [pc : {"send", "return"}, nick : Targets]

TypeOK ==
  /\ roster \subseteq Bots
  /\ lock \in [Keys -> Locks]
  /\ noLetters \subseteq Servers
  /\ hnd \in [Bots -> Handling]
  /\ pending \in [Bots \X Targets -> Nat]
  /\ run \in [Bots -> Run]
  /\ cur \in [Bots -> Nicks]
  /\ lib \in [Bots -> Nicks]
  /\ up \in [Bots -> BOOLEAN]
  /\ polling \in [Bots -> BOOLEAN]
  /\ told \in [Bots -> {None} \cup [old : Nicks, new : Nicks]]
  /\ leaving \in [Bots -> {"no", "return", "unregister", "done"}]
  /\ held \in [Bots -> {None} \cup Nicks]
  /\ foreign \subseteq Keys
  /\ penal \subseteq Keys
  /\ out \in [Bots -> Seq(Cmd)]
  /\ in \in [Bots -> Seq(Line)]
  /\ takes \in Nat
  /\ polls \in Nat

Init ==
  /\ roster = Bots
  /\ lock = [k \in Keys |-> Absent]
  /\ noLetters = {}
  /\ hnd = [b \in Bots |-> Idle]
  /\ pending = [p \in Bots \X Targets |-> 0]
  /\ run = [b \in Bots |-> None]
  /\ cur = Home
  /\ lib = Home
  /\ up = [b \in Bots |-> TRUE]
  /\ polling = [b \in Bots |-> FALSE]
  /\ told = [b \in Bots |-> None]
  /\ leaving = [b \in Bots |-> "no"]
  /\ held = Home
  /\ foreign = Keys \ Penalised
  /\ penal = Penalised
  /\ out = [b \in Bots |-> <<>>]
  /\ in = [b \in Bots |-> <<>>]
  /\ takes = 0
  /\ polls = 0

-----------------------------------------------------------------------------
(* NickManager's helpers.                                                  *)

IsTarget(n) == Lower[n] \in Keys

\* getAvailableBots: the connected bots that bear no target.
Available == {b \in roster : up[b] /\ ~IsTarget(cur[b])}

\* availableBots[0]
IsFirst(b, bots) ==
  \E i \in DOMAIN Crew : Crew[i] = b /\ b \in bots /\ \A j \in 1 .. i-1 : Crew[j] \notin bots

\* A lock that has not run out refuses the nick.
Locked(k) == lock[k] > 0

\* filterAvailableNicksNonLocking over the positions of one of the lists.
Offered(positions, online) ==
  {i \in positions : Lower[List[i]] \notin online /\ ~Locked(Lower[List[i]])}
Expired(positions) == {k \in Keys : lock[k] = 0 /\ \E i \in positions : Lower[List[i]] = k}

Accepts(b, n) == ~(n \in OneChar /\ ServerOf[b] \in noLetters)

\* Mutant: a nick that was given is left at the front of the list.
AssignmentNoPop(crew, avail) ==
  {<<Crew[i], List[k]>> : i \in {j \in DOMAIN Crew : Crew[j] \in crew},
                          k \in {m \in avail : \A l \in avail : m <= l}}

\* What is left for b of the list, past the position p.
Left(avail, b, p) == {k \in avail : k > p /\ Accepts(b, List[k])}

\* The assignment loops: the bots take nicks off the front of the list, one
\* each; a one-character nick that the bot at the front may not use is
\* thrown away, not kept for the next bot.  Reached(crew, avail)[i] is the
\* position taken by the i-th bot of Crew; past the end of List means that
\* nothing was left.
Reached(crew, avail) ==
  LET at[i \in 0 .. Len(Crew)] ==
        IF i = 0 THEN 0
        ELSE IF Crew[i] \notin crew THEN at[i-1]
        ELSE IF Left(avail, Crew[i], at[i-1]) = {} THEN Len(List) + 1
        ELSE Min(Left(avail, Crew[i], at[i-1]))
  IN  at

Assignment(crew, avail) ==
  LET at == Reached(crew, avail)
  IN  {<<Crew[p[1]], List[p[2]]>> :
         p \in {q \in (DOMAIN Crew) \X avail : Crew[q[1]] \in crew /\ at[q[1]] = q[2]}}

\* go bot.AttemptNickChange(nick) for every pair of the set.
Spawn(pairs) ==
  /\ \A p \in pairs : pending[p] < MaxPending
  /\ pending' = [p \in Bots \X Targets |-> pending[p] + IF p \in pairs THEN 1 ELSE 0]

\* The tail of ReturnNickToPool and NotifyNickChange: lift the lock and give
\* the nick, unlocked, to the first available bot.
Reoffer(n) ==
  /\ lock' = [lock EXCEPT ![Lower[n]] = Absent]
  /\ Spawn({<<b, n>> : b \in {a \in Available : IsFirst(a, Available)}})

ReturnNickToPool(n) ==
  IF n \in ToSet(Secondary) \/ \E t \in ToSet(Priority) : Lower[t] = Lower[n]
  THEN Reoffer(n)
  ELSE UNCHANGED <<lock, pending>>

NotifyNickChange(old) ==
  IF IsTarget(old) THEN Reoffer(old) ELSE UNCHANGED <<lock, pending>>

-----------------------------------------------------------------------------
(* handleISONResponse.  Each step below is one critical section of         *)
(* nm.mutex; the filter's deletions take the lock once per nick.           *)

\* A 303 reaches the request of b and its goroutine starts handling it.
\* Without an available bot the handler returns at once.  Bound: one handler
\* at a time for each polled bot.
Begin(b, online) ==
  /\ hnd[b].pc = "idle"
  /\ lock' = [k \in Keys |-> IF lock[k] = 0 THEN Absent ELSE lock[k]]
  /\ hnd' = [hnd EXCEPT ![b] =
       IF Available = {} THEN Idle
       ELSE [Idle EXCEPT !.pc = "begun", !.online = online, !.crew = Available]]

FilterPriority(b) ==
  /\ hnd[b].pc = "begun"
  /\ LET avail == Offered(1 .. Len(Priority), hnd[b].online) IN
       hnd' = [hnd EXCEPT ![b].pc = "priority", ![b].avail = avail, ![b].gone = Expired(avail)]
  /\ UNCHANGED <<roster, lock, noLetters, pending, botVars, netVars, out, in>>

FilterSecondary(b) ==
  /\ hnd[b].pc = "priority" /\ hnd[b].gone = {}
  /\ LET avail == Offered(Len(Priority) + 1 .. Len(List), hnd[b].online) IN
       hnd' = [hnd EXCEPT ![b].pc = "secondary", ![b].avail = @ \cup avail,
                          ![b].gone = Expired(avail)]
  /\ UNCHANGED <<roster, lock, noLetters, pending, botVars, netVars, out, in>>

\* Delete an entry that had expired in the copy, whatever it holds by now.
Purge(b) ==
  /\ \E k \in hnd[b].gone :
       /\ lock' = [lock EXCEPT ![k] = Absent]
       /\ hnd' = [hnd EXCEPT ![b].gone = @ \ {k}]
  /\ UNCHANGED <<roster, noLetters, pending, botVars, netVars, out, in>>

\* Both assignment loops, under one hold of nm.mutex; the lock map is
\* written but not read again.
Assign(b) ==
  /\ hnd[b].pc = "secondary" /\ hnd[b].gone = {}
  /\ LET pairs == Assignment(hnd[b].crew, hnd[b].avail)
         given == {Lower[p[2]] : p \in pairs}
     IN  /\ Spawn(pairs)
         /\ lock' = [k \in Keys |-> IF k \in given THEN InflightLock ELSE lock[k]]
  /\ hnd' = [hnd EXCEPT ![b] = Idle]
  /\ UNCHANGED <<roster, noLetters, botVars, netVars, out, in>>

-----------------------------------------------------------------------------
(* The bot.                                                                *)

Send(b, cmd) == out' = [out EXCEPT ![b] = Append(@, cmd)]
Unanswered(b) ==
  Cardinality({i \in DOMAIN out[b] : out[b][i].type = "nick"})
    + Cardinality({i \in DOMAIN in[b] : in[b][i].type # "ison"})

\* RequestISON up to the wait for the reply.
Poll(b) ==
  /\ b \in Polled /\ up[b] /\ ~polling[b]
  /\ MaxPolls = 0 \/ polls < MaxPolls
  /\ polls' = IF MaxPolls = 0 THEN 0 ELSE polls + 1
  /\ Send(b, [type |-> "ison"])
  /\ polling' = [polling EXCEPT ![b] = TRUE]
  /\ UNCHANGED <<nmVars, pending, run, cur, lib, up, told, leaving,
                 held, foreign, penal, takes, in>>

\* AttemptNickChange: the CAS on nickChangeBusy and shouldChangeNick.  A
\* busy bot drops the nick.
Attempt(b, n) ==
  /\ pending[<<b, n>>] > 0
  /\ pending' = [pending EXCEPT ![<<b, n>>] = @ - 1]
  /\ IF run[b] # None THEN UNCHANGED run
     ELSE run' = [run EXCEPT ![b] =
            [pc |-> IF IsTarget(cur[b]) \/ cur[b] = n THEN "return" ELSE "send", nick |-> n]]
  /\ UNCHANGED <<nmVars, cur, lib, up, polling, told, leaving, netVars, out, in>>

\* ChangeNick: fire and forget; nothing is sent when disconnected.
SendNick(b) ==
  /\ run[b] # None /\ run[b].pc = "send"
  /\ up[b] => Unanswered(b) < MaxQueue
  /\ IF up[b] THEN Send(b, [type |-> "nick", nick |-> run[b].nick]) ELSE UNCHANGED out
  /\ run' = [run EXCEPT ![b] = None]
  /\ UNCHANGED <<nmVars, pending, cur, lib, up, polling, told, leaving, netVars, in>>

GiveBack(b) ==
  /\ run[b] # None /\ run[b].pc = "return"
  /\ ReturnNickToPool(run[b].nick)
  /\ run' = [run EXCEPT ![b] = None]
  /\ UNCHANGED <<roster, noLetters, hnd, cur, lib, up, polling, told, leaving, netVars, out, in>>

\* The next line from the server; the callbacks of the previous one are done.
Receive(b, type) ==
  /\ in[b] # <<>> /\ Head(in[b]).type = type /\ told[b] = None
  /\ in' = [in EXCEPT ![b] = Tail(@)]

\* The library's own NICK callback, which compares in the same way.
Follow(b, e) ==
  IF Lower[e.old] = Lower[lib[b]] THEN [lib EXCEPT ![b] = e.new] ELSE lib

\* Mutant: self-NICK lines are ignored while a change of ours is under way.
RecvNickIdleOnly(b) ==
  /\ Receive(b, "nick")
  /\ LET e == Head(in[b]) IN
     /\ IF Lower[e.old] = Lower[cur[b]] /\ run[b] = None
        THEN /\ cur' = [cur EXCEPT ![b] = e.new]
             /\ told' = [told EXCEPT ![b] = [old |-> e.old, new |-> e.new]]
        ELSE UNCHANGED <<cur, told>>
     /\ lib' = Follow(b, e)
  /\ UNCHANGED <<nmVars, pending, run, up, polling, leaving, netVars, out>>

\* The NICK callbacks, the library's and ours: tryAcceptSelfNickChange ...
RecvNick(b) ==
  /\ Receive(b, "nick")
  /\ LET e == Head(in[b]) IN
     /\ IF Lower[e.old] = Lower[cur[b]]
        THEN /\ cur' = [cur EXCEPT ![b] = e.new]
             /\ told' = [told EXCEPT ![b] = [old |-> e.old, new |-> e.new]]
        ELSE UNCHANGED <<cur, told>>
     /\ lib' = Follow(b, e)
  /\ UNCHANGED <<nmVars, pending, run, up, polling, leaving, netVars, out>>

\* ... then emitSelfNickChange.
Notify(b) ==
  /\ told[b] # None
  /\ NotifyNickChange(told[b].old)
  /\ told' = [told EXCEPT ![b] = None]
  /\ UNCHANGED <<roster, noLetters, hnd, run, cur, lib, up, polling, leaving, netVars, out, in>>

\* Mutant: the reply does not end the request, isonInFlight stays set.
RecvIsonLeaky(b) ==
  /\ Receive(b, "ison")
  /\ Begin(b, Head(in[b]).online)
  /\ UNCHANGED <<roster, noLetters, pending, run, cur, lib, up, polling, told, leaving, netVars, out>>

\* 303: the reply ends the request and starts a handler.
RecvIson(b) ==
  /\ Receive(b, "ison")
  /\ Begin(b, Head(in[b]).online)
  /\ polling' = [polling EXCEPT ![b] = FALSE]
  /\ UNCHANGED <<roster, noLetters, pending, run, cur, lib, up, told, leaving, netVars, out>>

\* Mutant: a refusal extends the lock that stands.
RecvRefusedExtends(b) ==
  /\ Receive(b, "refused")
  /\ lock' = [lock EXCEPT ![Lower[Head(in[b]).nick]] = @ + Backoff]
  /\ UNCHANGED <<roster, noLetters, hnd, pending, botVars, netVars, out>>

\* 433 and 436: back off, unless the line comes after the disconnect.
RecvRefused(b) ==
  /\ Receive(b, "refused")
  /\ lock' = [lock EXCEPT ![Lower[Head(in[b]).nick]] = Backoff]
  /\ UNCHANGED <<roster, noLetters, hnd, pending, botVars, netVars, out>>

\* 432: the server takes no such nick.
RecvErroneous(b) ==
  /\ Receive(b, "nocando")
  /\ LET n == Head(in[b]).nick IN
       IF n \in OneChar
       THEN noLetters' = noLetters \cup {ServerOf[b]} /\ UNCHANGED lock
       ELSE lock' = [lock EXCEPT ![Lower[n]] = Backoff] /\ UNCHANGED noLetters
  /\ UNCHANGED <<roster, hnd, pending, botVars, netVars, out>>

\* 437: deliberately no lock of our own.
RecvPenalty(b) ==
  /\ Receive(b, "penalty")
  /\ UNCHANGED <<nmVars, pending, botVars, netVars, out>>

\* DISCONNECTED: markAsDisconnected takes the library's nick.  A request in
\* flight is left to its timeout; the bot stays on the roster.
RecvClosed(b) ==
  /\ Receive(b, "closed")
  /\ up' = [up EXCEPT ![b] = FALSE]
  /\ cur' = [cur EXCEPT ![b] = lib[b]]
  /\ UNCHANGED <<nmVars, pending, run, lib, polling, told, leaving, netVars, out>>

\* A bot that is down has given up, and RemoveBotFromManager starts its
\* goroutine.  The nick that it hands over is not changed any more.
RemoveBotFromManager(b) ==
  /\ ~up[b] /\ leaving[b] = "no"
  /\ leaving' = [leaving EXCEPT ![b] = "return"]
  /\ UNCHANGED <<nmVars, pending, run, cur, lib, up, polling, told, netVars, out, in>>

\* The goroutine: return the nick, then UnregisterBot.
ReturnDead(b) ==
  /\ leaving[b] = "return"
  /\ ReturnNickToPool(cur[b])
  /\ leaving' = [leaving EXCEPT ![b] = "unregister"]
  /\ UNCHANGED <<roster, noLetters, hnd, run, cur, lib, up, polling, told, netVars, out, in>>

Unregister(b) ==
  /\ leaving[b] = "unregister"
  /\ roster' = roster \ {b}
  /\ leaving' = [leaving EXCEPT ![b] = "done"]
  /\ UNCHANGED <<lock, noLetters, hnd, pending, run, cur, lib, up, polling, told, netVars, out, in>>

-----------------------------------------------------------------------------
(* The server, the other users, and time.                                  *)

Bearers(k) == {b \in Bots : held[b] # None /\ Lower[held[b]] = k}
Taken(k) == k \in foreign \/ Bearers(k) # {}

Reply(b, line) == in' = [in EXCEPT ![b] = Append(@, line)]
Served(b, type) ==
  /\ held[b] # None /\ out[b] # <<>> /\ Head(out[b]).type = type
  /\ out' = [out EXCEPT ![b] = Tail(@)]

ServerIson(b) ==
  /\ Served(b, "ison")
  /\ Reply(b, [type |-> "ison", online |-> {k \in Keys : Taken(k)}])
  /\ UNCHANGED <<nmVars, pending, botVars, netVars>>

ServerNick(b) ==
  /\ Served(b, "nick")
  /\ LET n == Head(out[b]).nick IN
     \/ /\ n = held[b]
        /\ UNCHANGED <<in, held>>
     \/ /\ n # held[b] /\ <<ServerOf[b], n>> \in Refusing
        /\ Reply(b, [type |-> "nocando", nick |-> n])
        /\ UNCHANGED held
     \/ /\ <<ServerOf[b], n>> \notin Refusing
        /\ Lower[n] \in foreign \/ Bearers(Lower[n]) \ {b} # {}
        /\ Reply(b, [type |-> "refused", nick |-> n])
        /\ UNCHANGED held
     \/ /\ <<ServerOf[b], n>> \notin Refusing
        /\ Lower[n] \in penal
        /\ Reply(b, [type |-> "penalty", nick |-> n])
        /\ UNCHANGED held
     \/ /\ n # held[b] /\ <<ServerOf[b], n>> \notin Refusing
        /\ Lower[n] \notin foreign \cup penal /\ Bearers(Lower[n]) \ {b} = {}
        /\ Reply(b, [type |-> "nick", old |-> held[b], new |-> n])
        /\ held' = [held EXCEPT ![b] = n]
  /\ UNCHANGED <<nmVars, pending, botVars, foreign, penal, takes, polls>>

\* The connection breaks: nothing further is served, the closing line is read last.
Drop(b) ==
  /\ b \in MayDrop /\ held[b] # None
  /\ held' = [held EXCEPT ![b] = None]
  /\ out' = [out EXCEPT ![b] = <<>>]
  /\ in' = [in EXCEPT ![b] = Append(@, [type |-> "closed"])]
  /\ UNCHANGED <<nmVars, pending, botVars, foreign, penal, takes, polls>>

ForeignLeaves(k) ==
  /\ k \in foreign
  /\ foreign' = foreign \ {k}
  /\ UNCHANGED <<nmVars, pending, botVars, held, penal, takes, polls, out, in>>

ForeignTakes(k) ==
  /\ takes < MaxTakes /\ ~Taken(k) /\ k \notin penal
  /\ foreign' = foreign \cup {k}
  /\ takes' = takes + 1
  /\ UNCHANGED <<nmVars, pending, botVars, held, penal, polls, out, in>>

PenaltyEnds(k) ==
  /\ k \in penal
  /\ penal' = penal \ {k}
  /\ UNCHANGED <<nmVars, pending, botVars, held, foreign, takes, polls, out, in>>

Tick ==
  /\ \E k \in Keys : Locked(k)
  /\ lock' = [k \in Keys |-> IF Locked(k) THEN lock[k] - 1 ELSE lock[k]]
  /\ UNCHANGED <<roster, noLetters, hnd, pending, botVars, netVars, out, in>>

-----------------------------------------------------------------------------
Handle(b) == FilterPriority(b) \/ FilterSecondary(b) \/ Purge(b) \/ Assign(b)
Callback(b) ==
  \/ RecvNick(b) \/ Notify(b) \/ RecvIson(b)
  \/ RecvRefused(b) \/ RecvErroneous(b) \/ RecvPenalty(b) \/ RecvClosed(b)
Serve(b) == ServerIson(b) \/ ServerNick(b)
Removal(b) == ReturnDead(b) \/ Unregister(b)
World == \E k \in Keys : ForeignLeaves(k) \/ ForeignTakes(k) \/ PenaltyEnds(k)

Next ==
  \/ \E b \in Bots :
       \/ Handle(b) \/ Poll(b) \/ SendNick(b) \/ GiveBack(b) \/ Callback(b)
       \/ RemoveBotFromManager(b) \/ Removal(b) \/ Serve(b) \/ Drop(b)
       \/ \E n \in Targets : Attempt(b, n)
  \/ World \/ Tick

Spec == Init /\ [][Next]_vars

\* Every goroutine, the server and the clock make progress; other users and
\* failures owe nobody a step, and no bot that is down has to give up.
Fairness ==
  /\ \A b \in Bots :
       /\ WF_vars(Poll(b)) /\ WF_vars(SendNick(b)) /\ WF_vars(GiveBack(b))
       /\ WF_vars(Handle(b)) /\ WF_vars(Callback(b)) /\ WF_vars(Removal(b))
       /\ WF_vars(Serve(b))
       /\ \A n \in Targets : WF_vars(Attempt(b, n))
  /\ WF_vars(Tick)
FairSpec == Spec /\ Fairness

-----------------------------------------------------------------------------
(* Safety.                                                                 *)

IsNick(line) == line.type = "nick"
NoNick(q, i, j) == \A k \in i .. j : ~IsNick(q[k])

\* The self-NICK lines of the queue q lead from nick c to nick h.
Leads(q, c, h) ==
  /\ \A j \in DOMAIN q : IsNick(q[j]) /\ NoNick(q, 1, j - 1) => q[j].old = c
  /\ \A i, j \in DOMAIN q :
       i < j /\ IsNick(q[i]) /\ IsNick(q[j]) /\ NoNick(q, i + 1, j - 1) => q[j].old = q[i].new
  /\ h # None =>
       /\ NoNick(q, 1, Len(q)) => h = c
       /\ \A i \in DOMAIN q : IsNick(q[i]) /\ NoNick(q, i + 1, Len(q)) => h = q[i].new

\* The bot follows its nick without a gap: the first self-NICK line it has
\* not read starts from the nick it believes in, each further one from where
\* the line before it ended, and the last ends at the nick the server has.  So
\* tryAcceptSelfNickChange refuses no line of its own, and a bot with nothing
\* to read knows its nick, whatever NICK commands were sent meanwhile.
NickChain == \A b \in Bots : Leads(in[b], cur[b], held[b])

\* What a step offers to whom.
Offers == {p \in Bots \X Targets : pending'[p] > pending[p]}

\* Every bot is offered one nick at most, and has a place in the list for
\* itself that holds that nick.
Fits(offers) ==
  /\ \A o1, o2 \in offers : o1[1] = o2[1] => o1 = o2
  /\ \E place \in [offers -> DOMAIN List] :
       /\ \A o \in offers : List[place[o]] = o[2]
       /\ \A o1, o2 \in offers : place[o1] = place[o2] => o1 = o2

\* No step, an ISON response with its two loops (nickmanager.go:297-333)
\* included, offers two nicks to one bot or a nick to more bots than the list
\* names it: to two only if it stands there twice, as a letter that nicks.json
\* names as well.
OneOfferPerStep == [][Fits(Offers)]_vars

\* nickmanager.go:61-65: while the inflight lock of a target stands, no ISON
\* response gives that target to a bot.
InflightLockHonoured ==
  [][\A b \in Bots : \A p \in Bots \X Targets :
       hnd[b].pc = "secondary" /\ hnd'[b].pc = "idle" /\ pending'[p] > pending[p]
       => ~Locked(Lower[p[2]])]_vars

\* nickmanager.go:56-58: the back-off of a refused target lasts its time; no
\* ISON response replaces it by a shorter lock or deletes it.
BackoffHonoured ==
  [][\A b \in Bots, k \in Keys :
       hnd'[b] # hnd[b] /\ lock[k] > InflightLock => lock'[k] = lock[k]]_vars

(* Liveness.                                                               *)

Free(n) == ~Taken(Lower[n]) /\ penal = {}
Spare(b, n) ==
  /\ b \in roster /\ held[b] # None /\ ~IsTarget(held[b])
  /\ <<ServerOf[b], n>> \notin Refusing

\* A target that is free does not stay free while a bot that bears no target,
\* on a server that takes the nick, could bear it.
FreeTargetCaught ==
  \A n \in Targets : []<>~(Free(n) /\ \E b \in Bots : Spare(b, n))
=============================================================================
