--------------------------- MODULE NickCatchProofs ---------------------------
(* Proofs about NickCatch, for every fleet, nick list and lock duration.     *)
EXTENDS NickCatch, NaturalsInduction, WellFoundedInduction, TLAPS

USE CrewAssumption, NicksAssumption, TimeAssumption, BoundAssumption, PenaltyAssumption

\* An update keeps a function's type.
LEMMA ExceptType ==
  ASSUME NEW D, NEW S, NEW f \in [D -> S], NEW d \in D, NEW s \in S
  PROVE  [f EXCEPT ![d] = s] \in [D -> S]
OBVIOUS

\* The targets are nicks, the positions of List name targets, and the key of
\* a target is a key.
LEMMA ListTypes ==
  /\ Targets \subseteq Nicks
  /\ \A n \in Targets : Lower[n] \in Keys
  /\ \A i \in DOMAIN List : List[i] \in Targets
  /\ 1 .. Len(Priority) \subseteq DOMAIN List
  /\ Len(Priority) + 1 .. Len(List) \subseteq DOMAIN List
<1>1. Targets \subseteq Nicks
  BY DEF Targets, ToSet
<1>2. List \in Seq(Nicks) /\ Len(List) = Len(Priority) + Len(Secondary)
  BY DEF List
<1>3. Len(Priority) \in Nat /\ Len(Secondary) \in Nat /\ DOMAIN List = 1 .. Len(List)
  BY <1>2
<1>4. ASSUME NEW i \in DOMAIN List PROVE List[i] \in Targets
  <2>1. CASE i <= Len(Priority)
    BY <1>2, <1>3, <2>1 DEF List, Targets, ToSet
  <2>2. CASE i > Len(Priority)
    <3>1. i - Len(Priority) \in 1 .. Len(Secondary) /\ List[i] = Secondary[i - Len(Priority)]
      BY <1>2, <1>3, <2>2 DEF List
    <3> QED BY <3>1 DEF Targets, ToSet
  <2> QED BY <1>3, <2>1, <2>2
<1>5. \A n \in Targets : Lower[n] \in Keys
  BY DEF Keys
<1> QED BY <1>1, <1>2, <1>3, <1>4, <1>5

\* Every target has its place in the list.
LEMMA ListPlaces ==
  ASSUME NEW n \in Targets PROVE \E i \in DOMAIN List : List[i] = n
<1>1. List \in Seq(Nicks) /\ Len(List) = Len(Priority) + Len(Secondary)
  BY DEF List
<1>2. Len(Priority) \in Nat /\ Len(Secondary) \in Nat /\ DOMAIN List = 1 .. Len(List)
  BY <1>1
<1>3. CASE n \in ToSet(Priority)
  <2>1. PICK i \in DOMAIN Priority : Priority[i] = n
    BY <1>3 DEF ToSet
  <2>2. i \in 1 .. Len(List) /\ List[i] = n
    BY <1>1, <1>2, <2>1 DEF List
  <2> QED BY <1>2, <2>2
<1>4. CASE n \in ToSet(Secondary)
  <2>1. PICK i \in DOMAIN Secondary : Secondary[i] = n
    BY <1>4 DEF ToSet
  <2>2. Len(Priority) + i \in 1 .. Len(List) /\ List[Len(Priority) + i] = n
    BY <1>1, <1>2, <2>1 DEF List
  <2> QED BY <1>2, <2>2
<1> QED BY <1>3, <1>4 DEF Targets

\* Only pairs of a bot and a target are ever offered.
LEMMA SpawnType ==
  ASSUME TypeOK, NEW pairs, Spawn(pairs)
  PROVE  pending' \in [Bots \X Targets -> Nat]
BY DEF TypeOK, Spawn

\* Giving a nick back keeps the lock map and the spawned attempts well typed.
LEMMA ReofferType ==
  ASSUME TypeOK, NEW n, \/ Reoffer(n) \/ ReturnNickToPool(n) \/ NotifyNickChange(n)
  PROVE  lock' \in [Keys -> Locks] /\ pending' \in [Bots \X Targets -> Nat]
<1>1. CASE Reoffer(n)
  <2>1. Absent \in Locks
    BY DEF Absent, Locks
  <2>2. lock' \in [Keys -> Locks]
    BY <1>1, <2>1 DEF TypeOK, Reoffer
  <2> QED BY <1>1, <2>2, SpawnType DEF Reoffer
<1>2. CASE UNCHANGED <<lock, pending>>
  BY <1>2 DEF TypeOK
<1> QED BY <1>1, <1>2 DEF ReturnNickToPool, NotifyNickChange

\* What the fields of a line or command are, by its type.
LEMMA LineFields ==
  ASSUME NEW e \in Line
  PROVE  /\ e.type = "nick" => e.old \in Nicks /\ e.new \in Nicks
         /\ e.type = "ison" => e.online \subseteq Keys
         /\ e.type \in {"refused", "nocando", "penalty"} => e.nick \in Targets
BY DEF Line

\* A callback takes the line at the head of the queue.
LEMMA ReceiveType ==
  ASSUME TypeOK, NEW b \in Bots, NEW type, Receive(b, type)
  PROVE  /\ in' \in [Bots -> Seq(Line)]
         /\ Head(in[b]) \in Line /\ Head(in[b]).type = type
<1>1. in[b] \in Seq(Line) /\ in[b] # <<>>
  BY DEF TypeOK, Receive
<1>2. Head(in[b]) \in Line /\ Tail(in[b]) \in Seq(Line)
  BY <1>1
<1> QED BY <1>2 DEF TypeOK, Receive

\* A command joins the queue to the server, a reply the queue from it.
LEMMA SendType ==
  ASSUME TypeOK, NEW b \in Bots, NEW cmd \in Cmd, Send(b, cmd)
  PROVE  out' \in [Bots -> Seq(Cmd)]
<1>1. Append(out[b], cmd) \in Seq(Cmd)
  BY DEF TypeOK
<1> QED BY <1>1 DEF TypeOK, Send

\* What the server answers is a reply.
LEMMA ReplyType ==
  ASSUME TypeOK, NEW b \in Bots, NEW line \in Line, Reply(b, line)
  PROVE  in' \in [Bots -> Seq(Line)]
<1>1. Append(in[b], line) \in Seq(Line)
  BY DEF TypeOK
<1> QED BY <1>1 DEF TypeOK, Reply

\* The server takes the command at the head of the queue.
LEMMA ServedType ==
  ASSUME TypeOK, NEW b \in Bots, NEW type, Served(b, type)
  PROVE  /\ out' \in [Bots -> Seq(Cmd)]
         /\ held[b] \in Nicks
         /\ type = "nick" => Head(out[b]).nick \in Targets
<1>1. out[b] \in Seq(Cmd) /\ out[b] # <<>>
  BY DEF TypeOK, Served
<1>2. Head(out[b]) \in Cmd /\ Tail(out[b]) \in Seq(Cmd)
  BY <1>1
<1>3. type = "nick" => Head(out[b]).nick \in Targets
  BY <1>2 DEF Served, Cmd
<1> QED BY <1>2, <1>3 DEF TypeOK, Served

\* A handler's local variables, whatever it changes of them.
LEMMA HandlerType ==
  ASSUME TypeOK, NEW b \in Bots
  PROVE  /\ \A pc \in {"priority", "secondary"}, avail \in SUBSET DOMAIN List, gone \in SUBSET Keys :
              [hnd EXCEPT ![b].pc = pc, ![b].avail = avail, ![b].gone = gone] \in [Bots -> Handling]
         /\ \A gone \in SUBSET Keys : [hnd EXCEPT ![b].gone = gone] \in [Bots -> Handling]
         /\ \A online \in SUBSET Keys, crew \in SUBSET Bots :
              [hnd EXCEPT ![b] = [Idle EXCEPT !.pc = "begun", !.online = online, !.crew = crew]]
                \in [Bots -> Handling]
         /\ [hnd EXCEPT ![b] = Idle] \in [Bots -> Handling]
         /\ hnd[b].avail \subseteq DOMAIN List /\ hnd[b].gone \subseteq Keys
<1>1. hnd \in [Bots -> Handling] /\ hnd[b] \in Handling
  BY DEF TypeOK
<1>2. hnd[b].avail \subseteq DOMAIN List /\ hnd[b].gone \subseteq Keys
  BY <1>1 DEF Handling
<1>3. ASSUME NEW pc \in {"priority", "secondary"}, NEW avail \in SUBSET DOMAIN List,
             NEW gone \in SUBSET Keys
      PROVE  [hnd EXCEPT ![b].pc = pc, ![b].avail = avail, ![b].gone = gone] \in [Bots -> Handling]
  <2>1. [hnd[b] EXCEPT !.pc = pc, !.avail = avail, !.gone = gone] \in Handling
    BY <1>1 DEF Handling
  <2> QED BY <1>1, <2>1
<1>4. ASSUME NEW gone \in SUBSET Keys
      PROVE  [hnd EXCEPT ![b].gone = gone] \in [Bots -> Handling]
  <2>1. [hnd[b] EXCEPT !.gone = gone] \in Handling
    BY <1>1 DEF Handling
  <2> QED BY <1>1, <2>1
<1>5. ASSUME NEW online \in SUBSET Keys, NEW crew \in SUBSET Bots
      PROVE  [Idle EXCEPT !.pc = "begun", !.online = online, !.crew = crew] \in Handling
  BY DEF Handling, Idle
<1>6. Idle \in Handling
  BY DEF Handling, Idle
<1> QED BY <1>1, <1>2, <1>3, <1>4, <1>5, <1>6

\* Every variable stays in its type: the lock map holds at most one back-off
\* per target, a handler only ever names bots and positions of the list, the
\* queues carry only lines the callbacks know.
THEOREM TypeCorrect == Spec => []TypeOK
<1>1. Init => TypeOK
  <2> SUFFICES ASSUME Init PROVE TypeOK
    OBVIOUS
  <2>1. Absent \in Locks
    BY DEF Absent, Locks
  <2> QED BY <2>1 DEF Init, TypeOK, Idle, Handling, Run
<1>2. TypeOK /\ [Next]_vars => TypeOK'
  <2> SUFFICES ASSUME TypeOK, [Next]_vars PROVE TypeOK'
    OBVIOUS
  <2>a. Absent \in Locks /\ InflightLock \in Locks /\ Backoff \in Locks
    BY DEF Absent, Locks
  <2> USE ListTypes DEF nmVars, botVars, netVars
  <2>1. ASSUME NEW b \in Bots, FilterPriority(b) PROVE TypeOK'
    <3> DEFINE avail == Offered(1 .. Len(Priority), hnd[b].online)
    <3>1. avail \subseteq DOMAIN List
      BY DEF Offered
    <3>2. Expired(avail) \subseteq Keys
      BY DEF Expired
    <3>3. hnd' \in [Bots -> Handling]
      BY <2>1, <3>1, <3>2, HandlerType DEF FilterPriority
    <3> QED BY <2>1, <3>3 DEF TypeOK, FilterPriority
  <2>2. ASSUME NEW b \in Bots, FilterSecondary(b) PROVE TypeOK'
    <3> DEFINE avail == Offered(Len(Priority) + 1 .. Len(List), hnd[b].online)
    <3>1. hnd[b].avail \cup avail \subseteq DOMAIN List
      BY HandlerType DEF Offered
    <3>2. Expired(avail) \subseteq Keys
      BY DEF Expired
    <3>3. hnd' \in [Bots -> Handling]
      BY <2>2, <3>1, <3>2, HandlerType DEF FilterSecondary
    <3> QED BY <2>2, <3>3 DEF TypeOK, FilterSecondary
  <2>3. ASSUME NEW b \in Bots, Purge(b) PROVE TypeOK'
    <3>1. PICK k \in hnd[b].gone : /\ lock' = [lock EXCEPT ![k] = Absent]
                                   /\ hnd' = [hnd EXCEPT ![b].gone = @ \ {k}]
      BY <2>3 DEF Purge
    <3>2. hnd' \in [Bots -> Handling]
      BY <3>1, HandlerType
    <3>3. lock' \in [Keys -> Locks]
      BY <2>a, <3>1 DEF TypeOK
    <3> QED BY <2>3, <3>2, <3>3 DEF TypeOK, Purge
  <2>4. ASSUME NEW b \in Bots, Assign(b) PROVE TypeOK'
    <3>1. pending' \in [Bots \X Targets -> Nat]
      BY <2>4, SpawnType DEF Assign
    <3>2. lock' \in [Keys -> Locks]
      BY <2>4, <2>a DEF TypeOK, Assign
    <3>3. hnd' \in [Bots -> Handling]
      BY <2>4, HandlerType DEF Assign
    <3> QED BY <2>4, <3>1, <3>2, <3>3 DEF TypeOK, Assign
  <2>5. ASSUME NEW b \in Bots, Poll(b) PROVE TypeOK'
    <3>1. [type |-> "ison"] \in Cmd
      BY DEF Cmd
    <3>2. out' \in [Bots -> Seq(Cmd)]
      BY <2>5, <3>1, SendType DEF Poll
    <3>3. polls' \in Nat
      BY <2>5 DEF TypeOK, Poll
    <3>4. polling' \in [Bots -> BOOLEAN]
      BY <2>5 DEF TypeOK, Poll
    <3> QED BY <2>5, <3>2, <3>3, <3>4 DEF TypeOK, Poll
  <2>6. ASSUME NEW b \in Bots, SendNick(b) PROVE TypeOK'
    <3>1. run[b].nick \in Targets
      BY <2>6 DEF TypeOK, SendNick, Run
    <3>2. [type |-> "nick", nick |-> run[b].nick] \in Cmd
      BY <3>1 DEF Cmd
    <3>3. out' \in [Bots -> Seq(Cmd)]
      BY <2>6, <3>2, SendType DEF TypeOK, SendNick
    <3>4. run' \in [Bots -> Run]
      BY <2>6 DEF TypeOK, SendNick, Run
    <3> QED BY <2>6, <3>3, <3>4 DEF TypeOK, SendNick
  <2>7. ASSUME NEW b \in Bots, GiveBack(b) PROVE TypeOK'
    <3>1. run' \in [Bots -> Run]
      BY <2>7 DEF TypeOK, GiveBack, Run
    <3>2. lock' \in [Keys -> Locks] /\ pending' \in [Bots \X Targets -> Nat]
      BY <2>7, ReofferType DEF GiveBack
    <3> QED BY <2>7, <3>1, <3>2 DEF TypeOK, GiveBack
  <2>8. ASSUME NEW b \in Bots, RecvNick(b) PROVE TypeOK'
    <3>1. in' \in [Bots -> Seq(Line)] /\ Head(in[b]) \in Line /\ Head(in[b]).type = "nick"
      BY <2>8, ReceiveType DEF RecvNick
    <3>2. Head(in[b]).old \in Nicks /\ Head(in[b]).new \in Nicks
      BY <3>1, LineFields
    <3>3. cur' \in [Bots -> Nicks]
      BY <2>8, <3>2 DEF TypeOK, RecvNick
    <3>3a. lib' \in [Bots -> Nicks]
      BY <2>8, <3>2 DEF TypeOK, RecvNick, Follow
    <3> DEFINE t == [old |-> Head(in[b]).old, new |-> Head(in[b]).new]
    <3>4a. t \in {None} \cup [old : Nicks, new : Nicks]
      BY <3>2
    <3>4b. told' = told \/ told' = [told EXCEPT ![b] = t]
      BY <2>8 DEF RecvNick
    <3>4c. told \in [Bots -> {None} \cup [old : Nicks, new : Nicks]]
      BY DEF TypeOK
    <3> HIDE DEF t
    <3>4. told' \in [Bots -> {None} \cup [old : Nicks, new : Nicks]]
      BY ONLY <3>4a, <3>4b, <3>4c, ExceptType
    <3> QED BY <2>8, <3>1, <3>3, <3>3a, <3>4 DEF TypeOK, RecvNick
  <2>9. ASSUME NEW b \in Bots, Notify(b) PROVE TypeOK'
    <3>1. lock' \in [Keys -> Locks] /\ pending' \in [Bots \X Targets -> Nat]
      BY <2>9, ReofferType DEF Notify
    <3> QED BY <2>9, <3>1 DEF TypeOK, Notify
  <2>10. ASSUME NEW b \in Bots, RecvIson(b) PROVE TypeOK'
    <3>1. in' \in [Bots -> Seq(Line)] /\ Head(in[b]).online \subseteq Keys
      BY <2>10, ReceiveType, LineFields DEF RecvIson
    <3>2. Available \subseteq Bots
      BY DEF TypeOK, Available
    <3>3. hnd' \in [Bots -> Handling]
      BY <2>10, <3>1, <3>2, HandlerType DEF RecvIson, Begin
    <3>4. lock' \in [Keys -> Locks]
      BY <2>10, <2>a DEF TypeOK, RecvIson, Begin
    <3> QED BY <2>10, <3>1, <3>3, <3>4 DEF TypeOK, RecvIson
  <2>11. ASSUME NEW b \in Bots, RecvRefused(b) PROVE TypeOK'
    <3>1. in' \in [Bots -> Seq(Line)]
      BY <2>11, ReceiveType DEF RecvRefused
    <3>2. lock' \in [Keys -> Locks]
      BY <2>11, <2>a DEF TypeOK, RecvRefused
    <3> QED BY <2>11, <3>1, <3>2 DEF TypeOK, RecvRefused
  <2>12. ASSUME NEW b \in Bots, RecvErroneous(b) PROVE TypeOK'
    <3>1. in' \in [Bots -> Seq(Line)]
      BY <2>12, ReceiveType DEF RecvErroneous
    <3>2. lock' \in [Keys -> Locks]
      BY <2>12, <2>a DEF TypeOK, RecvErroneous
    <3> QED BY <2>12, <3>1, <3>2 DEF TypeOK, RecvErroneous, Servers
  <2>13. ASSUME NEW b \in Bots, RecvPenalty(b) PROVE TypeOK'
    <3>1. in' \in [Bots -> Seq(Line)]
      BY <2>13, ReceiveType DEF RecvPenalty
    <3> QED BY <2>13, <3>1 DEF TypeOK, RecvPenalty
  <2>14. ASSUME NEW b \in Bots, RecvClosed(b) PROVE TypeOK'
    <3>1. in' \in [Bots -> Seq(Line)]
      BY <2>14, ReceiveType DEF RecvClosed
    <3>2. cur' \in [Bots -> Nicks]
      BY <2>14 DEF TypeOK, RecvClosed
    <3> QED BY <2>14, <3>1, <3>2 DEF TypeOK, RecvClosed
  <2>14a. ASSUME NEW b \in Bots, RemoveBotFromManager(b) PROVE TypeOK'
    BY <2>14a DEF TypeOK, RemoveBotFromManager
  <2>15. ASSUME NEW b \in Bots, ReturnDead(b) PROVE TypeOK'
    <3>1. lock' \in [Keys -> Locks] /\ pending' \in [Bots \X Targets -> Nat]
      BY <2>15, ReofferType DEF ReturnDead
    <3> QED BY <2>15, <3>1 DEF TypeOK, ReturnDead
  <2>16. ASSUME NEW b \in Bots, Unregister(b) PROVE TypeOK'
    BY <2>16 DEF TypeOK, Unregister
  <2>17. ASSUME NEW b \in Bots, ServerIson(b) PROVE TypeOK'
    <3>1. [type |-> "ison", online |-> {k \in Keys : Taken(k)}] \in Line
      BY DEF Line
    <3>2. in' \in [Bots -> Seq(Line)] /\ out' \in [Bots -> Seq(Cmd)]
      BY <2>17, <3>1, ReplyType, ServedType DEF ServerIson
    <3> QED BY <2>17, <3>2 DEF TypeOK, ServerIson
  <2>18. ASSUME NEW b \in Bots, ServerNick(b) PROVE TypeOK'
    <3> DEFINE n == Head(out[b]).nick
    <3>1. out' \in [Bots -> Seq(Cmd)] /\ held[b] \in Nicks /\ n \in Targets
      BY <2>18, ServedType DEF ServerNick
    <3>2. /\ [type |-> "nocando", nick |-> n] \in Line
          /\ [type |-> "refused", nick |-> n] \in Line
          /\ [type |-> "penalty", nick |-> n] \in Line
          /\ [type |-> "nick", old |-> held[b], new |-> n] \in Line
      BY <3>1 DEF Line
    <3>3. in' \in [Bots -> Seq(Line)]
      BY <2>18, <3>2, ReplyType DEF ServerNick, TypeOK
    <3>4. held' \in [Bots -> {None} \cup Nicks]
      BY <2>18, <3>1 DEF ServerNick, TypeOK
    <3> QED BY <2>18, <3>1, <3>3, <3>4 DEF TypeOK, ServerNick
  <2>19. ASSUME NEW b \in Bots, Drop(b) PROVE TypeOK'
    <3>1. [type |-> "closed"] \in Line
      BY DEF Line
    <3>2. Append(in[b], [type |-> "closed"]) \in Seq(Line)
      BY <3>1 DEF TypeOK
    <3>3. in' \in [Bots -> Seq(Line)] /\ out' \in [Bots -> Seq(Cmd)]
      BY <2>19, <3>2 DEF TypeOK, Drop
    <3> QED BY <2>19, <3>3 DEF TypeOK, Drop
  <2>20. ASSUME NEW b \in Bots, NEW n \in Targets, Attempt(b, n) PROVE TypeOK'
    <3>1. pending' \in [Bots \X Targets -> Nat]
      BY <2>20 DEF TypeOK, Attempt
    <3> DEFINE r == [pc |-> IF IsTarget(cur[b]) \/ cur[b] = n THEN "return" ELSE "send", nick |-> n]
    <3>1a. r \in Run
      BY DEF Run
    <3>1b. run' = run \/ run' = [run EXCEPT ![b] = r]
      BY <2>20 DEF Attempt
    <3>1c. run \in [Bots -> Run]
      BY DEF TypeOK
    <3> HIDE DEF r
    <3>2. run' \in [Bots -> Run]
      BY ONLY <3>1a, <3>1b, <3>1c, ExceptType
    <3> QED BY <2>20, <3>1, <3>2 DEF TypeOK, Attempt
  <2>21. ASSUME NEW k \in Keys, ForeignLeaves(k) \/ ForeignTakes(k) \/ PenaltyEnds(k) PROVE TypeOK'
    <3>1. foreign' \subseteq Keys /\ penal' \subseteq Keys /\ takes' \in Nat
      BY <2>21 DEF TypeOK, ForeignLeaves, ForeignTakes, PenaltyEnds
    <3>2. UNCHANGED <<nmVars, pending, botVars, held, polls, out, in>>
      BY <2>21 DEF ForeignLeaves, ForeignTakes, PenaltyEnds
    <3> QED BY <3>1, <3>2 DEF TypeOK
  <2>22. ASSUME Tick PROVE TypeOK'
    <3>1. lock' \in [Keys -> Locks]
      BY <2>22 DEF TypeOK, Tick, Locked, Locks, Absent
    <3> QED BY <2>22, <3>1 DEF TypeOK, Tick
  <2>23. ASSUME UNCHANGED vars PROVE TypeOK'
    BY <2>23 DEF TypeOK, vars
  <2>24. ASSUME NEW b \in Bots, Handle(b) \/ Callback(b) \/ Removal(b) \/ Serve(b) PROVE TypeOK'
    BY <2>1, <2>2, <2>3, <2>4, <2>8, <2>9, <2>10, <2>11, <2>12, <2>13, <2>14, <2>15, <2>16, <2>17,
       <2>18, <2>24 DEF Handle, Callback, Serve, Removal
  <2>25. ASSUME World PROVE TypeOK'
    BY <2>21, <2>25 DEF World
  <2> HIDE ListTypes
  <2> QED BY <2>5, <2>6, <2>7, <2>14a, <2>19, <2>20, <2>22, <2>23, <2>24, <2>25 DEF Next
<1> QED BY <1>1, <1>2, PTL DEF Spec

-----------------------------------------------------------------------------
(* The chain of self-NICK lines.                                           *)

\* Reading a line of another kind leaves the chain as it is.
LEMMA LeadsTailOther ==
  ASSUME NEW q \in Seq(Line), q # <<>>, ~IsNick(Head(q)), NEW c, NEW h, Leads(q, c, h)
  PROVE  Leads(Tail(q), c, h)
<1> DEFINE t == Tail(q)
<1>1. /\ t \in Seq(Line) /\ Len(t) = Len(q) - 1 /\ Len(q) \in Nat /\ Len(t) \in Nat
      /\ DOMAIN q = 1 .. Len(q) /\ DOMAIN t = 1 .. Len(t)
      /\ \A i \in 1 .. Len(t) : t[i] = q[i + 1]
      /\ Head(q) = q[1]
  OBVIOUS
<1> HIDE DEF t
<1>2. \A i, j \in Int : i >= 1 /\ j <= Len(t) /\ NoNick(t, i, j) => NoNick(q, i + 1, j + 1)
  <2> SUFFICES ASSUME NEW i \in Int, NEW j \in Int, i >= 1, j <= Len(t), NoNick(t, i, j),
                      NEW k \in (i + 1) .. (j + 1)
               PROVE  ~IsNick(q[k])
    BY DEF NoNick
  <2>1. k - 1 \in i .. j /\ k - 1 \in 1 .. Len(t) /\ t[k - 1] = q[k]
    BY <1>1
  <2> QED BY <2>1 DEF NoNick
<1>3. \A j \in Int : j <= Len(t) /\ NoNick(t, 1, j) => NoNick(q, 1, j + 1)
  <2> SUFFICES ASSUME NEW j \in Int, j <= Len(t), NoNick(t, 1, j), NEW k \in 1 .. (j + 1)
               PROVE  ~IsNick(q[k])
    BY DEF NoNick
  <2>1. CASE k = 1
    BY <1>1, <2>1
  <2>2. CASE k # 1
    <3>1. k - 1 \in 1 .. j /\ k - 1 \in 1 .. Len(t) /\ t[k - 1] = q[k]
      BY <1>1, <2>2
    <3> QED BY <3>1 DEF NoNick
  <2> QED BY <2>1, <2>2
<1>4. ASSUME NEW j \in DOMAIN t, IsNick(t[j]), NoNick(t, 1, j - 1) PROVE t[j].old = c
  <2>1. j + 1 \in DOMAIN q /\ t[j] = q[j + 1] /\ NoNick(q, 1, (j - 1) + 1)
    BY <1>1, <1>3, <1>4
  <2>2. PICK m \in DOMAIN q : m = j + 1 /\ t[j] = q[m] /\ NoNick(q, 1, m - 1)
    BY <1>1, <2>1
  <2> QED BY <1>4, <2>2 DEF Leads
<1>5. ASSUME NEW i \in DOMAIN t, NEW j \in DOMAIN t, i < j, IsNick(t[i]), IsNick(t[j]),
             NoNick(t, i + 1, j - 1)
      PROVE  t[j].old = t[i].new
  <2>1. NoNick(q, (i + 1) + 1, (j - 1) + 1)
    BY <1>1, <1>2, <1>5
  <2>2. PICK l \in DOMAIN q, m \in DOMAIN q :
          l = i + 1 /\ m = j + 1 /\ t[i] = q[l] /\ t[j] = q[m] /\ NoNick(q, l + 1, m - 1)
    BY <1>1, <2>1
  <2> QED BY <1>1, <1>5, <2>2 DEF Leads
<1>6. ASSUME h # None, NoNick(t, 1, Len(t)) PROVE h = c
  BY <1>1, <1>3, <1>6 DEF Leads
<1>7. ASSUME h # None, NEW i \in DOMAIN t, IsNick(t[i]), NoNick(t, i + 1, Len(t))
      PROVE  h = t[i].new
  <2>1. i + 1 \in DOMAIN q /\ t[i] = q[i + 1] /\ NoNick(q, i + 1 + 1, Len(q))
    BY <1>1, <1>2, <1>7
  <2> QED BY <1>7, <2>1 DEF Leads
<1> QED BY <1>4, <1>5, <1>6, <1>7 DEF Leads, t

\* A self-NICK line at the head starts from the nick believed in, and reading
\* it moves the belief along the chain.
LEMMA LeadsTailNick ==
  ASSUME NEW q \in Seq(Line), q # <<>>, IsNick(Head(q)), NEW c, NEW h, Leads(q, c, h)
  PROVE  Head(q).old = c /\ Leads(Tail(q), Head(q).new, h)
<1> DEFINE t == Tail(q)
<1>1. /\ t \in Seq(Line) /\ Len(t) = Len(q) - 1 /\ Len(q) \in Nat /\ Len(t) \in Nat
      /\ DOMAIN q = 1 .. Len(q) /\ DOMAIN t = 1 .. Len(t)
      /\ \A i \in 1 .. Len(t) : t[i] = q[i + 1]
      /\ Head(q) = q[1] /\ 1 \in DOMAIN q
  OBVIOUS
<1> HIDE DEF t
<1>2. \A i, j \in Int : i >= 1 /\ j <= Len(t) /\ NoNick(t, i, j) => NoNick(q, i + 1, j + 1)
  <2> SUFFICES ASSUME NEW i \in Int, NEW j \in Int, i >= 1, j <= Len(t), NoNick(t, i, j),
                      NEW k \in (i + 1) .. (j + 1)
               PROVE  ~IsNick(q[k])
    BY DEF NoNick
  <2>1. k - 1 \in i .. j /\ k - 1 \in 1 .. Len(t) /\ t[k - 1] = q[k]
    BY <1>1
  <2> QED BY <2>1 DEF NoNick
<1>3. Head(q).old = c
  <2>1. NoNick(q, 1, 1 - 1)
    BY DEF NoNick
  <2> QED BY <1>1, <2>1 DEF Leads
<1>4. ASSUME NEW j \in DOMAIN t, IsNick(t[j]), NoNick(t, 1, j - 1) PROVE t[j].old = Head(q).new
  <2>1. NoNick(q, 1 + 1, (j - 1) + 1)
    BY <1>1, <1>2, <1>4
  <2>2. PICK l \in DOMAIN q, m \in DOMAIN q :
          l = 1 /\ m = j + 1 /\ Head(q) = q[l] /\ t[j] = q[m] /\ NoNick(q, l + 1, m - 1)
    BY <1>1, <2>1
  <2>3. l < m /\ IsNick(q[l]) /\ IsNick(q[m])
    BY <1>1, <1>4, <2>2
  <2>4. q[m].old = q[l].new
    BY <2>2, <2>3 DEF Leads
  <2> QED BY <2>2, <2>4
<1>5. ASSUME NEW i \in DOMAIN t, NEW j \in DOMAIN t, i < j, IsNick(t[i]), IsNick(t[j]),
             NoNick(t, i + 1, j - 1)
      PROVE  t[j].old = t[i].new
  <2>1. NoNick(q, (i + 1) + 1, (j - 1) + 1)
    BY <1>1, <1>2, <1>5
  <2>2. PICK l \in DOMAIN q, m \in DOMAIN q :
          l = i + 1 /\ m = j + 1 /\ t[i] = q[l] /\ t[j] = q[m] /\ NoNick(q, l + 1, m - 1)
    BY <1>1, <2>1
  <2> QED BY <1>1, <1>5, <2>2 DEF Leads
<1>6. ASSUME h # None, NoNick(t, 1, Len(t)) PROVE h = Head(q).new
  <2>1. NoNick(q, 1 + 1, Len(q))
    BY <1>1, <1>2, <1>6
  <2> QED BY <1>1, <1>6, <2>1 DEF Leads
<1>7. ASSUME h # None, NEW i \in DOMAIN t, IsNick(t[i]), NoNick(t, i + 1, Len(t))
      PROVE  h = t[i].new
  <2>1. i + 1 \in DOMAIN q /\ t[i] = q[i + 1] /\ NoNick(q, i + 1 + 1, Len(q))
    BY <1>1, <1>2, <1>7
  <2> QED BY <1>7, <2>1 DEF Leads
<1> QED BY <1>3, <1>4, <1>5, <1>6, <1>7 DEF Leads, t

\* Without a self-NICK line to read, or with the connection gone, the end of
\* the chain may be given up.
LEMMA LeadsGone ==
  ASSUME NEW q, NEW c, NEW h, Leads(q, c, h)
  PROVE  Leads(q, c, None)
BY DEF Leads

\* What Append does to the positions of a queue.
LEMMA AppendFacts ==
  ASSUME NEW q \in Seq(Line), NEW e \in Line
  PROVE  LET t == Append(q, e) IN
         /\ t \in Seq(Line) /\ Len(q) \in Nat /\ Len(t) = Len(q) + 1
         /\ DOMAIN q = 1 .. Len(q) /\ DOMAIN t = 1 .. Len(t)
         /\ t[Len(t)] = e
         /\ \A i \in 1 .. Len(q) : t[i] = q[i]
         /\ \A i, j \in Int : i >= 1 /\ j <= Len(q) => (NoNick(t, i, j) <=> NoNick(q, i, j))
<1> DEFINE t == Append(q, e)
<1>1. /\ t \in Seq(Line) /\ Len(q) \in Nat /\ Len(t) = Len(q) + 1
      /\ DOMAIN q = 1 .. Len(q) /\ DOMAIN t = 1 .. Len(t)
      /\ t[Len(t)] = e
      /\ \A i \in 1 .. Len(q) : t[i] = q[i]
  OBVIOUS
<1> HIDE DEF t
<1>2. ASSUME NEW i \in Int, NEW j \in Int, i >= 1, j <= Len(q)
      PROVE  NoNick(t, i, j) <=> NoNick(q, i, j)
  <2>1. \A k \in i .. j : k \in 1 .. Len(q) /\ t[k] = q[k]
    BY <1>1, <1>2
  <2> QED BY <2>1 DEF NoNick
<1> QED BY <1>1, <1>2 DEF t

\* A line of another kind at the end leaves the chain as it is.
LEMMA LeadsAppendOther ==
  ASSUME NEW q \in Seq(Line), NEW e \in Line, ~IsNick(e), NEW c, NEW h, Leads(q, c, h)
  PROVE  Leads(Append(q, e), c, h)
<1> DEFINE t == Append(q, e)
<1>1. /\ t \in Seq(Line) /\ Len(q) \in Nat /\ Len(t) = Len(q) + 1
      /\ DOMAIN q = 1 .. Len(q) /\ DOMAIN t = 1 .. Len(t)
      /\ t[Len(t)] = e
      /\ \A i \in 1 .. Len(q) : t[i] = q[i]
      /\ \A i, j \in Int : i >= 1 /\ j <= Len(q) => (NoNick(t, i, j) <=> NoNick(q, i, j))
  BY AppendFacts
<1> HIDE DEF t
<1>2. \A j \in DOMAIN t : IsNick(t[j]) => j \in DOMAIN q /\ t[j] = q[j] /\ j - 1 <= Len(q)
  BY <1>1
<1>3. \A i \in Int : i >= 1 /\ NoNick(t, i, Len(t)) => NoNick(q, i, Len(q))
  <2>1. ASSUME NEW i \in Int, i >= 1, NoNick(t, i, Len(t)) PROVE NoNick(t, i, Len(q))
    <3>1. \A k \in i .. Len(q) : k \in i .. Len(t)
      BY <1>1
    <3> QED BY <2>1, <3>1 DEF NoNick
  <2> QED BY <1>1, <2>1
<1>4. ASSUME NEW j \in DOMAIN t, IsNick(t[j]), NoNick(t, 1, j - 1) PROVE t[j].old = c
  <2>1. j \in DOMAIN q /\ t[j] = q[j] /\ NoNick(q, 1, j - 1)
    BY <1>1, <1>2, <1>4
  <2> QED BY <1>4, <2>1 DEF Leads
<1>5. ASSUME NEW i \in DOMAIN t, NEW j \in DOMAIN t, i < j, IsNick(t[i]), IsNick(t[j]),
             NoNick(t, i + 1, j - 1)
      PROVE  t[j].old = t[i].new
  <2>1. /\ i \in DOMAIN q /\ t[i] = q[i] /\ j \in DOMAIN q /\ t[j] = q[j]
        /\ NoNick(q, i + 1, j - 1)
    BY <1>1, <1>2, <1>5
  <2> QED BY <1>5, <2>1 DEF Leads
<1>6. ASSUME h # None, NoNick(t, 1, Len(t)) PROVE h = c
  BY <1>3, <1>6 DEF Leads
<1>7. ASSUME h # None, NEW i \in DOMAIN t, IsNick(t[i]), NoNick(t, i + 1, Len(t))
      PROVE  h = t[i].new
  <2>1. i \in DOMAIN q /\ t[i] = q[i] /\ NoNick(q, i + 1, Len(q))
    BY <1>1, <1>2, <1>3, <1>7
  <2> QED BY <1>7, <2>1 DEF Leads
<1> QED BY <1>4, <1>5, <1>6, <1>7 DEF Leads, t

\* A self-NICK line from the nick the server has to another one extends the
\* chain to that one.
LEMMA LeadsAppendNick ==
  ASSUME NEW q \in Seq(Line), NEW e \in Line, IsNick(e), NEW c, NEW h, h # None,
         Leads(q, c, h), e.old = h
  PROVE  Leads(Append(q, e), c, e.new)
<1> DEFINE t == Append(q, e)
<1>1. /\ t \in Seq(Line) /\ Len(q) \in Nat /\ Len(t) = Len(q) + 1
      /\ DOMAIN q = 1 .. Len(q) /\ DOMAIN t = 1 .. Len(t)
      /\ t[Len(t)] = e
      /\ \A i \in 1 .. Len(q) : t[i] = q[i]
      /\ \A i, j \in Int : i >= 1 /\ j <= Len(q) => (NoNick(t, i, j) <=> NoNick(q, i, j))
  BY AppendFacts
<1> HIDE DEF t
<1>2. \A j \in DOMAIN t : j = Len(t) \/ (j \in DOMAIN q /\ t[j] = q[j])
  BY <1>1
<1>3. ASSUME NEW j \in DOMAIN t, IsNick(t[j]), NoNick(t, 1, j - 1) PROVE t[j].old = c
  <2>1. CASE j = Len(t)
    <3>1. NoNick(q, 1, Len(q))
      <4>1. j - 1 = Len(q)
        BY <1>1, <2>1
      <4> QED BY <1>1, <1>3, <4>1
    <3> QED BY <1>1, <2>1, <3>1 DEF Leads
  <2>2. CASE j \in DOMAIN q /\ t[j] = q[j]
    <3>1. NoNick(q, 1, j - 1)
      BY <1>1, <1>3, <2>2
    <3> QED BY <1>3, <2>2, <3>1 DEF Leads
  <2> QED BY <1>2, <2>1, <2>2
<1>4. ASSUME NEW i \in DOMAIN t, NEW j \in DOMAIN t, i < j, IsNick(t[i]), IsNick(t[j]),
             NoNick(t, i + 1, j - 1)
      PROVE  t[j].old = t[i].new
  <2>1. i \in DOMAIN q /\ t[i] = q[i]
    BY <1>1, <1>4
  <2>2. CASE j = Len(t)
    <3>1. NoNick(q, i + 1, Len(q))
      <4>1. j - 1 = Len(q)
        BY <1>1, <2>2
      <4>2. i + 1 \in Int /\ i + 1 >= 1 /\ Len(q) \in Int
        BY <1>1
      <4> QED BY <1>1, <1>4, <4>1, <4>2
    <3> QED BY <1>1, <1>4, <2>1, <2>2, <3>1 DEF Leads
  <2>3. CASE j \in DOMAIN q /\ t[j] = q[j]
    <3>1. NoNick(q, i + 1, j - 1)
      BY <1>1, <1>4, <2>3
    <3> QED BY <1>4, <2>1, <2>3, <3>1 DEF Leads
  <2> QED BY <1>2, <2>2, <2>3
<1>5. ~NoNick(t, 1, Len(t))
  BY <1>1 DEF NoNick
<1>6. ASSUME NEW i \in DOMAIN t, IsNick(t[i]), NoNick(t, i + 1, Len(t))
      PROVE  e.new = t[i].new
  <2>1. i \in 1 .. Len(t) /\ Len(t) \in Nat
    BY <1>1
  <2>2. CASE i = Len(t)
    BY <1>1, <2>2
  <2>3. CASE i + 1 <= Len(t)
    <3>1. Len(t) \in (i + 1) .. Len(t)
      BY <2>1, <2>3
    <3>2. ~IsNick(t[Len(t)])
      BY <1>6, <3>1 DEF NoNick
    <3> QED BY <1>1, <3>2
  <2> QED BY <2>1, <2>2, <2>3
<1> QED BY <1>3, <1>4, <1>5, <1>6 DEF Leads, t

\* Without missed events the library and the bot have the same idea of the
\* nick, so the one that markAsDisconnected takes over is no other.
LEMMA SameNick == Spec => [](lib = cur)
<1>1. Init => lib = cur
  BY DEF Init
<1>2. TypeOK /\ lib = cur /\ [Next]_vars => (lib = cur)'
  <2> SUFFICES ASSUME TypeOK, lib = cur, [Next]_vars PROVE lib' = cur'
    OBVIOUS
  <2> USE DEF nmVars, botVars, netVars
  <2>1. ASSUME NEW b \in Bots, RecvNick(b) PROVE lib' = cur'
    BY <2>1 DEF RecvNick, Follow
  <2>2. ASSUME NEW b \in Bots, RecvClosed(b) PROVE lib' = cur'
    BY <2>2 DEF TypeOK, RecvClosed
  <2>3. ASSUME UNCHANGED <<lib, cur>> PROVE lib' = cur'
    BY <2>3
  <2>4. ASSUME NEW b \in Bots,
               \/ Notify(b) \/ RecvIson(b) \/ RecvRefused(b) \/ RecvErroneous(b) \/ RecvPenalty(b)
               \/ Handle(b) \/ Poll(b) \/ SendNick(b) \/ GiveBack(b)
               \/ RemoveBotFromManager(b) \/ Removal(b) \/ Serve(b) \/ Drop(b)
               \/ \E n \in Targets : Attempt(b, n)
        PROVE  lib' = cur'
    <3>1. UNCHANGED <<lib, cur>>
      BY <2>4 DEF Notify, RecvIson, RecvRefused, RecvErroneous, RecvPenalty, Handle, FilterPriority,
                  FilterSecondary, Purge, Assign, Poll, SendNick, GiveBack, RemoveBotFromManager,
                  Removal, ReturnDead, Unregister, Serve, ServerIson, ServerNick, Drop, Attempt
    <3> QED BY <2>3, <3>1
  <2>5. ASSUME World \/ Tick \/ UNCHANGED vars PROVE lib' = cur'
    BY <2>3, <2>5 DEF World, ForeignLeaves, ForeignTakes, PenaltyEnds, Tick, vars
  <2> QED BY <2>1, <2>2, <2>4, <2>5 DEF Next, Callback
<1> QED BY <1>1, <1>2, TypeCorrect, PTL DEF Spec

\* The bot follows its nick without a gap, in every fleet and whatever NICK
\* commands are in flight: NickChain is inductive over the typed states in
\* which the library agrees with the bot.
THEOREM NickChainHolds == Spec => []NickChain
<1>1. Init => NickChain
  <2> SUFFICES ASSUME Init, NEW b \in Bots PROVE Leads(in[b], cur[b], held[b])
    BY DEF NickChain
  <2>1. in[b] = <<>> /\ cur[b] = Home[b] /\ held[b] = Home[b]
    BY DEF Init
  <2> QED BY <2>1 DEF Leads
<1>2. TypeOK /\ lib = cur /\ NickChain /\ [Next]_vars => NickChain'
  <2> SUFFICES ASSUME TypeOK, lib = cur, NickChain, [Next]_vars, NEW a \in Bots
               PROVE  Leads(in'[a], cur'[a], held'[a])
    BY DEF NickChain
  <2> USE DEF nmVars, botVars, netVars
  <2>0. Leads(in[a], cur[a], held[a]) /\ in[a] \in Seq(Line)
    BY DEF NickChain, TypeOK
  <2>1. ASSUME UNCHANGED <<in, cur, held>> PROVE Leads(in'[a], cur'[a], held'[a])
    BY <2>0, <2>1
  <2>2. ASSUME NEW b \in Bots, RecvNick(b) PROVE Leads(in'[a], cur'[a], held'[a])
    <3>1. CASE a = b
      <4> DEFINE e == Head(in[b])
      <4>1. in[b] \in Seq(Line) /\ in[b] # <<>> /\ IsNick(e) /\ in'[b] = Tail(in[b]) /\ held' = held
        BY <2>2 DEF TypeOK, RecvNick, Receive, IsNick
      <4>2. e.old = cur[b] /\ Leads(Tail(in[b]), e.new, held[b])
        BY <2>0, <3>1, <4>1, LeadsTailNick
      <4>3. cur'[b] = e.new
        BY <2>2, <4>2 DEF TypeOK, RecvNick
      <4> QED BY <3>1, <4>1, <4>2, <4>3
    <3>2. CASE a # b
      <4>1. in'[a] = in[a] /\ cur'[a] = cur[a] /\ held'[a] = held[a]
        BY <2>2, <3>2 DEF TypeOK, RecvNick, Receive
      <4> QED BY <2>0, <4>1
    <3> QED BY <3>1, <3>2
  <2>3. ASSUME NEW b \in Bots, NEW type \in {"ison", "refused", "nocando", "penalty", "closed"},
               Receive(b, type), UNCHANGED <<cur, held>>
        PROVE  Leads(in'[a], cur'[a], held'[a])
    <3>1. CASE a = b
      <4>1. in[b] # <<>> /\ ~IsNick(Head(in[b])) /\ in'[b] = Tail(in[b])
        BY <2>3 DEF TypeOK, Receive, IsNick
      <4>2. Leads(Tail(in[b]), cur[b], held[b])
        BY <2>0, <3>1, <4>1, LeadsTailOther
      <4> QED BY <2>3, <3>1, <4>1, <4>2
    <3>2. CASE a # b
      BY <2>0, <2>3, <3>2 DEF TypeOK, Receive
    <3> QED BY <3>1, <3>2
  <2>4. ASSUME NEW b \in Bots, NEW line \in Line, ~IsNick(line), Reply(b, line), UNCHANGED <<cur, held>>
        PROVE  Leads(in'[a], cur'[a], held'[a])
    <3>1. CASE a = b
      BY <2>0, <2>4, <3>1, LeadsAppendOther DEF TypeOK, Reply
    <3>2. CASE a # b
      BY <2>0, <2>4, <3>2 DEF TypeOK, Reply
    <3> QED BY <3>1, <3>2
  <2>5. ASSUME NEW b \in Bots, ServerIson(b) PROVE Leads(in'[a], cur'[a], held'[a])
    <3> DEFINE line == [type |-> "ison", online |-> {k \in Keys : Taken(k)}]
    <3>1. line \in Line /\ ~IsNick(line)
      BY DEF Line, IsNick
    <3>2. Reply(b, line) /\ UNCHANGED <<cur, held>>
      BY <2>5 DEF ServerIson
    <3> QED BY <2>4, <3>1, <3>2
  <2>6. ASSUME NEW b \in Bots, ServerNick(b) PROVE Leads(in'[a], cur'[a], held'[a])
    <3> DEFINE n == Head(out[b]).nick
               e == [type |-> "nick", old |-> held[b], new |-> n]
    <3>1. held[b] \in Nicks /\ held[b] # None /\ n \in Targets /\ n \in Nicks
      BY <2>6, ServedType, ListTypes DEF ServerNick, Served
    <3>2. /\ [type |-> "nocando", nick |-> n] \in Line /\ ~IsNick([type |-> "nocando", nick |-> n])
          /\ [type |-> "refused", nick |-> n] \in Line /\ ~IsNick([type |-> "refused", nick |-> n])
          /\ [type |-> "penalty", nick |-> n] \in Line /\ ~IsNick([type |-> "penalty", nick |-> n])
          /\ e \in Line /\ IsNick(e) /\ e.old = held[b] /\ e.new = n
      BY <3>1 DEF Line, IsNick
    <3>3. CASE UNCHANGED <<in, held>>
      BY <2>1, <2>6, <3>3 DEF ServerNick
    <3>4. CASE /\ \/ Reply(b, [type |-> "nocando", nick |-> n])
                  \/ Reply(b, [type |-> "refused", nick |-> n])
                  \/ Reply(b, [type |-> "penalty", nick |-> n])
               /\ UNCHANGED held
      BY <2>4, <2>6, <3>2, <3>4 DEF ServerNick
    <3>5. CASE Reply(b, e) /\ held' = [held EXCEPT ![b] = n]
      <4>1. cur' = cur
        BY <2>6 DEF ServerNick
      <4>2. CASE a = b
        <5>1. in'[b] = Append(in[b], e) /\ held'[b] = n
          BY <3>5 DEF TypeOK, Reply
        <5>2. Leads(Append(in[b], e), cur[b], e.new)
          BY <2>0, <3>1, <3>2, <4>2, LeadsAppendNick
        <5> QED BY <3>2, <4>1, <4>2, <5>1, <5>2
      <4>3. CASE a # b
        <5>1. in'[a] = in[a] /\ held'[a] = held[a]
          BY <3>5, <4>3 DEF TypeOK, Reply
        <5> QED BY <2>0, <4>1, <5>1
      <4> QED BY <4>2, <4>3
    <3> QED BY <2>6, <3>3, <3>4, <3>5 DEF ServerNick
  <2>7. ASSUME NEW b \in Bots, Drop(b) PROVE Leads(in'[a], cur'[a], held'[a])
    <3> DEFINE e == [type |-> "closed"]
    <3>1. e \in Line /\ ~IsNick(e)
      BY DEF Line, IsNick
    <3>2. cur' = cur
      BY <2>7 DEF Drop
    <3>3. CASE a = b
      <4>1. in'[b] = Append(in[b], e) /\ held'[b] = None
        BY <2>7 DEF TypeOK, Drop
      <4>2. Leads(Append(in[b], e), cur[b], held[b])
        BY <2>0, <3>1, <3>3, LeadsAppendOther
      <4> QED BY <3>2, <3>3, <4>1, <4>2, LeadsGone
    <3>4. CASE a # b
      <4>1. in'[a] = in[a] /\ held'[a] = held[a]
        BY <2>7, <3>4 DEF TypeOK, Drop
      <4> QED BY <2>0, <3>2, <4>1
    <3> QED BY <3>3, <3>4
  <2>8. ASSUME NEW b \in Bots, Handle(b) \/ Poll(b) \/ SendNick(b) \/ GiveBack(b)
                               \/ RemoveBotFromManager(b) \/ Removal(b)
        PROVE  Leads(in'[a], cur'[a], held'[a])
    BY <2>1, <2>8 DEF Handle, FilterPriority, FilterSecondary, Purge, Assign, Poll, SendNick,
                      GiveBack, RemoveBotFromManager, Removal, ReturnDead, Unregister
  <2>9. ASSUME NEW b \in Bots, Callback(b) PROVE Leads(in'[a], cur'[a], held'[a])
    <3>1. CASE Notify(b)
      BY <2>1, <3>1 DEF Notify
    <3>2. CASE RecvIson(b) \/ RecvRefused(b) \/ RecvErroneous(b) \/ RecvPenalty(b)
      BY <2>3, <3>2 DEF RecvIson, RecvRefused, RecvErroneous, RecvPenalty
    <3>3. CASE RecvClosed(b)
      <4>1. cur' = cur
        BY <3>3 DEF TypeOK, RecvClosed
      <4>2. Receive(b, "closed") /\ held' = held
        BY <3>3 DEF RecvClosed
      <4> QED BY <2>3, <4>1, <4>2
    <3> QED BY <2>2, <2>9, <3>1, <3>2, <3>3 DEF Callback
  <2>10. ASSUME NEW b \in Bots, NEW n \in Targets, Attempt(b, n)
         PROVE  Leads(in'[a], cur'[a], held'[a])
    BY <2>1, <2>10 DEF Attempt
  <2>11. ASSUME World \/ Tick \/ UNCHANGED vars PROVE Leads(in'[a], cur'[a], held'[a])
    BY <2>1, <2>11 DEF World, ForeignLeaves, ForeignTakes, PenaltyEnds, Tick, vars
  <2> QED BY <2>2, <2>5, <2>6, <2>7, <2>8, <2>9, <2>10, <2>11 DEF Next, Serve
<1> QED BY <1>1, <1>2, TypeCorrect, SameNick, PTL DEF Spec

-----------------------------------------------------------------------------
(* One offer per step. *)

\* A nonempty set of naturals has a least element: induction without a
\* predicate.
LEMMA Least == ASSUME NEW T, T \subseteq Nat, T # {} PROVE \E n \in T : \A m \in T : n <= m
<1>1. IsWellFoundedOn(OpToRel(<, Nat), Nat)
  BY NatLessThanWellFounded
<1>2. PICK x \in T : \A y \in T : <<y, x>> \notin OpToRel(<, Nat)
  BY <1>1, WFMin
<1>3. \A y \in T : ~(y < x)
  BY <1>2 DEF OpToRel
<1> QED
  BY <1>3

\* What the bot at i takes, when the list was taken up to p.
Taking(crew, avail, i, p) ==
  IF Crew[i] \notin crew THEN p
  ELSE IF Left(avail, Crew[i], p) = {} THEN Len(List) + 1
  ELSE Min(Left(avail, Crew[i], p))

\* It is further on.
LEMMA TakingFacts ==
  ASSUME NEW crew, NEW avail \in SUBSET DOMAIN List, NEW i, NEW p \in 0 .. Len(List) + 1
  PROVE  /\ Taking(crew, avail, i, p) \in 0 .. Len(List) + 1
         /\ p <= Taking(crew, avail, i, p)
         /\ Crew[i] \in crew /\ Taking(crew, avail, i, p) \in DOMAIN List => p < Taking(crew, avail, i, p)
<1> DEFINE L == Left(avail, Crew[i], p)
           n == Len(List)
<1>1. n \in Nat /\ DOMAIN List = 1 .. n
  BY DEF List
<1>2. L \subseteq 1 .. n /\ \A k \in L : k > p
  BY <1>1 DEF Left
<1>3. ASSUME L # {} PROVE Min(L) \in L
  <2>1. \E x \in L : \A y \in L : x <= y
    BY <1>2, <1>3, Least
  <2> QED
    BY <2>1 DEF Min
<1>4. Taking(crew, avail, i, p) = IF Crew[i] \notin crew THEN p ELSE IF L = {} THEN n + 1 ELSE Min(L)
  BY DEF Taking
<1> HIDE DEF L, n
<1>5. p \in Nat /\ p <= n + 1
  BY <1>1 DEF n
<1>6. CASE Crew[i] \notin crew
  BY <1>1, <1>4, <1>5, <1>6 DEF n
<1>7. CASE Crew[i] \in crew /\ L = {}
  BY <1>1, <1>4, <1>5, <1>7 DEF n
<1>8. CASE Crew[i] \in crew /\ L # {}
  <2>1. Min(L) \in 1 .. n /\ Min(L) > p
    BY <1>2, <1>3, <1>8
  <2> QED
    BY <1>1, <1>4, <1>5, <1>8, <2>1 DEF n
<1> QED
  BY <1>6, <1>7, <1>8

\* A walk of the first n bots along the list.
Walk(crew, avail, n, f) ==
  /\ f \in [0 .. n -> 0 .. Len(List) + 1] /\ f[0] = 0
  /\ \A i \in 1 .. n : f[i] = Taking(crew, avail, i, f[i - 1])

\* Reached is the walk of all bots: the shortest walk that does not exist would
\* be one step longer than one that does.
LEMMA ReachedWalks ==
  ASSUME NEW crew, NEW avail \in SUBSET DOMAIN List
  PROVE  Walk(crew, avail, Len(Crew), Reached(crew, avail))
<1> DEFINE m == Len(Crew)
           R == 0 .. Len(List) + 1
           T == {n \in Nat : ~\E f : Walk(crew, avail, n, f)}
<1>1. T = {}
  <2> SUFFICES ASSUME T # {} PROVE FALSE
    OBVIOUS
  <2>1. PICK n \in T : \A k \in T : n <= k
    BY Least
  <2>2. n # 0
    <3>1. 0 \in R
      BY DEF List
    <3>2. Walk(crew, avail, 0, [i \in 0 .. 0 |-> 0])
      BY <3>1 DEF Walk
    <3> QED
      BY <2>1, <3>2
  <2>3. n \in Nat /\ n - 1 \in Nat /\ n - 1 \notin T
    <3>1. n \in Nat
      OBVIOUS
    <3>2. n - 1 \in Nat /\ ~(n <= n - 1)
      BY <2>2, <3>1
    <3> HIDE DEF T
    <3> QED
      BY <2>1, <3>1, <3>2
  <2>4. PICK f : Walk(crew, avail, n - 1, f)
    BY <2>3
  <2> DEFINE v == Taking(crew, avail, n, f[n - 1])
             g == [i \in 0 .. n |-> IF i = n THEN v ELSE f[i]]
  <2>5. f \in [0 .. n - 1 -> R] /\ f[0] = 0 /\ \A i \in 1 .. n - 1 : f[i] = Taking(crew, avail, i, f[i - 1])
    BY <2>4 DEF Walk
  <2>6. v \in R
    <3>1. f[n - 1] \in R
      BY <2>3, <2>5
    <3> QED
      BY <3>1, TakingFacts
  <2> HIDE DEF v
  <2>7. g \in [0 .. n -> R] /\ g[0] = 0
    BY <2>2, <2>3, <2>5, <2>6
  <2>8. ASSUME NEW i \in 1 .. n PROVE g[i] = Taking(crew, avail, i, g[i - 1])
    <3>1. g[i - 1] = f[i - 1]
      BY <2>3
    <3>2. CASE i = n
      BY <2>3, <3>1, <3>2 DEF v
    <3>3. CASE i # n
      <4>1. i \in 1 .. n - 1
        BY <2>3, <3>3
      <4>2. g[i] = f[i]
        BY <2>3, <3>3
      <4> QED
        BY <2>5, <3>1, <4>1, <4>2
    <3> QED
      BY <3>2, <3>3
  <2>9. Walk(crew, avail, n, g)
    BY <2>7, <2>8 DEF Walk
  <2> QED
    BY <2>1, <2>9
<1>2. m \in Nat
  OBVIOUS
<1>3. PICK f : Walk(crew, avail, m, f)
  BY <1>1, <1>2
<1> DEFINE Onward(h) == [i \in 0 .. m |-> IF i = 0 THEN 0 ELSE Taking(crew, avail, i, h[i - 1])]
<1>4. Reached(crew, avail) = CHOOSE h : h = Onward(h)
  BY DEF Reached, Taking
<1>5. f = Onward(f)
  BY <1>2, <1>3 DEF Walk
<1> DEFINE a == Reached(crew, avail)
<1>6. a = Onward(a)
  BY <1>4, <1>5
<1> HIDE DEF a
<1>7. /\ DOMAIN a = 0 .. m /\ a = [i \in 0 .. m |-> a[i]] /\ a[0] = 0
      /\ \A i \in 1 .. m : a[i] = Taking(crew, avail, i, a[i - 1])
  <2>1. a = [i \in 0 .. m |-> IF i = 0 THEN 0 ELSE Taking(crew, avail, i, a[i - 1])]
    BY <1>6
  <2> HIDE DEF m
  <2>2. DOMAIN a = 0 .. m /\ a = [i \in 0 .. m |-> a[i]]
    BY <2>1
  <2>3. \A i \in 0 .. m : a[i] = IF i = 0 THEN 0 ELSE Taking(crew, avail, i, a[i - 1])
    BY <2>1
  <2>4. 0 \in 0 .. m /\ \A i \in 1 .. m : i \in 0 .. m /\ i # 0
    BY <1>2
  <2> QED
    BY <2>2, <2>3, <2>4
<1> DEFINE U == {i \in 0 .. m : a[i] \notin R}
<1>8. U = {}
  <2> SUFFICES ASSUME U # {} PROVE FALSE
    OBVIOUS
  <2>0. U \subseteq Nat
    BY <1>2
  <2>1. PICK i \in U : \A k \in U : i <= k
    BY <2>0, Least
  <2>2. i \in 0 .. m /\ a[i] \notin R
    BY <2>1
  <2>3. a[0] \in R
    BY <1>7 DEF List
  <2>4. i \in 1 .. m /\ i - 1 \in 0 .. m /\ ~(i <= i - 1)
    BY <1>2, <2>2, <2>3
  <2>5. a[i - 1] \in R
    BY <2>1, <2>4
  <2>6. a[i] \in R
    <3>1. a[i] = Taking(crew, avail, i, a[i - 1])
      BY <1>7, <2>4
    <3>2. Taking(crew, avail, i, a[i - 1]) \in R
      BY <2>5, TakingFacts
    <3> QED
      BY <3>1, <3>2
  <2> QED
    BY <2>2, <2>6
<1>9. a \in [0 .. m -> R]
  BY <1>7, <1>8
<1> QED
  BY <1>7, <1>9 DEF Walk, a

\* The bots take positions in their order, each further on than the last.
LEMMA ReachedGoesOn ==
  ASSUME NEW crew, NEW avail \in SUBSET DOMAIN List, NEW i \in DOMAIN Crew, NEW j \in DOMAIN Crew,
         i < j, Crew[j] \in crew, Reached(crew, avail)[j] \in DOMAIN List
  PROVE  Reached(crew, avail)[i] < Reached(crew, avail)[j]
<1> DEFINE a == Reached(crew, avail)
           m == Len(Crew)
           n == Len(List)
           U == {k \in i .. m : ~(a[i] <= a[k])}
<1>1. /\ a \in [0 .. m -> 0 .. n + 1] /\ \A k \in 1 .. m : a[k] = Taking(crew, avail, k, a[k - 1])
      /\ m \in Nat /\ n \in Nat /\ i \in 1 .. m /\ j \in 1 .. m
  <2>1. Walk(crew, avail, m, a)
    BY ReachedWalks
  <2>2. m \in Nat /\ i \in 1 .. m /\ j \in 1 .. m
    OBVIOUS
  <2>3. n \in Nat
    BY DEF List
  <2> HIDE DEF a, m, n
  <2>4. a \in [0 .. m -> 0 .. n + 1] /\ \A k \in 1 .. m : a[k] = Taking(crew, avail, k, a[k - 1])
    BY <2>1 DEF Walk, n
  <2> QED
    BY <2>2, <2>3, <2>4
<1> HIDE DEF a, n, m
<1>0. i \in Nat /\ j \in Nat /\ 1 <= i /\ i < j /\ j <= m
  <2>1. m \in Nat /\ i \in 1 .. m /\ j \in 1 .. m
    BY <1>1
  <2> QED
    BY <2>1
<1>2. \A k \in 1 .. m : a[k - 1] \in 0 .. n + 1 /\ a[k - 1] <= a[k]
  <2> SUFFICES ASSUME NEW k \in 1 .. m PROVE a[k - 1] \in 0 .. n + 1 /\ a[k - 1] <= a[k]
    OBVIOUS
  <2>1. k - 1 \in 0 .. m
    BY <1>1
  <2>2. a[k - 1] \in 0 .. n + 1
    BY <1>1, <2>1
  <2>3. a[k - 1] <= Taking(crew, avail, k, a[k - 1])
    BY <2>2, TakingFacts DEF n
  <2> QED
    BY <1>1, <2>2, <2>3
<1>3. \A k \in 0 .. m : a[k] \in Nat
  <2>1. \A k \in 0 .. m : a[k] \in 0 .. n + 1
    BY <1>1
  <2> QED
    BY <1>1, <2>1
<1>4. U = {}
  <2> SUFFICES ASSUME U # {} PROVE FALSE
    OBVIOUS
  <2>0. U \subseteq Nat
    BY <1>1
  <2>1. PICK k \in U : \A l \in U : k <= l
    BY <2>0, Least
  <2>2. k \in i .. m /\ ~(a[i] <= a[k]) /\ a[i] \in Nat
    BY <1>1, <1>3, <2>1
  <2>3. k # i /\ i \in Nat /\ 1 <= i /\ k \in Nat /\ i <= k /\ k <= m
    BY <1>0, <1>1, <2>2
  <2> HIDE DEF U
  <2>4. k - 1 \in i .. m /\ ~(k <= k - 1) /\ k \in 1 .. m
    BY <1>1, <2>3
  <2>5. a[i] <= a[k - 1]
    <3>1. k - 1 \notin U
      BY <2>1, <2>4
    <3> QED
      BY <2>4, <3>1 DEF U
  <2>6. a[k - 1] <= a[k] /\ a[k - 1] \in Nat /\ a[k] \in Nat
    BY <1>1, <1>2, <1>3, <2>4
  <2> QED
    BY <2>2, <2>5, <2>6
<1>5. j - 1 \in i .. m /\ j - 1 \in 0 .. m /\ i \in 0 .. m /\ j \in 0 .. m
  BY <1>0, <1>1
<1>6. a[i] <= a[j - 1]
  BY <1>4, <1>5
<1>7. a[j - 1] < a[j]
  <2>1. a[j - 1] \in 0 .. n + 1 /\ a[j] = Taking(crew, avail, j, a[j - 1])
    BY <1>1, <1>2
  <2>2. a[j] \in DOMAIN List
    BY DEF a
  <2> QED
    BY <2>1, <2>2, TakingFacts DEF n
<1>8. a[i] \in Nat /\ a[j - 1] \in Nat /\ a[j] \in Nat
  BY <1>3, <1>5
<1>9. a[i] < a[j]
  BY <1>6, <1>7, <1>8
<1> QED
  BY <1>9 DEF a

\* One offer of a nick of the list has a place, and none needs none.
LEMMA FitsOne ==
  ASSUME NEW offers, offers \subseteq Bots \X Targets, \A o1, o2 \in offers : o1 = o2
  PROVE  Fits(offers)
<1>1. ASSUME NEW o \in offers PROVE \E k \in DOMAIN List : List[k] = o[2]
  <2>1. o[2] \in Targets
    OBVIOUS
  <2> QED BY <2>1, ListPlaces
<1> DEFINE place == [o \in offers |-> CHOOSE k \in DOMAIN List : List[k] = o[2]]
<1>2. place \in [offers -> DOMAIN List] /\ \A o \in offers : List[place[o]] = o[2]
  BY <1>1
<1> HIDE DEF place
<1>3. \A o1, o2 \in offers : place[o1] = place[o2] => o1 = o2
  OBVIOUS
<1>4. \A o1, o2 \in offers : o1[1] = o2[1] => o1 = o2
  OBVIOUS
<1>5. \E f \in [offers -> DOMAIN List] :
        /\ \A o \in offers : List[f[o]] = o[2]
        /\ \A o1, o2 \in offers : f[o1] = f[o2] => o1 = o2
  BY <1>2, <1>3
<1> QED BY <1>4, <1>5 DEF Fits

\* Of offers that have their places each has its own.
LEMMA FitsFewer ==
  ASSUME NEW offers, Fits(offers), NEW fewer, fewer \subseteq offers
  PROVE  Fits(fewer)
<1>1. PICK place \in [offers -> DOMAIN List] :
        /\ \A o \in offers : List[place[o]] = o[2]
        /\ \A o1, o2 \in offers : place[o1] = place[o2] => o1 = o2
  BY DEF Fits
<1> DEFINE its == [o \in fewer |-> place[o]]
<1>2. its \in [fewer -> DOMAIN List] /\ \A o \in fewer : its[o] = place[o]
  BY <1>1
<1> HIDE DEF its
<1>3. /\ \A o \in fewer : List[its[o]] = o[2]
      /\ \A o1, o2 \in fewer : its[o1] = its[o2] => o1 = o2
  BY <1>1, <1>2
<1>4. \A o1, o2 \in fewer : o1[1] = o2[1] => o1 = o2
  BY DEF Fits
<1> QED BY <1>2, <1>3, <1>4 DEF Fits

\* The assignment loops: each bot has the place of the list up to which it went.
LEMMA AssignmentFits ==
  ASSUME NEW crew, NEW avail \in SUBSET DOMAIN List
  PROVE  Fits(Assignment(crew, avail))
<1> DEFINE a == Reached(crew, avail)
           Q == {q \in (DOMAIN Crew) \X avail : Crew[q[1]] \in crew /\ a[q[1]] = q[2]}
           pairs == Assignment(crew, avail)
           at(o) == CHOOSE i \in DOMAIN Crew : Crew[i] = o[1]
           place == [o \in pairs |-> a[at(o)]]
<1>1. ASSUME NEW o \in pairs
      PROVE  /\ at(o) \in DOMAIN Crew /\ Crew[at(o)] \in crew
             /\ a[at(o)] \in DOMAIN List /\ o = <<Crew[at(o)], List[a[at(o)]]>>
  <2>1. PICK q \in Q : o = <<Crew[q[1]], List[q[2]]>>
    BY <1>1 DEF Assignment
  <2> DEFINE i == q[1]
  <2>2. i \in DOMAIN Crew /\ Crew[i] \in crew /\ a[i] = q[2] /\ a[i] \in DOMAIN List
    OBVIOUS
  <2>3. o[1] = Crew[i] /\ o = <<Crew[i], List[a[i]]>>
    BY <2>1, <2>2
  <2> HIDE DEF a, i
  <2>4. at(o) = i
    BY <2>2, <2>3, OnceAssumption
  <2> HIDE DEF at
  <2> QED BY <2>2, <2>3, <2>4
<1> HIDE DEF pairs, at
<1>2. place \in [pairs -> DOMAIN List] /\ \A o \in pairs : place[o] = a[at(o)]
  BY <1>1
<1> HIDE DEF place
<1>3. ASSUME NEW o \in pairs PROVE List[place[o]] = o[2]
  BY <1>1, <1>2, <1>3
<1>4. ASSUME NEW o1 \in pairs, NEW o2 \in pairs, place[o1] = place[o2] PROVE o1 = o2
  <2> DEFINE i == at(o1)
             j == at(o2)
  <2>1. /\ i \in DOMAIN Crew /\ Crew[i] \in crew /\ a[i] \in DOMAIN List
        /\ j \in DOMAIN Crew /\ Crew[j] \in crew /\ a[j] \in DOMAIN List
        /\ o1 = <<Crew[i], List[a[i]]>> /\ o2 = <<Crew[j], List[a[j]]>>
    BY <1>1
  <2>2. a[i] = a[j]
    BY <1>2, <1>4
  <2> HIDE DEF a, i, j
  <2>3. i < j => a[i] < a[j]
    BY <2>1, ReachedGoesOn DEF a
  <2>4. j < i => a[j] < a[i]
    BY <2>1, ReachedGoesOn DEF a
  <2>5. i \in Nat /\ j \in Nat /\ a[i] \in Nat
    BY <2>1 DEF List
  <2>6. i = j
    BY <2>2, <2>3, <2>4, <2>5
  <2> QED BY <2>1, <2>6
<1>5. ASSUME NEW o1 \in pairs, NEW o2 \in pairs, o1[1] = o2[1] PROVE o1 = o2
  <2>1. at(o1) = at(o2)
    BY <1>5 DEF at
  <2> QED BY <1>1, <2>1
<1>6. Fits(pairs)
  BY <1>2, <1>3, <1>4, <1>5 DEF Fits
<1> QED BY <1>6 DEF pairs

\* Only what is spawned is offered.
LEMMA SpawnOffers ==
  ASSUME TypeOK, NEW pairs, Spawn(pairs)
  PROVE  Offers \subseteq pairs
<1> SUFFICES ASSUME NEW p \in Bots \X Targets, pending'[p] > pending[p] PROVE p \in pairs
  BY DEF Offers
<1>1. pending[p] \in Nat /\ pending'[p] = pending[p] + IF p \in pairs THEN 1 ELSE 0
  BY DEF TypeOK, Spawn
<1> QED
  BY <1>1

\* A step that spawns nothing offers nothing.
LEMMA NoOffer ==
  ASSUME TypeOK, \A p \in Bots \X Targets : pending'[p] = pending[p] \/ pending'[p] = pending[p] - 1
  PROVE  Fits(Offers)
<1>1. \A p \in Bots \X Targets : pending[p] \in Nat
  BY DEF TypeOK
<1>2. Offers = {}
  BY <1>1 DEF Offers
<1> QED
  BY <1>2, FitsOne

\* A nick that is given back is offered to one bot, the first.
LEMMA ReofferFits ==
  ASSUME TypeOK, NEW n, Reoffer(n) \/ ReturnNickToPool(n) \/ NotifyNickChange(n)
  PROVE  Fits(Offers)
<1>1. CASE Reoffer(n)
  <2> DEFINE pairs == {<<b, n>> : b \in {a \in Available : IsFirst(a, Available)}}
  <2>1. ASSUME NEW a, NEW b, IsFirst(a, Available), IsFirst(b, Available) PROVE a = b
    <3>1. PICK i \in DOMAIN Crew : Crew[i] = a /\ a \in Available /\ \A l \in 1 .. i - 1 : Crew[l] \notin Available
      BY <2>1 DEF IsFirst
    <3>2. PICK j \in DOMAIN Crew : Crew[j] = b /\ b \in Available /\ \A l \in 1 .. j - 1 : Crew[l] \notin Available
      BY <2>1 DEF IsFirst
    <3>3. i \in Nat \ {0} /\ j \in Nat \ {0} /\ i \notin 1 .. j - 1 /\ j \notin 1 .. i - 1
      BY <3>1, <3>2
    <3>4. i = j
      BY <3>3
    <3> QED
      BY <3>1, <3>2, <3>4
  <2>2. \A o1, o2 \in pairs : o1 = o2
    BY <2>1
  <2>3. Spawn(pairs)
    BY <1>1 DEF Reoffer
  <2> HIDE DEF pairs
  <2>4. Offers \subseteq pairs
    BY <2>3, SpawnOffers
  <2>5. Offers \subseteq Bots \X Targets
    BY DEF Offers
  <2>6. \A o1, o2 \in Offers : o1 = o2
    BY <2>2, <2>4
  <2> QED
    BY <2>5, <2>6, FitsOne
<1>2. CASE UNCHANGED <<lock, pending>>
  BY <1>2, NoOffer
<1> QED
  BY <1>1, <1>2 DEF ReturnNickToPool, NotifyNickChange

\* No step offers two nicks to one bot or a nick to more bots than the list
\* names it: not even the assignment loops (nickmanager.go:297-333), which pop
\* the list as the bots come, however many bots and nicks there are, and
\* whether the nicks of the list differ or not.
THEOREM OneOffer == Spec => OneOfferPerStep
<1> DEFINE A == Fits(Offers)
<1>1. ASSUME TypeOK, UNCHANGED pending PROVE A
  BY <1>1, NoOffer
<1>2. ASSUME TypeOK, Next PROVE A
  <2>1. ASSUME NEW b \in Bots, Handle(b) PROVE A
    <3>1. CASE Assign(b)
      <4> DEFINE pairs == Assignment(hnd[b].crew, hnd[b].avail)
      <4>1. hnd[b].avail \in SUBSET DOMAIN List
        BY <1>2, HandlerType
      <4>2. Fits(pairs)
        BY <4>1, AssignmentFits
      <4>3. Spawn(pairs)
        BY <3>1 DEF Assign
      <4> HIDE DEF pairs
      <4>4. Offers \subseteq pairs
        BY <1>2, <4>3, SpawnOffers
      <4> QED
        BY <4>2, <4>4, FitsFewer
    <3>2. CASE ~Assign(b)
      <4>1. UNCHANGED pending
        BY <2>1, <3>2 DEF Handle, FilterPriority, FilterSecondary, Purge
      <4> QED
        BY <1>1, <1>2, <4>1
    <3> QED
      BY <3>1, <3>2
  <2>2. ASSUME NEW b \in Bots, GiveBack(b) \/ Notify(b) \/ ReturnDead(b) PROVE A
    <3>1. PICK n : ReturnNickToPool(n) \/ NotifyNickChange(n)
      BY <2>2 DEF GiveBack, Notify, ReturnDead
    <3> QED
      BY <1>2, <3>1, ReofferFits
  <2>3. ASSUME NEW b \in Bots, NEW n \in Targets, Attempt(b, n) PROVE A
    <3>1. pending' = [pending EXCEPT ![<<b, n>>] = @ - 1] /\ pending \in [Bots \X Targets -> Nat] /\ <<b, n>> \in Bots \X Targets
      BY <1>2, <2>3 DEF Attempt, TypeOK
    <3>2. \A p \in Bots \X Targets : pending'[p] = pending[p] \/ pending'[p] = pending[p] - 1
      BY <3>1
    <3> QED
      BY <1>2, <3>2, NoOffer
  <2>4. ASSUME NEW b \in Bots,
               \/ Poll(b) \/ SendNick(b) \/ RemoveBotFromManager(b) \/ Unregister(b)
               \/ Serve(b) \/ Drop(b)
        PROVE  A
    <3>1. UNCHANGED pending
      BY <2>4 DEF Poll, SendNick, RemoveBotFromManager, Unregister, Serve, ServerIson, ServerNick, Drop
    <3> QED
      BY <1>1, <1>2, <3>1
  <2>5. ASSUME NEW b \in Bots, Callback(b), ~Notify(b) PROVE A
    <3>1. UNCHANGED pending
      BY <2>5 DEF Callback, RecvNick, RecvIson, RecvRefused, RecvErroneous, RecvPenalty, RecvClosed, nmVars
    <3> QED
      BY <1>1, <1>2, <3>1
  <2>6. ASSUME World \/ Tick PROVE A
    <3>1. UNCHANGED pending
      BY <2>6 DEF World, Tick, ForeignLeaves, ForeignTakes, PenaltyEnds
    <3> QED
      BY <1>1, <1>2, <3>1
  <2> QED
    BY <1>2, <2>1, <2>2, <2>3, <2>4, <2>5, <2>6 DEF Next, Removal, Callback
<1>3. TypeOK /\ [Next]_vars => [A]_vars
  BY <1>2
<1>4. [][A]_vars => OneOfferPerStep
  BY PTL DEF OneOfferPerStep
<1> HIDE DEF A
<1> QED
  BY <1>3, <1>4, TypeCorrect, PTL DEF Spec

=============================================================================
