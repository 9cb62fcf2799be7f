------------------------------ MODULE FleetProofs ------------------------------
(***************************************************************************)
(* OneConnection, InStep and NeverNil of Fleet, for any connections and    *)
(* any bounds on the troubles.                                             *)
(*                                                                         *)
(* None of them is inductive.  Single says what an opener may take for     *)
(* granted while it is the only one at work: what it has stopped and what  *)
(* it dials.  Wires lists the events that a connection may still have for  *)
(* its callbacks, Dialed that one opener dials a connection of which       *)
(* nothing is known, and Told what isConnected means after a callback of   *)
(* b.Connection has set it: it follows the connection, or an event that    *)
(* will set it is on its way.                                              *)
(***************************************************************************)
EXTENDS Fleet, SequenceTheorems, TLAPS

USE ConnsAssumption, CountAssumption, BoundsAssumption

Events == {"001", "welcomed", "465", "ERROR", "DISCONNECTED"}
Phase == {"idle", "connect", "close", "drain", "cool", "open", "dial", "wait", "poll", "retry", "done"}

-----------------------------------------------------------------------------
(* The types, in parts. *)

NetType ==
  /\ cur \in Conns \cup {None}
  /\ link \in [Conns -> {"none", "open", "up", "silent", "down"}]
  /\ latched \subseteq Conns /\ looping \subseteq Conns /\ bye \subseteq Conns
  /\ inbox \in [Conns -> Seq(Events)]

FlagType ==
  /\ isConnected \in BOOLEAN /\ gaveUp \in BOOLEAN /\ banHandled \in BOOLEAN
  /\ tmhcInProgress \in BOOLEAN /\ isReconnecting \in BOOLEAN /\ closed \in BOOLEAN
  /\ listed \in BOOLEAN /\ kept \in BOOLEAN /\ settled \in BOOLEAN
  /\ quitting \in BOOLEAN /\ killing \in BOOLEAN /\ panicked \in BOOLEAN
  /\ tmhcAttempts \in Nat

OpenType ==
  /\ waiting \subseteq Openers /\ released \subseteq Openers
  /\ pc \in [Openers -> Phase]
  /\ at \in [Openers \cup {"ban"} -> Conns \cup {None}]
  /\ tries \in [Openers -> Nat]

RestType ==
  /\ cleanup \in {"wait", "found", "done"} /\ ban \in {"no", "disconnect", "drain"}
  /\ closing \subseteq Conns
  /\ alive \in {"fresh", "idle", "probed", "overdue", "answered"}
  /\ left \in [Bounded -> Nat]

Basic == NetType /\ FlagType /\ OpenType /\ RestType

\* What is counted, and what the history variables hold.
Attempts == left["retries"] # 0 /\ \A o \in Openers : tries[o] <= left["retries"]
HistType == crowded \in BOOLEAN /\ misled \in BOOLEAN /\ speaker \in Conns \cup {None}

TypeInv == Basic /\ Attempts /\ HistType

\* The parts make the type.
LEMMA Types == TypeInv => TypeOK
<1> SUFFICES ASSUME TypeInv PROVE TypeOK
  OBVIOUS
<1>0. NetType /\ FlagType /\ OpenType /\ RestType /\ Attempts /\ HistType
  BY DEF TypeInv, Basic
<1>1. \A f \in {isConnected, gaveUp, banHandled, tmhcInProgress, isReconnecting, closed,
                listed, kept, settled, quitting, killing, panicked, crowded, misled} : f \in BOOLEAN
  BY <1>0 DEF FlagType, HistType
<1>2. tries \in [Openers -> 0 .. left["retries"]]
  <2>1. left["retries"] \in Nat /\ \A o \in Openers : tries[o] \in Nat /\ tries[o] <= left["retries"]
    BY <1>0 DEF OpenType, RestType, Attempts, Bounded
  <2>2. \A o \in Openers : tries[o] \in 0 .. left["retries"]
    BY <2>1
  <2> QED
    BY <1>0, <2>2 DEF OpenType
<1> QED
  BY <1>0, <1>1, <1>2 DEF NetType, FlagType, OpenType, RestType, HistType, TypeOK, Events, Phase

\* At first.
LEMMA InitTypes == Init => TypeInv
<1> SUFFICES ASSUME Init PROVE TypeInv
  OBVIOUS
<1>1. NetType
  BY DEF Init, NetType, Events
<1>2. FlagType
  BY DEF Init, FlagType
<1>3. OpenType
  BY DEF Init, OpenType, Openers, Phase
<1>4. RestType
  BY DEF Init, RestType
<1>5. Attempts /\ HistType
  <2>1. left \in [Bounded -> Nat] /\ left["retries"] # 0 /\ "retries" \in Bounded
    BY DEF Init, Bounded
  <2>2. \A o \in Openers : tries[o] = 0
    BY DEF Init
  <2>3. 0 <= left["retries"]
    BY <2>1
  <2> QED
    BY <2>1, <2>2, <2>3 DEF Init, Attempts, HistType
<1> QED
  BY <1>1, <1>2, <1>3, <1>4, <1>5 DEF Basic, TypeInv

-----------------------------------------------------------------------------
(* Queues of events, and the budget. *)

\* A connection goes down.
LEMMA DownType ==
  ASSUME NetType, NEW c \in Conns, NEW last \in Seq(Events), Down(c, last)
  PROVE  /\ link' \in [Conns -> {"none", "open", "up", "silent", "down"}]
         /\ inbox' \in [Conns -> Seq(Events)]
<1>1. inbox[c] \in Seq(Events)
  BY DEF NetType
<1>2. <<"DISCONNECTED">> \in Seq(Events)
  BY DEF Events
<1>3. inbox[c] \o last \o <<"DISCONNECTED">> \in Seq(Events)
  BY <1>1, <1>2
<1> QED
  BY <1>3 DEF NetType, Down

\* Disconnect, of b.Connection or of another one.
LEMMA DisconnectType ==
  ASSUME NetType, NEW c \in Conns \cup {None}, Disconnect(c)
  PROVE  /\ link' \in [Conns -> {"none", "open", "up", "silent", "down"}]
         /\ inbox' \in [Conns -> Seq(Events)]
<1>1. CASE c # None /\ link[c] \in Active
  <2>1. c \in Conns /\ <<>> \in Seq(Events) /\ Down(c, <<>>)
    BY <1>1 DEF Disconnect
  <2> QED
    BY <2>1, DownType
<1>2. CASE ~(c # None /\ link[c] \in Active)
  BY <1>2 DEF Disconnect, NetType
<1> QED
  BY <1>1, <1>2

\* A callback has run.
LEMMA DoneType ==
  ASSUME NetType, NEW c \in Conns, NEW e, Take(c, e)
  PROVE  /\ Tail(inbox[c]) \in Seq(Events)
         /\ Done(c) => inbox' \in [Conns -> Seq(Events)]
         /\ e = "001" => [inbox EXCEPT ![c][1] = "welcomed"] \in [Conns -> Seq(Events)]
<1>1. inbox[c] \in Seq(Events) /\ inbox[c] # <<>>
  BY DEF NetType, Take
<1>2. Tail(inbox[c]) \in Seq(Events)
  BY <1>1
<1>3. [inbox[c] EXCEPT ![1] = "welcomed"] \in Seq(Events)
  <2>1. "welcomed" \in Events
    BY DEF Events
  <2> HIDE DEF Events
  <2> QED
    BY <1>1, <2>1
<1> QED
  BY <1>2, <1>3 DEF NetType, Done

\* Trouble costs.
LEMMA SpendType ==
  ASSUME RestType, NEW t \in Trouble, Spend(t)
  PROVE  left' \in [Bounded -> Nat]
<1>1. left[t] \in Nat /\ left["any"] \in Nat /\ left[t] > 0 /\ left["any"] > 0 /\ t # "any"
  BY DEF RestType, Spend, Trouble, Bounded
<1>2. left[t] - 1 \in Nat /\ left["any"] - 1 \in Nat
  BY <1>1
<1> QED
  BY <1>1, <1>2 DEF RestType, Spend

\* An opener goes on.
LEMMA GotoType ==
  ASSUME OpenType, NEW o \in Openers, NEW l \in Phase, Goto(o, l)
  PROVE  pc' \in [Openers -> Phase]
BY DEF OpenType, Goto, Openers

\* What connectWithRetry does keeps the types.
LEMMA OpenerTypes == ASSUME Basic, NEW o \in Openers, Opener(o) PROVE Basic'
<1>0. NetType /\ FlagType /\ OpenType /\ RestType
  BY DEF Basic
<1>1. CASE Open(o)
  <2>1. PICK c \in Conns : Free(c) /\ c = CHOOSE d \in Conns : Free(d)
    BY <1>1 DEF Open
  <2>2. /\ cur' = c /\ at' = [at EXCEPT ![o] = c] /\ link' = [link EXCEPT ![c] = "none"]
        /\ latched' = latched \ {c} /\ looping' = looping \ {c} /\ bye' = bye \ {c}
    BY <1>1, <2>1 DEF Open
  <2>3. tries[o] + 1 \in Nat
    BY <1>0 DEF OpenType
  <2>4. tries' = [tries EXCEPT ![o] = tries[o] + 1] /\ Goto(o, "dial") /\ "dial" \in Phase
    BY <1>1 DEF Open, Phase
  <2>5. NetType'
    BY <1>0, <1>1, <2>2 DEF Open, NetType
  <2>6. FlagType'
    BY <1>0, <1>1 DEF Open, NewChannel, FlagType, flags, roster, others
  <2>7. OpenType'
    BY <1>0, <1>1, <2>2, <2>3, <2>4, GotoType DEF Open, NewChannel, OpenType
  <2>8. RestType'
    BY <1>0, <1>1 DEF Open, RestType, roster, others
  <2> QED
    BY <2>5, <2>6, <2>7, <2>8 DEF Basic
<1>2. CASE DialFails(o)
  <2>1. "open" \in Phase /\ "refuse" \in Trouble /\ None \in Conns \cup {None}
    BY DEF Phase, Trouble
  <2>2. NetType' /\ FlagType'
    <3>1. NetType'
      BY <1>0, <1>2 DEF DialFails, NetType, net, roster, others
    <3>2. FlagType'
      BY <1>0, <1>2 DEF DialFails, FlagType, channel, roster, others
    <3> QED
      BY <3>1, <3>2
  <2>3. OpenType'
    BY <1>0, <1>2, <2>1, GotoType DEF DialFails, OpenType, channel
  <2>4. RestType'
    BY <1>0, <1>2, <2>1, SpendType DEF DialFails, RestType, roster, others
  <2> QED
    BY <2>2, <2>3, <2>4 DEF Basic
<1>3. CASE DialDone(o)
  <2>1. "wait" \in Phase /\ None \in Conns \cup {None}
    BY DEF Phase
  <2>2. NetType' /\ FlagType'
    <3>1. NetType'
      BY <1>0, <1>3 DEF DialDone, NetType, flags, roster, others
    <3>2. FlagType'
      BY <1>0, <1>3 DEF DialDone, FlagType, flags, roster, others
    <3> QED
      BY <3>1, <3>2
  <2>3. OpenType'
    BY <1>0, <1>3, <2>1, GotoType DEF DialDone, OpenType
  <2>4. RestType'
    BY <1>0, <1>3 DEF DialDone, RestType, roster, others
  <2> QED
    BY <2>2, <2>3, <2>4 DEF Basic
<1>4. CASE Connected(o)
  <2>1. "poll" \in Phase /\ "idle" \in Phase
    BY DEF Phase
  <2>2. NetType' /\ FlagType'
    <3>1. NetType'
      BY <1>0, <1>4 DEF Connected, Succeed, NetType, net, roster, others
    <3>2. FlagType'
      BY <1>0, <1>4 DEF Connected, Succeed, FlagType, net, roster, others
    <3> QED
      BY <3>1, <3>2
  <2>3. OpenType'
    BY <1>0, <1>4, <2>1, GotoType DEF Connected, Succeed, OpenType
  <2>4. RestType'
    BY <1>0, <1>4 DEF Connected, RestType, roster, others
  <2> QED
    BY <2>2, <2>3, <2>4 DEF Basic
<1>5. CASE Timeout(o)
  <2>1. "open" \in Phase /\ "slow" \in Trouble
    BY DEF Phase, Trouble
  <2>2. NetType' /\ FlagType'
    <3>1. NetType'
      BY <1>0, <1>5 DEF Timeout, LibQuit, NetType, roster, others
    <3>2. FlagType'
      BY <1>0, <1>5 DEF Timeout, LibQuit, FlagType, roster, others
    <3> QED
      BY <3>1, <3>2
  <2>3. OpenType'
    BY <1>0, <1>5, <2>1, GotoType DEF Timeout, OpenType
  <2>4. RestType'
    BY <1>0, <1>5, <2>1, SpendType DEF Timeout, RestType, roster, others
  <2> QED
    BY <2>2, <2>3, <2>4 DEF Basic
<1>6. CASE Exhausted(o)
  <2>1. "retry" \in Phase /\ "idle" \in Phase
    BY DEF Phase
  <2>2. NetType' /\ FlagType'
    <3>1. NetType'
      BY <1>0, <1>6 DEF Exhausted, LibQuit, NetType, roster, others
    <3>2. FlagType'
      BY <1>0, <1>6 DEF Exhausted, FlagType, channel, roster, others
    <3> QED
      BY <3>1, <3>2
  <2>3. OpenType'
    BY <1>0, <1>6, <2>1, GotoType DEF Exhausted, OpenType, channel
  <2>4. RestType'
    BY <1>0, <1>6 DEF Exhausted, RestType, roster, others
  <2> QED
    BY <2>2, <2>3, <2>4 DEF Basic
<1>7. CASE CloseOld(o)
  <2>1. "drain" \in Phase /\ cur \in Conns \cup {None}
    BY <1>0 DEF Phase, NetType
  <2>2. NetType' /\ FlagType'
    <3>1. NetType'
      BY <1>0, <1>7, <2>1, DisconnectType DEF CloseOld, NetType, flags, roster, others
    <3>2. FlagType'
      BY <1>0, <1>7 DEF CloseOld, FlagType, flags, channel, roster, others
    <3> QED
      BY <3>1, <3>2
  <2>3. OpenType'
    BY <1>0, <1>7, <2>1, GotoType DEF CloseOld, OpenType, channel
  <2>4. RestType'
    BY <1>0, <1>7 DEF CloseOld, RestType, roster, others
  <2> QED
    BY <2>2, <2>3, <2>4 DEF Basic
<1> QED
  BY <1>1, <1>2, <1>3, <1>4, <1>5, <1>6, <1>7 DEF Opener

\* So does what startBotWithRetry, Reconnect and handleTMHCBackoff add to it.
LEMMA StartTypes == ASSUME Basic, Starting \/ Backoff \/ ReconnectCalled PROVE Basic'
<1>0. NetType /\ FlagType /\ OpenType /\ RestType
      /\ "start" \in Openers /\ "reconnect" \in Openers /\ "tmhc" \in Openers
      /\ (\A l \in {"idle", "connect", "close", "drain", "cool", "open", "dial", "wait", "poll",
                    "retry", "done"} : l \in Phase)
      /\ None \in Conns \cup {None}
  BY DEF Basic, Openers, Phase
<1>1. CASE Connect
  <2>2. NetType' /\ FlagType' /\ RestType'
    <3>1. NetType'
      BY <1>0, <1>1 DEF Connect, NewChannel, NetType, net, roster, others, channel
    <3>2. FlagType'
      BY <1>0, <1>1 DEF Connect, NewChannel, FlagType, net, roster, others, channel
    <3>3. RestType'
      BY <1>0, <1>1 DEF Connect, NewChannel, RestType, net, roster, others, channel
    <3> QED
      BY <3>1, <3>2, <3>3
  <2>3. OpenType'
    <3>1. PICK l \in {"poll", "open"} : Goto("start", l)
      BY <1>1 DEF Connect
    <3>2. pc'["start"] = l /\ pc' \in [Openers -> Phase]
      BY <1>0, <3>1 DEF Goto, OpenType, Openers
    <3> QED
      BY <1>0, <1>1, <3>2 DEF Connect, NewChannel, OpenType, channel
  <2> QED
    BY <2>2, <2>3 DEF Basic
<1>2. CASE Poll
  <2>1. NetType' /\ RestType'
    BY <1>0, <1>2 DEF Poll, NetType, RestType, net, others
  <2>2. FlagType'
    <3>1. kept' \in BOOLEAN
      BY <1>0, <1>2 DEF Poll, IsConnected, FlagType
    <3> QED
      BY <1>0, <1>2, <3>1 DEF Poll, FlagType, flags, channel, others
  <2>3. OpenType'
    BY <1>0, <1>2, GotoType DEF Poll, OpenType, channel
  <2> QED
    BY <2>1, <2>2, <2>3 DEF Basic
<1>3. CASE Retry
  <2>1. NetType' /\ FlagType' /\ RestType'
    <3>1. NetType'
      BY <1>0, <1>3 DEF Retry, QuitEffect, LibQuit, CloseChannel, NetType, roster, others, channel
    <3>2. FlagType'
      BY <1>0, <1>3 DEF Retry, QuitEffect, LibQuit, CloseChannel, FlagType, roster, others, channel
    <3>3. RestType'
      <4>1. left' \in [Bounded -> Nat]
        BY <1>0, <1>3 DEF Retry, RestType, Bounded
      <4> QED
        BY <1>0, <1>3, <4>1 DEF Retry, RestType, roster, others
    <3> QED
      BY <3>1, <3>2, <3>3
  <2>2. OpenType'
    <3>1. CASE Goto("start", "connect") /\ UNCHANGED channel
      BY <1>0, <1>3, <3>1, GotoType DEF Retry, OpenType, channel
    <3>2. CASE Goto("start", "done") /\ QuitEffect
      BY <1>0, <1>3, <3>2, GotoType DEF Retry, QuitEffect, CloseChannel, OpenType
    <3> QED
      BY <1>3, <3>1, <3>2 DEF Retry
  <2> QED
    BY <2>1, <2>2 DEF Basic
<1>4. CASE StartBotsEnds
  BY <1>0, <1>4 DEF StartBotsEnds, NetType, FlagType, RestType, OpenType, Basic, net, flags, channel,
     openers, others
<1>5. CASE ReconnectAnew
  <2>1. NetType' /\ FlagType' /\ RestType'
    <3>1. NetType'
      BY <1>0, <1>5 DEF ReconnectAnew, NewChannel, NetType, net, flags, roster, others
    <3>2. FlagType'
      BY <1>0, <1>5 DEF ReconnectAnew, NewChannel, FlagType, net, flags, roster, others
    <3>3. RestType'
      BY <1>0, <1>5 DEF ReconnectAnew, NewChannel, RestType, net, flags, roster, others
    <3> QED
      BY <3>1, <3>2, <3>3
  <2>2. OpenType'
    BY <1>0, <1>5, GotoType DEF ReconnectAnew, NewChannel, OpenType
  <2> QED
    BY <2>1, <2>2 DEF Basic
<1>6. CASE BackoffDecide
  <2>1. NetType' /\ FlagType' /\ RestType'
    <3>1. NetType'
      BY <1>0, <1>6 DEF BackoffDecide, QuitEffect, LibQuit, CloseChannel, NetType, others, channel
    <3>2. FlagType'
      BY <1>0, <1>6 DEF BackoffDecide, QuitEffect, LibQuit, CloseChannel, FlagType, others, channel
    <3>3. RestType'
      BY <1>0, <1>6 DEF BackoffDecide, QuitEffect, LibQuit, CloseChannel, RestType, others, channel
    <3> QED
      BY <3>1, <3>2, <3>3
  <2>2. OpenType'
    BY <1>0, <1>6, GotoType DEF BackoffDecide, QuitEffect, CloseChannel, OpenType, channel
  <2> QED
    BY <2>1, <2>2 DEF Basic
<1>7. CASE BackoffRetry
  <2>1. NetType' /\ FlagType' /\ RestType'
    <3>1. NetType'
      BY <1>0, <1>7 DEF BackoffRetry, NewChannel, NetType, net, roster, others, channel
    <3>2. FlagType'
      BY <1>0, <1>7 DEF BackoffRetry, NewChannel, FlagType, net, roster, others, channel
    <3>3. RestType'
      BY <1>0, <1>7 DEF BackoffRetry, NewChannel, RestType, net, roster, others, channel
    <3> QED
      BY <3>1, <3>2, <3>3
  <2>2. OpenType'
    BY <1>0, <1>7, GotoType DEF BackoffRetry, NewChannel, OpenType, channel
  <2> QED
    BY <2>1, <2>2 DEF Basic
<1>8. CASE ReconnectCalled
  <2>1. NetType' /\ FlagType'
    <3>1. NetType'
      BY <1>0, <1>8 DEF ReconnectCalled, NetType, net, roster, others, channel
    <3>2. FlagType'
      BY <1>0, <1>8 DEF ReconnectCalled, FlagType, net, roster, others, channel
    <3> QED
      BY <3>1, <3>2
  <2>2. OpenType'
    BY <1>0, <1>8, GotoType DEF ReconnectCalled, OpenType, channel
  <2>3. RestType'
    <3>1. "reconnect" \in Trouble
      BY DEF Trouble
    <3> QED
      BY <1>0, <1>8, <3>1, SpendType DEF ReconnectCalled, RestType, roster, others
  <2> QED
    BY <2>1, <2>2, <2>3 DEF Basic
<1> QED
  BY <1>1, <1>2, <1>3, <1>4, <1>5, <1>6, <1>7, <1>8 DEF Starting, Backoff

\* So do the callbacks.
LEMMA CallbackTypes == ASSUME Basic, NEW c \in Conns, Callback(c) PROVE Basic'
<1>0. NetType /\ FlagType /\ OpenType /\ RestType
  BY DEF Basic
<1>1. CASE Recv001(c)
  <2>1. inbox' \in [Conns -> Seq(Events)]
    BY <1>0, <1>1, DoneType DEF Recv001
  <2>2. NetType' /\ FlagType' /\ RestType'
    <3>1. NetType'
      BY <1>0, <1>1, <2>1 DEF Recv001, NetType, flags, channel, roster
    <3>2. FlagType'
      BY <1>0, <1>1, <2>1 DEF Recv001, FlagType, flags, channel, roster
    <3>3. RestType'
      BY <1>0, <1>1 DEF Recv001, RestType, NetType, roster
    <3> QED
      BY <3>1, <3>2, <3>3
  <2>3. OpenType'
    BY <1>0, <1>1 DEF Recv001, OpenType, channel, openers
  <2> QED
    BY <2>2, <2>3 DEF Basic
<1>2. CASE Welcomed(c)
  <2>1. inbox' \in [Conns -> Seq(Events)]
    BY <1>0, <1>2, DoneType DEF Welcomed
  <2>2. NetType' /\ FlagType' /\ RestType'
    <3>1. NetType'
      BY <1>0, <1>2, <2>1 DEF Welcomed, CloseChannel, NetType, roster, others
    <3>2. FlagType'
      BY <1>0, <1>2, <2>1 DEF Welcomed, CloseChannel, FlagType, roster, others
    <3>3. RestType'
      BY <1>0, <1>2, <2>1 DEF Welcomed, CloseChannel, RestType, roster, others
    <3> QED
      BY <3>1, <3>2, <3>3
  <2>3. OpenType'
    BY <1>0, <1>2 DEF Welcomed, CloseChannel, OpenType, openers
  <2> QED
    BY <2>2, <2>3 DEF Basic
<1>3. CASE RecvBan(c)
  <2>1. inbox' \in [Conns -> Seq(Events)]
    BY <1>0, <1>3, DoneType DEF RecvBan
  <2>2. NetType' /\ FlagType' /\ RestType'
    <3>1. NetType'
      BY <1>0, <1>3, <2>1 DEF RecvBan, NetType, roster, channel
    <3>2. FlagType'
      BY <1>0, <1>3, <2>1 DEF RecvBan, FlagType, roster, channel
    <3>3. RestType'
      BY <1>0, <1>3, <2>1 DEF RecvBan, RestType, roster, channel
    <3> QED
      BY <3>1, <3>2, <3>3
  <2>3. OpenType'
    BY <1>0, <1>3 DEF RecvBan, OpenType, openers, channel
  <2> QED
    BY <2>2, <2>3 DEF Basic
<1>4. CASE RecvError(c)
  <2>1. inbox' \in [Conns -> Seq(Events)]
    BY <1>0, <1>4, DoneType DEF RecvError
  <2>2. NetType' /\ RestType'
    BY <1>0, <1>4, <2>1 DEF RecvError, NetType, RestType, roster, others
  <2>3. FlagType'
    <3>1. tmhcAttempts' \in Nat /\ tmhcInProgress' \in BOOLEAN
      <4>1. UNCHANGED <<tmhcInProgress, tmhcAttempts>> \/ (tmhcInProgress' = TRUE /\ tmhcAttempts' = tmhcAttempts + 1)
        BY <1>4 DEF RecvError
      <4>2. tmhcAttempts \in Nat /\ tmhcInProgress \in BOOLEAN
        BY <1>0 DEF FlagType
      <4>3. CASE UNCHANGED <<tmhcInProgress, tmhcAttempts>>
        BY <4>2, <4>3
      <4>4. CASE tmhcInProgress' = TRUE /\ tmhcAttempts' = tmhcAttempts + 1
        BY <4>2, <4>4
      <4> QED
        BY <4>1, <4>3, <4>4
    <3> QED
      BY <1>0, <1>4, <3>1 DEF RecvError, FlagType, roster, others, channel
  <2>4. OpenType'
    <3>1. "close" \in Phase /\ "tmhc" \in Openers
      BY DEF Phase, Openers
    <3>2. UNCHANGED pc \/ Goto("tmhc", "close")
      BY <1>4 DEF RecvError
    <3>3. pc' \in [Openers -> Phase]
      BY <1>0, <3>1, <3>2, GotoType DEF OpenType
    <3> QED
      BY <1>0, <1>4, <3>3 DEF RecvError, OpenType, channel
  <2> QED
    BY <2>2, <2>3, <2>4 DEF Basic
<1>5. CASE RecvDisconnected(c)
  <2>1. inbox' \in [Conns -> Seq(Events)]
    BY <1>0, <1>5, DoneType DEF RecvDisconnected
  <2>2. NetType' /\ FlagType' /\ RestType'
    <3>1. NetType'
      BY <1>0, <1>5, <2>1 DEF RecvDisconnected, NetType, roster, others, channel
    <3>2. FlagType'
      BY <1>0, <1>5, <2>1 DEF RecvDisconnected, FlagType, roster, others, channel
    <3>3. RestType'
      BY <1>0, <1>5, <2>1 DEF RecvDisconnected, RestType, roster, others, channel
    <3> QED
      BY <3>1, <3>2, <3>3
  <2>3. OpenType'
    BY <1>0, <1>5 DEF RecvDisconnected, OpenType, openers, channel
  <2> QED
    BY <2>2, <2>3 DEF Basic
<1> QED
  BY <1>1, <1>2, <1>3, <1>4, <1>5 DEF Callback

\* So does the network.
LEMMA NetTypes == ASSUME Basic, NEW c \in Conns, Server(c) \/ Ends(c) \/ FallSilent(c) \/ Close(c) PROVE Basic'
<1>0. NetType /\ FlagType /\ OpenType /\ RestType
  BY DEF Basic
<1>1. /\ link' \in [Conns -> {"none", "open", "up", "silent", "down"}]
      /\ inbox' \in [Conns -> Seq(Events)]
  <2>1. CASE LoopReconnect(c) \/ FallSilent(c)
    BY <1>0, <2>1 DEF LoopReconnect, FallSilent, NetType
  <2>2. CASE Welcome(c)
    <3>1. "001" \in Events /\ inbox[c] \in Seq(Events)
      BY <1>0 DEF NetType, Events
    <3>2. Append(inbox[c], "001") \in Seq(Events)
      BY <3>1
    <3> QED
      BY <1>0, <2>2, <3>2 DEF Welcome, NetType
  <2>3. CASE QuitAnswered(c) \/ Ends(c)
    <3>1. <<>> \in Seq(Events) /\ <<"ERROR">> \in Seq(Events) /\ <<"465">> \in Seq(Events)
      BY DEF Events
    <3>2. \E last \in Seq(Events) : Down(c, last)
      BY <2>3, <3>1 DEF QuitAnswered, Ends
    <3> QED
      BY <1>0, <3>2, DownType
  <2>4. CASE Close(c)
    BY <1>0, <2>4, DisconnectType DEF Close
  <2> QED
    BY <2>1, <2>2, <2>3, <2>4 DEF Server
<1>2. /\ UNCHANGED <<cur, latched, looping, bye, flags, channel, openers, roster, ban, quitting, killing, alive, panicked>>
      /\ closing' \subseteq closing
  BY DEF Server, LoopReconnect, Welcome, QuitAnswered, Ends, FallSilent, Close, others
<1>3. NetType' /\ FlagType' /\ OpenType'
  BY <1>0, <1>1, <1>2 DEF NetType, FlagType, OpenType, flags, channel, openers, roster
<1>4. left' \in [Bounded -> Nat]
  <2>1. CASE Server(c) \/ Close(c)
    BY <1>0, <2>1 DEF Server, LoopReconnect, Welcome, QuitAnswered, Close, RestType
  <2>2. CASE Ends(c) \/ FallSilent(c)
    <3>1. {"drop", "reject", "ban", "silence"} \subseteq Trouble
      BY DEF Trouble
    <3>2. \E t \in Trouble : Spend(t)
      BY <2>2, <3>1 DEF Ends, FallSilent
    <3> QED
      BY <1>0, <3>2, SpendType
  <2> QED
    BY <2>1, <2>2
<1>5. RestType'
  BY <1>0, <1>2, <1>4 DEF RestType, roster
<1> QED
  BY <1>3, <1>5 DEF Basic

\* So do removals, the watchdog and the clock.
LEMMA RestTypes == ASSUME Basic, Removal \/ Watchdog \/ QuitCalled \/ TimePasses \/ Line PROVE Basic'
<1>0. NetType /\ FlagType /\ OpenType /\ RestType
  BY DEF Basic
<1>1. CASE BanDisconnect
  <2>1. cur \in Conns \cup {None} /\ "ban" \in Openers \cup {"ban"}
    BY <1>0 DEF NetType
  <2>2. NetType'
    BY <1>0, <1>1, <2>1, DisconnectType DEF BanDisconnect, NetType
  <2>3. FlagType' /\ RestType'
    <3>1. FlagType'
      BY <1>0, <1>1 DEF BanDisconnect, FlagType, flags, channel, roster
    <3>2. RestType'
      BY <1>0, <1>1 DEF BanDisconnect, RestType, flags, channel, roster
    <3> QED
      BY <3>1, <3>2
  <2>4. OpenType'
    BY <1>0, <1>1, <2>1 DEF BanDisconnect, OpenType, channel
  <2> QED
    BY <2>2, <2>3, <2>4 DEF Basic
<1>2. CASE BanRemove
  <2>1. NetType' /\ FlagType' /\ RestType'
    <3>1. NetType'
      BY <1>0, <1>2 DEF BanRemove, NetType, flags, channel, net
    <3>2. FlagType'
      BY <1>0, <1>2 DEF BanRemove, FlagType, flags, channel, net
    <3>3. RestType'
      BY <1>0, <1>2 DEF BanRemove, RestType, flags, channel, net
    <3> QED
      BY <3>1, <3>2, <3>3
  <2>2. OpenType'
    BY <1>0, <1>2 DEF BanRemove, OpenType, channel
  <2> QED
    BY <2>1, <2>2 DEF Basic
<1>3. CASE Quit
  <2>1. NetType' /\ FlagType' /\ RestType'
    <3>1. NetType'
      BY <1>0, <1>3 DEF Quit, QuitEffect, LibQuit, CloseChannel, NetType, roster
    <3>2. FlagType'
      BY <1>0, <1>3 DEF Quit, QuitEffect, LibQuit, CloseChannel, FlagType, roster
    <3>3. RestType'
      BY <1>0, <1>3 DEF Quit, QuitEffect, LibQuit, CloseChannel, RestType, roster
    <3> QED
      BY <3>1, <3>2, <3>3
  <2>2. OpenType'
    BY <1>0, <1>3 DEF Quit, QuitEffect, CloseChannel, OpenType, openers
  <2> QED
    BY <2>1, <2>2 DEF Basic
<1>4. CASE CleanupLook \/ CleanupRemove \/ QuitCalled \/ Watchdog \/ TimePasses \/ Line
  <2>1. NetType' /\ OpenType'
    BY <1>0, <1>4 DEF CleanupLook, CleanupRemove, QuitCalled, Watchdog, Sweep, Kill, TimePasses, Line, NetType, OpenType,
       net, channel, openers
  <2>2. FlagType'
    <3>1. CASE CleanupLook
      BY <1>0, <3>1 DEF CleanupLook, FlagType, flags, channel, others
    <3>2. CASE CleanupRemove
      BY <1>0, <3>2 DEF CleanupRemove, FlagType, flags, channel
    <3>3. CASE QuitCalled
      BY <1>0, <3>3 DEF QuitCalled, FlagType, flags, channel, roster
    <3>4. CASE Sweep
      BY <1>0, <3>4 DEF Sweep, FlagType, flags, channel, roster, livenessDecision
    <3>5. CASE Kill
      BY <1>0, <3>5 DEF Kill, FlagType, flags, channel, roster
    <3>6. CASE TimePasses \/ Line
      BY <1>0, <3>6 DEF TimePasses, Line, FlagType, flags, channel, roster, others
    <3> QED
      BY <1>4, <3>1, <3>2, <3>3, <3>4, <3>5, <3>6 DEF Watchdog
  <2>3. left' \in [Bounded -> Nat]
    <3>1. "quit" \in Trouble /\ "lull" \in Trouble
      BY DEF Trouble
    <3>2. UNCHANGED left \/ \E t \in Trouble : Spend(t)
      BY <1>4, <3>1 DEF CleanupLook, CleanupRemove, QuitCalled, Watchdog, Sweep, Kill, TimePasses, Line
    <3> QED
      BY <1>0, <3>2, SpendType DEF RestType
  <2>4. closing' \subseteq Conns
    <3>1. CASE Kill
      BY <1>0, <3>1 DEF Kill, RestType, NetType
    <3>2. CASE ~Kill
      BY <1>0, <1>4, <3>2 DEF CleanupLook, CleanupRemove, QuitCalled, Watchdog, Sweep, TimePasses, Line, RestType, others
    <3> QED
      BY <3>1, <3>2
  <2>5. RestType'
    BY <1>0, <1>4, <2>3, <2>4 DEF CleanupLook, CleanupRemove, QuitCalled, Watchdog, Sweep, Kill, TimePasses, Line, RestType,
       roster, others, livenessDecision
  <2> QED
    BY <2>1, <2>2, <2>5 DEF Basic
<1> QED
  BY <1>1, <1>2, <1>3, <1>4 DEF Removal

\* An attempt is counted as long as one is left, and the limit stays.
LEMMA AttemptTypes == ASSUME TypeInv, Next PROVE Attempts'
<1>0. /\ left \in [Bounded -> Nat] /\ tries \in [Openers -> Nat]
      /\ left["retries"] # 0 /\ left["retries"] \in Nat /\ \A o \in Openers : tries[o] <= left["retries"]
      /\ "retries" \in Bounded /\ "retries" # "any" /\ "retries" # "rounds" /\ \A t \in Trouble : t # "retries"
  BY DEF TypeInv, Basic, OpenType, RestType, Attempts, Bounded, Trouble
<1>1. left'["retries"] = left["retries"]
  <2>1. ASSUME NEW t \in Trouble, Spend(t) PROVE left'["retries"] = left["retries"]
    BY <1>0, <2>1 DEF Spend
  <2>2. {"refuse", "slow", "drop", "silence", "reject", "ban", "lull", "reconnect", "quit"} \subseteq Trouble
    BY DEF Trouble
  <2>3. ASSUME NEW o \in Openers, Opener(o) PROVE left'["retries"] = left["retries"]
    BY <2>1, <2>2, <2>3 DEF Opener, Open, DialFails, DialDone, Connected, Timeout, Exhausted, CloseOld
  <2>4. CASE Retry
    BY <1>0, <2>4 DEF Retry
  <2>5. CASE Connect \/ Poll \/ StartBotsEnds \/ Backoff \/ Removal \/ Watchdog \/ Line
    BY <2>5 DEF Connect, Poll, StartBotsEnds, Backoff, ReconnectAnew, BackoffDecide, BackoffRetry, Removal, BanDisconnect,
       BanRemove, CleanupLook, CleanupRemove, Quit, Watchdog, Sweep, Kill, Line
  <2>6. CASE ReconnectCalled \/ QuitCalled \/ TimePasses
    BY <2>1, <2>2, <2>6 DEF ReconnectCalled, QuitCalled, TimePasses
  <2>7. ASSUME NEW c \in Conns, Callback(c) \/ Server(c) \/ Close(c) PROVE left'["retries"] = left["retries"]
    BY <2>7 DEF Callback, Recv001, Welcomed, RecvBan, RecvError, RecvDisconnected, Server, LoopReconnect, Welcome,
       QuitAnswered, Close
  <2>8. ASSUME NEW c \in Conns, Ends(c) \/ FallSilent(c) PROVE left'["retries"] = left["retries"]
    BY <2>1, <2>2, <2>8 DEF Ends, FallSilent
  <2> QED
    BY <2>3, <2>4, <2>5, <2>6, <2>7, <2>8 DEF Next, Starting
<1>2. \/ tries' = tries
      \/ \E o \in Openers : tries' = [tries EXCEPT ![o] = 0]
      \/ \E o \in Openers : tries[o] < left["retries"] /\ tries' = [tries EXCEPT ![o] = tries[o] + 1]
  <2>1. ASSUME NEW o \in Openers, Opener(o)
        PROVE  \/ tries' = tries \/ tries' = [tries EXCEPT ![o] = 0]
               \/ tries[o] < left["retries"] /\ tries' = [tries EXCEPT ![o] = tries[o] + 1]
    BY <2>1 DEF Opener, Open, DialFails, DialDone, Connected, Succeed, Timeout, Exhausted, CloseOld
  <2>2. CASE Starting \/ Backoff \/ Removal \/ Watchdog
    BY <2>2 DEF Starting, Connect, Poll, Retry, StartBotsEnds, Backoff, ReconnectAnew, BackoffDecide, BackoffRetry, Removal,
       BanDisconnect, BanRemove, CleanupLook, CleanupRemove, Quit, Watchdog, Sweep, Kill, openers
  <2>3. CASE ReconnectCalled \/ QuitCalled \/ TimePasses \/ Line
    BY <2>3 DEF ReconnectCalled, QuitCalled, TimePasses, Line, openers
  <2>4. ASSUME NEW c \in Conns, Callback(c) PROVE tries' = tries
    BY <2>4 DEF Callback, Recv001, Welcomed, RecvBan, RecvError, RecvDisconnected, openers
  <2>5. ASSUME NEW c \in Conns, Server(c) \/ Close(c) \/ Ends(c) \/ FallSilent(c) PROVE tries' = tries
    BY <2>5 DEF Server, LoopReconnect, Welcome, QuitAnswered, Close, Ends, FallSilent, openers
  <2> QED
    BY <2>1, <2>2, <2>3, <2>4, <2>5 DEF Next
<1>3. \A o \in Openers : tries'[o] <= left["retries"]
  BY <1>0, <1>2
<1> QED
  BY <1>0, <1>1, <1>3 DEF Attempts

\* The history variables.
LEMMA HistTypes == ASSUME TypeInv, Next PROVE HistType'
<1>0. /\ crowded \in BOOLEAN /\ misled \in BOOLEAN /\ speaker \in Conns \cup {None} /\ cur \in Conns \cup {None}
      /\ at \in [Openers \cup {"ban"} -> Conns \cup {None}]
  BY DEF TypeInv, Basic, NetType, OpenType, HistType
<1>1. crowded' \in BOOLEAN /\ misled' \in BOOLEAN
  <2>1. ASSUME NEW o \in Openers, Opener(o) PROVE UNCHANGED <<crowded, misled>>
    BY <2>1 DEF Opener, Open, DialFails, DialDone, Connected, Timeout, Exhausted, CloseOld, history
  <2>2. CASE Connect \/ Retry \/ StartBotsEnds \/ Backoff \/ Removal \/ Watchdog
    BY <1>0, <2>2 DEF Connect, Retry, StartBotsEnds, Backoff, ReconnectAnew, BackoffDecide, BackoffRetry, Removal,
       BanDisconnect, BanRemove, CleanupLook, CleanupRemove, Quit, Watchdog, Sweep, Kill, history
  <2>3. CASE Poll \/ ReconnectCalled
    BY <1>0, <2>3 DEF Poll, ReconnectCalled, Crowds
  <2>4. CASE QuitCalled \/ TimePasses \/ Line
    BY <1>0, <2>4 DEF QuitCalled, TimePasses, Line, history
  <2>5. ASSUME NEW c \in Conns, Callback(c) PROVE crowded' \in BOOLEAN /\ misled' \in BOOLEAN
    BY <1>0, <2>5 DEF Callback, Recv001, Welcomed, RecvBan, RecvError, RecvDisconnected, Crowds, history
  <2>6. ASSUME NEW c \in Conns, Server(c) \/ Close(c) \/ Ends(c) \/ FallSilent(c) PROVE UNCHANGED <<crowded, misled>>
    BY <2>6 DEF Server, LoopReconnect, Welcome, QuitAnswered, Close, Ends, FallSilent, history
  <2> QED
    BY <1>0, <2>1, <2>2, <2>3, <2>4, <2>5, <2>6 DEF Next, Starting
<1>2. speaker' \in Conns \cup {None}
  <2>1. ASSUME NEW o \in Openers, Opener(o) PROVE speaker' \in {None, speaker, cur, at[o]}
    BY <2>1 DEF Opener, Open, DialFails, DialDone, Connected, Timeout, Exhausted, CloseOld, Speaks, history
  <2>2. CASE Starting \/ Backoff \/ Removal \/ Watchdog
    BY <1>0, <2>2 DEF Starting, Connect, Poll, Retry, StartBotsEnds, Backoff, ReconnectAnew, BackoffDecide, BackoffRetry,
       Removal, BanDisconnect, BanRemove, CleanupLook, CleanupRemove, Quit, QuitEffect, Watchdog, Sweep, Kill, Speaks, history
  <2>3. CASE ReconnectCalled \/ QuitCalled \/ TimePasses \/ Line
    BY <1>0, <2>3 DEF ReconnectCalled, QuitCalled, TimePasses, Line, history
  <2>4. ASSUME NEW c \in Conns, Callback(c) PROVE speaker' \in {speaker, c}
    BY <2>4 DEF Callback, Recv001, Welcomed, RecvBan, RecvError, RecvDisconnected, Speaks, history
  <2>5. ASSUME NEW c \in Conns, Server(c) \/ Close(c) \/ Ends(c) \/ FallSilent(c) PROVE speaker' = speaker
    BY <2>5 DEF Server, LoopReconnect, Welcome, QuitAnswered, Close, Ends, FallSilent, history
  <2> QED
    BY <1>0, <2>1, <2>2, <2>3, <2>4, <2>5 DEF Next
<1> QED
  BY <1>1, <1>2 DEF HistType

\* Every step keeps the types.
LEMMA StepTypes == TypeInv /\ [Next]_vars => TypeInv'
<1>1. ASSUME TypeInv, Next PROVE TypeInv'
  <2>1. Basic
    BY <1>1 DEF TypeInv
  <2>2. Basic'
    BY <1>1, <2>1, OpenerTypes, StartTypes, CallbackTypes, NetTypes, RestTypes DEF Next
  <2> QED
    BY <1>1, <2>2, AttemptTypes, HistTypes DEF TypeInv
<1>2. ASSUME TypeInv, UNCHANGED vars PROVE TypeInv'
  BY <1>2 DEF vars, net, flags, channel, openers, roster, others, history, TypeInv, Basic, NetType, FlagType, OpenType,
     RestType, Attempts, HistType
<1> QED
  BY <1>1, <1>2

\* Every reachable state is well typed: no attempt beyond the last, no event
\* and no phase that the code does not know.
THEOREM TypeCorrect == Spec => []TypeOK
<1>1. Spec => []TypeInv
  BY InitTypes, StepTypes, PTL DEF Spec
<1> QED
  BY <1>1, Types, PTL

-----------------------------------------------------------------------------
(* One opener at a time. *)

\* A connection that is being dialled is b.Connection and new.
Dialing(o) == pc[o] = "dial" => cur \in Conns /\ at[o] = cur /\ link[cur] = "none" /\ cur \notin looping

\* Who opens another connection has stopped the last one.
Spent(o) == pc[o] \in {"connect", "open", "retry", "drain", "cool"} /\ cur \in looping => cur \in latched

Single ==
  /\ \A o, p \in Openers : Busy(o) /\ Busy(p) => o = p
  /\ \A o \in Openers : Dialing(o) /\ Spent(o)
  /\ \A c \in Conns : link[c] # "none" => c \in looping
  /\ \A c \in looping \ {cur} : c \in latched
  /\ ~panicked

\* A step that leaves the openers alone.
LEMMA QuietSingle ==
  ASSUME Single, cur' = cur, looping' = looping, panicked' = panicked, pc' = pc, latched \subseteq latched',
         \A c \in Conns : link'[c] = "none" <=> link[c] = "none",
         \A o \in Openers : at'[o] = at[o]
  PROVE  Single'
<1>1. \A o \in Openers : Dialing(o)' /\ Spent(o)'
  BY DEF Single, Dialing, Spent
<1> QED
  BY <1>1 DEF Single, Busy

\* An opener that goes on, or begins alone, other than to dial.
LEMMA MoveSingle ==
  ASSUME OpenType, Single, NEW o \in Openers, NEW l \in Phase \ {"dial"}, Goto(o, l),
         Busy(o) \/ \A p \in Openers \ {o} : ~Busy(p),
         looping' = looping, panicked' = panicked, latched \subseteq latched',
         cur' = cur \/ (cur' = None /\ (cur \in looping => cur \in latched)),
         \A c \in Conns : link'[c] = "none" <=> link[c] = "none",
         \A p \in Openers \ {o} : at'[p] = at[p],
         l \in {"connect", "open", "retry", "drain", "cool"} /\ cur' \in looping => cur' \in latched'
  PROVE  Single'
<1>1. pc'[o] = l /\ \A p \in Openers \ {o} : pc'[p] = pc[p] /\ ~Busy(p)
  BY DEF OpenType, Goto, Single
<1>2. \A p, q \in Openers : Busy(p)' /\ Busy(q)' => p = q
  BY <1>1 DEF Busy
<1>3. \A p \in Openers : Dialing(p)' /\ Spent(p)'
  BY <1>1 DEF Dialing, Spent, Busy
<1>4. \A c \in looping' \ {cur'} : c \in latched'
  BY DEF Single
<1> QED
  BY <1>2, <1>3, <1>4 DEF Single

\* What the library does to a connection leaves its state "none" alone.
LEMMA DisconnectNone ==
  ASSUME NetType, NEW d, Disconnect(d) PROVE \A c \in Conns : link'[c] = "none" <=> link[c] = "none"
BY DEF NetType, Disconnect, Down, Active

\* connectWithRetry.
LEMMA OpenerSingle == ASSUME TypeInv, Single, NEW o \in Openers, Opener(o) PROVE Single'
<1>0. NetType /\ OpenType /\ None \notin Conns /\ Busy(o) = (pc[o] \notin {"idle", "done"})
      /\ {"idle", "poll", "open", "retry", "drain", "wait"} \subseteq Phase \ {"dial"} /\ "dial" \in Phase
      /\ looping \subseteq Conns
  BY DEF TypeInv, Basic, Busy, Phase, NetType
<1>1. CASE Open(o)
  <2>1. PICK c \in Conns : Free(c) /\ c = CHOOSE d \in Conns : Free(d)
    BY <1>1 DEF Open
  <2>2. /\ cur' = c /\ at' = [at EXCEPT ![o] = c] /\ link' = [link EXCEPT ![c] = "none"]
        /\ latched' = latched \ {c} /\ looping' = looping \ {c} /\ pc' = [pc EXCEPT ![o] = "dial"]
        /\ panicked' = panicked /\ pc[o] = "open"
    BY <1>1, <2>1 DEF Open, Goto
  <2>3. /\ pc'[o] = "dial" /\ at'[o] = c /\ link'[c] = "none"
        /\ \A p \in Openers \ {o} : pc'[p] = pc[p] /\ ~Busy(p)
        /\ \A d \in Conns \ {c} : link'[d] = link[d]
    BY <1>0, <2>2 DEF OpenType, NetType, Single
  <2>4. \A p, q \in Openers : Busy(p)' /\ Busy(q)' => p = q
    BY <2>3 DEF Busy
  <2>5. \A p \in Openers : Dialing(p)' /\ Spent(p)'
    BY <2>2, <2>3 DEF Dialing, Spent, Busy
  <2>6. \A d \in Conns : link'[d] # "none" => d \in looping'
    BY <2>2, <2>3 DEF Single
  <2>7. \A d \in looping' \ {cur'} : d \in latched'
    <3>1. cur \in looping => cur \in latched
      BY <2>2 DEF Single, Spent
    <3> QED
      BY <2>2, <3>1 DEF Single
  <2> QED
    BY <2>2, <2>4, <2>5, <2>6, <2>7 DEF Single
<1>2. CASE DialFails(o)
  <2>1. pc[o] = "dial" /\ cur \notin looping
    BY <1>2 DEF DialFails, Single, Dialing
  <2> QED
    BY <1>0, <1>2, <2>1, MoveSingle DEF DialFails, net, OpenType
<1>3. CASE DialDone(o)
  <2>1. /\ pc[o] = "dial" /\ cur \in Conns /\ at[o] = cur
        /\ link' = [link EXCEPT ![cur] = "open"] /\ at' = [at EXCEPT ![o] = None] /\ looping' = looping \cup {cur}
        /\ panicked' = panicked /\ cur' = cur /\ latched' = latched /\ pc' = [pc EXCEPT ![o] = "wait"]
    <3>1. /\ pc[o] = "dial" /\ link' = [link EXCEPT ![at[o]] = "open"] /\ at' = [at EXCEPT ![o] = None]
          /\ looping' = looping \cup ({cur} \ {None}) /\ panicked' = (panicked \/ cur = None) /\ cur' = cur
          /\ latched' = latched /\ pc' = [pc EXCEPT ![o] = "wait"]
      BY <1>3 DEF DialDone, Goto
    <3>2. cur \in Conns /\ at[o] = cur /\ ~panicked /\ panicked \in BOOLEAN
      BY <3>1 DEF Single, Dialing, TypeInv, Basic, FlagType
    <3>3. cur # None
      BY <1>0, <3>2
    <3> QED
      BY <3>1, <3>2, <3>3
  <2>2. pc'[o] = "wait" /\ \A p \in Openers \ {o} : pc'[p] = pc[p] /\ ~Busy(p)
    BY <1>0, <2>1 DEF OpenType, Single
  <2>3. \A p, q \in Openers : Busy(p)' /\ Busy(q)' => p = q
    BY <2>2 DEF Busy
  <2>4. \A p \in Openers : Dialing(p)' /\ Spent(p)'
    BY <2>2 DEF Dialing, Spent, Busy
  <2>5. \A d \in Conns : link'[d] # "none" => d \in looping'
    BY <1>0, <2>1 DEF Single, NetType
  <2> QED
    BY <2>1, <2>3, <2>4, <2>5 DEF Single
<1>4. CASE Connected(o)
  <2>1. \E l \in {"poll", "idle"} : Goto(o, l)
    BY <1>4 DEF Connected, Succeed
  <2>2. pc[o] = "wait" /\ cur' = cur /\ link' = link /\ latched' = latched /\ looping' = looping /\ at' = at
        /\ panicked' = panicked
    BY <1>4 DEF Connected, net
  <2> QED
    BY <1>0, <2>1, <2>2, MoveSingle
<1>5. CASE Timeout(o)
  <2>1. pc[o] = "wait" /\ Goto(o, "open") /\ cur' = cur /\ link' = link /\ looping' = looping /\ at' = at
        /\ latched' = latched \cup ({cur} \ {None}) /\ panicked' = panicked
    BY <1>5 DEF Timeout, LibQuit
  <2> QED
    BY <1>0, <2>1, MoveSingle
<1>6. CASE Exhausted(o)
  <2>1. pc[o] = "open" /\ cur' = cur /\ link' = link /\ looping' = looping /\ at' = at /\ panicked' = panicked
        /\ (Goto(o, "retry") \/ Goto(o, "idle")) /\ latched \subseteq latched'
    BY <1>6 DEF Exhausted, LibQuit
  <2>2. cur \in looping => cur \in latched
    BY <2>1 DEF Single, Spent
  <2> QED
    BY <1>0, <2>1, <2>2, MoveSingle
<1>7. CASE CloseOld(o)
  <2>1. pc[o] = "close" /\ Goto(o, "drain") /\ cur' = cur /\ looping' = looping /\ at' = [at EXCEPT ![o] = cur]
        /\ latched' = latched \cup ({cur} \ {None}) /\ panicked' = panicked /\ Disconnect(cur)
    BY <1>7 DEF CloseOld
  <2>2. \A p \in Openers \ {o} : at'[p] = at[p]
    BY <1>0, <2>1 DEF OpenType
  <2>3. \A c \in Conns : link'[c] = "none" <=> link[c] = "none"
    BY <1>0, <2>1, DisconnectNone
  <2>4. "drain" \in Phase \ {"dial"} /\ Busy(o) /\ latched \subseteq latched'
    BY <1>0, <2>1
  <2>5. cur' \in looping => cur' \in latched'
    BY <1>0, <2>1
  <2> QED
    BY <1>0, <2>1, <2>2, <2>3, <2>4, <2>5, MoveSingle
<1> QED
  BY <1>1, <1>2, <1>3, <1>4, <1>5, <1>6, <1>7 DEF Opener

\* StartBots, Reconnect and the back-off.
LEMMA StartSingle ==
  ASSUME TypeInv, Single, Starting \/ Backoff \/ ReconnectCalled, ~crowded' PROVE Single'
<1>0. NetType /\ OpenType /\ None \notin Conns /\ looping \subseteq Conns /\ Openers = {"start", "reconnect", "tmhc"}
      /\ {"idle", "poll", "open", "retry", "drain", "cool", "close", "connect", "done"} \subseteq Phase \ {"dial"}
  BY DEF TypeInv, Basic, Phase, NetType, Openers
<1>1. CASE Connect
  <2>1. pc["start"] = "connect" /\ cur' = cur /\ link' = link /\ looping' = looping /\ at' = at /\ panicked' = panicked
        /\ (Goto("start", "poll") \/ Goto("start", "open")) /\ latched' = latched
    BY <1>1 DEF Connect, net
  <2>2. cur \in looping => cur \in latched
    BY <1>0, <2>1 DEF Single, Spent
  <2>3. Busy("start")
    BY <2>1 DEF Busy
  <2> QED
    BY <1>0, <2>1, <2>2, <2>3, MoveSingle
<1>2. CASE Poll
  <2>1. pc["start"] = "poll" /\ cur' = cur /\ link' = link /\ looping' = looping /\ at' = at /\ panicked' = panicked
        /\ latched' = latched /\ Goto("start", IF IsConnected THEN "done" ELSE "retry")
        /\ (IsConnected \/ cur \notin looping \ latched)
    BY <1>2 DEF Poll, net
  <2>2. Busy("start")
    BY <2>1 DEF Busy
  <2> QED
    BY <1>0, <2>1, <2>2, MoveSingle
<1>3. CASE Retry
  <2>1. pc["start"] = "retry" /\ cur' = cur /\ link' = link /\ looping' = looping /\ at' = at /\ panicked' = panicked
        /\ (Goto("start", "connect") \/ Goto("start", "done")) /\ latched \subseteq latched'
    BY <1>3 DEF Retry, QuitEffect, LibQuit
  <2>2. cur \in looping => cur \in latched
    BY <1>0, <2>1 DEF Single, Spent
  <2>3. Busy("start")
    BY <2>1 DEF Busy
  <2> QED
    BY <1>0, <2>1, <2>2, <2>3, MoveSingle
<1>4. CASE StartBotsEnds
  BY <1>4, QuietSingle DEF StartBotsEnds, net, openers
<1>5. CASE ReconnectAnew
  <2>1. pc["reconnect"] = "drain" /\ cur' = None /\ link' = link /\ looping' = looping /\ latched' = latched
        /\ panicked' = panicked /\ Goto("reconnect", "open") /\ at' = [at EXCEPT !["reconnect"] = None]
    BY <1>5 DEF ReconnectAnew, net
  <2>2. cur \in looping => cur \in latched
    BY <1>0, <2>1 DEF Single, Spent
  <2>3. Busy("reconnect") /\ \A p \in Openers \ {"reconnect"} : at'[p] = at[p]
    BY <1>0, <2>1 DEF Busy, OpenType
  <2> QED
    BY <1>0, <2>1, <2>2, <2>3, MoveSingle
<1>6. CASE BackoffDecide
  <2>1. pc["tmhc"] = "drain" /\ cur' = cur /\ link' = link /\ looping' = looping /\ latched \subseteq latched'
        /\ panicked' = panicked /\ (Goto("tmhc", "idle") \/ Goto("tmhc", "cool")) /\ at' = [at EXCEPT !["tmhc"] = None]
    BY <1>6 DEF BackoffDecide, QuitEffect, LibQuit
  <2>2. cur \in looping => cur \in latched
    BY <1>0, <2>1 DEF Single, Spent
  <2>3. Busy("tmhc") /\ \A p \in Openers \ {"tmhc"} : at'[p] = at[p]
    BY <1>0, <2>1 DEF Busy, OpenType
  <2> QED
    BY <1>0, <2>1, <2>2, <2>3, MoveSingle
<1>7. CASE BackoffRetry
  <2>1. pc["tmhc"] = "cool" /\ link' = link /\ looping' = looping /\ latched' = latched /\ panicked' = panicked /\ at' = at
        /\ \/ (Goto("tmhc", "idle") /\ cur' = cur)
           \/ (Goto("tmhc", "open") /\ cur' = None)
    BY <1>7 DEF BackoffRetry, net
  <2>2. cur \in looping => cur \in latched
    BY <1>0, <2>1 DEF Single, Spent
  <2>3. Busy("tmhc")
    BY <2>1 DEF Busy
  <2> QED
    BY <1>0, <2>1, <2>2, <2>3, MoveSingle
<1>8. CASE ReconnectCalled
  <2>1. Goto("reconnect", "close") /\ cur' = cur /\ link' = link /\ looping' = looping /\ latched' = latched
        /\ panicked' = panicked /\ at' = at /\ \A p \in Openers \ {"reconnect"} : ~Busy(p)
    BY <1>8 DEF ReconnectCalled, Crowds, net
  <2> QED
    BY <1>0, <2>1, MoveSingle
<1> QED
  BY <1>1, <1>2, <1>3, <1>4, <1>5, <1>6, <1>7, <1>8 DEF Starting, Backoff

\* The rest touches an opener only where an ERROR starts the back-off.
LEMMA RestSingle ==
  ASSUME TypeInv, Single, ~crowded',
         \/ Removal \/ Watchdog \/ QuitCalled \/ TimePasses \/ Line
         \/ \E c \in Conns : Callback(c) \/ Server(c) \/ Ends(c) \/ FallSilent(c) \/ Close(c)
  PROVE  Single'
<1>0. NetType /\ OpenType /\ Openers = {"start", "reconnect", "tmhc"} /\ "close" \in Phase \ {"dial"}
  BY DEF TypeInv, Basic, Phase, Openers
<1>1. CASE Removal \/ Watchdog \/ QuitCalled \/ TimePasses \/ Line
  <2>1. cur' = cur /\ looping' = looping /\ panicked' = panicked /\ pc' = pc /\ latched \subseteq latched'
    BY <1>1 DEF Removal, BanDisconnect, BanRemove, CleanupLook, CleanupRemove, Quit, QuitEffect, LibQuit, Watchdog, Sweep,
       Kill, QuitCalled, TimePasses, Line, net, openers
  <2>2. \A o \in Openers : at'[o] = at[o]
    BY <1>0, <1>1 DEF Removal, BanDisconnect, BanRemove, CleanupLook, CleanupRemove, Quit, Watchdog, Sweep, Kill, QuitCalled,
       TimePasses, Line, openers, OpenType
  <2>3. link' = link \/ Disconnect(cur)
    BY <1>1 DEF Removal, BanDisconnect, BanRemove, CleanupLook, CleanupRemove, Quit, Watchdog, Sweep, Kill, QuitCalled,
       TimePasses, Line, net
  <2>4. \A c \in Conns : link'[c] = "none" <=> link[c] = "none"
    BY <1>0, <2>3, DisconnectNone
  <2> QED
    BY <2>1, <2>2, <2>4, QuietSingle
<1>2. ASSUME NEW c \in Conns, Callback(c) PROVE Single'
  <2>1. cur' = cur /\ looping' = looping /\ panicked' = panicked /\ latched \subseteq latched' /\ at' = at /\ link' = link
    BY <1>2 DEF Callback, Recv001, Welcomed, RecvBan, RecvError, RecvDisconnected, openers
  <2>2. CASE pc' = pc
    BY <2>1, <2>2, QuietSingle
  <2>3. CASE pc' # pc
    <3>1. Goto("tmhc", "close") /\ \A p \in Openers \ {"tmhc"} : ~Busy(p)
      BY <1>2, <2>3 DEF Callback, Recv001, Welcomed, RecvBan, RecvError, RecvDisconnected, openers, Crowds
    <3> QED
      BY <1>0, <2>1, <3>1, MoveSingle
  <2> QED
    BY <2>2, <2>3
<1>3. ASSUME NEW c \in Conns, Server(c) \/ Ends(c) \/ FallSilent(c) \/ Close(c) PROVE Single'
  <2>1. cur' = cur /\ looping' = looping /\ panicked' = panicked /\ latched' = latched /\ at' = at /\ pc' = pc
    BY <1>3 DEF Server, LoopReconnect, Welcome, QuitAnswered, Ends, FallSilent, Close, openers
  <2>2. \A d \in Conns : link'[d] = "none" <=> link[d] = "none"
    <3>1. CASE Close(c)
      BY <1>0, <3>1, DisconnectNone DEF Close
    <3>2. CASE ~Close(c)
      BY <1>0, <1>3, <3>2 DEF Server, LoopReconnect, Welcome, QuitAnswered, Ends, FallSilent, Down, NetType
    <3> QED
      BY <3>1, <3>2
  <2> QED
    BY <2>1, <2>2, QuietSingle
<1> QED
  BY <1>1, <1>2, <1>3

\* As long as one opens at a time, one does it right.
LEMMA SingleAlways == Spec => [](crowded \/ Single)
<1>1. Init => Single
  <2>1. ASSUME Init PROVE \A o \in Openers : Dialing(o) /\ Spent(o)
    BY <2>1 DEF Init, Dialing, Spent
  <2>2. ASSUME Init PROVE \A o, p \in Openers : Busy(o) /\ Busy(p) => o = p
    BY <2>2 DEF Init, Busy
  <2> QED
    BY <2>1, <2>2 DEF Init, Single
<1>2. TypeInv /\ (crowded \/ Single) /\ [Next]_vars => (crowded \/ Single)'
  <2>1. ASSUME TypeInv, Next PROVE crowded => crowded'
    <3>1. ASSUME NEW o \in Openers, Opener(o) PROVE crowded' = crowded
      BY <3>1 DEF Opener, Open, DialFails, DialDone, Connected, Timeout, Exhausted, CloseOld, history
    <3>2. CASE Starting \/ Backoff \/ Removal \/ Watchdog
      BY <3>2 DEF Starting, Connect, Poll, Retry, StartBotsEnds, Backoff, ReconnectAnew, BackoffDecide, BackoffRetry,
         Removal, BanDisconnect, BanRemove, CleanupLook, CleanupRemove, Quit, Watchdog, Sweep, Kill, history
    <3>3. CASE ReconnectCalled \/ QuitCalled \/ TimePasses \/ Line
      BY <3>3 DEF ReconnectCalled, Crowds, QuitCalled, TimePasses, Line, history
    <3>4. ASSUME NEW c \in Conns, Callback(c) PROVE crowded => crowded'
      BY <3>4 DEF Callback, Recv001, Welcomed, RecvBan, RecvError, RecvDisconnected, Crowds, history
    <3>5. ASSUME NEW c \in Conns, Server(c) \/ Close(c) \/ Ends(c) \/ FallSilent(c) PROVE crowded' = crowded
      BY <3>5 DEF Server, LoopReconnect, Welcome, QuitAnswered, Close, Ends, FallSilent, history
    <3> QED
      BY <2>1, <3>1, <3>2, <3>3, <3>4, <3>5 DEF Next
  <2>2. ASSUME TypeInv, Single, Next, ~crowded' PROVE Single'
    BY <2>2, OpenerSingle, StartSingle, RestSingle DEF Next
  <2>3. ASSUME crowded \/ Single, UNCHANGED vars PROVE (crowded \/ Single)'
    BY <2>3, QuietSingle DEF vars, net, openers, history
  <2> QED
    BY <2>1, <2>2, <2>3
<1>3. Spec => []TypeInv
  BY InitTypes, StepTypes, PTL DEF Spec
<1> QED
  BY <1>1, <1>2, <1>3, PTL DEF Spec

\* A connection that the bot has left behind is on its way out and does not come
\* back, unless two have been opening connections at a time.
THEOREM OneConnectionHolds == Spec => []OneConnection
<1>1. crowded \/ Single => OneConnection
  BY DEF Single, OneConnection, Alone, Active
<1> QED
  BY <1>1, SingleAlways, PTL

\* connectWithRetry never finds b.Connection nil where it calls Loop, unless two
\* have been opening connections at a time.
THEOREM NeverNilHolds == Spec => []NeverNil
<1>1. crowded \/ Single => NeverNil
  BY DEF Single, NeverNil
<1> QED
  BY <1>1, SingleAlways, PTL

-----------------------------------------------------------------------------
(* What isConnected is about. *)

Has(s, e) == \E i \in DOMAIN s : s[i] = e
Last == "DISCONNECTED"

\* The events that a connection may have for its callbacks.
Shape(l, s) ==
  \/ l \in {"none", "open"} /\ s = <<>>
  \/ l \in {"up", "silent"} /\ s \in {<<>>, <<"001">>, <<"welcomed">>}
  \/ l = "down" /\ s \in {<<>>, <<Last>>, <<"465", Last>>, <<"ERROR", Last>>, <<"001", Last>>, <<"welcomed", Last>>,
                          <<"001", "465", Last>>, <<"welcomed", "465", Last>>}
Wires == \A c \in Conns : Shape(link[c], inbox[c])

\* Nothing is known of a connection that is being dialled, and one dials it.
Dialed ==
  /\ \A o \in Openers : pc[o] = "dial" => at[o] \in Conns /\ link[at[o]] = "none"
  /\ \A o, p \in Openers : pc[o] = "dial" /\ pc[p] = "dial" /\ at[o] = at[p] => o = p

\* isConnected, set for b.Connection, follows it as the events come.
Follows ==
  /\ isConnected => link[cur] \in {"up", "silent"} \/ Has(inbox[cur], Last)
  /\ link[cur] \in {"up", "silent"} =>
       isConnected \/ Has(inbox[cur], "001") \/ Has(inbox[cur], "welcomed") \/ cur \in bye \cup closing
Told == cur # None /\ speaker = cur => Follows

\* Short sequences: their heads and tails,
LEMMA Tuples ==
  /\ \A a : Head(<<a>>) = a /\ Tail(<<a>>) = <<>> /\ <<a>> # <<>>
  /\ \A a, b : Head(<<a, b>>) = a /\ Tail(<<a, b>>) = <<b>> /\ <<a, b>> # <<>>
  /\ \A a, b, c : Head(<<a, b, c>>) = a /\ Tail(<<a, b, c>>) = <<b, c>> /\ <<a, b, c>> # <<>>
OBVIOUS

\* what they have,
LEMMA HasTuples ==
  /\ \A e : ~Has(<<>>, e)
  /\ \A a, e : Has(<<a>>, e) <=> e = a
  /\ \A a, b, e : Has(<<a, b>>, e) <=> e = a \/ e = b
  /\ \A a, b, c, e : Has(<<a, b, c>>, e) <=> e = a \/ e = b \/ e = c
<1>1. ASSUME NEW e PROVE ~Has(<<>>, e)
  BY DEF Has
<1>2. ASSUME NEW a, NEW e PROVE Has(<<a>>, e) <=> e = a
  BY DEF Has
<1>3. ASSUME NEW a, NEW b, NEW e PROVE Has(<<a, b>>, e) <=> e = a \/ e = b
  BY DEF Has
<1>4. ASSUME NEW a, NEW b, NEW c, NEW e PROVE Has(<<a, b, c>>, e) <=> e = a \/ e = b \/ e = c
  <2>1. DOMAIN <<a, b, c>> = {1, 2, 3}
    OBVIOUS
  <2> QED
    BY <2>1 DEF Has
<1> QED
  BY <1>1, <1>2, <1>3, <1>4

\* and what they are put together to.
LEMMA Cats ==
  /\ <<>> \o <<>> = <<>> /\ \A a : <<>> \o <<a>> = <<a>> /\ <<a>> \o <<>> = <<a>>
  /\ \A a, b : <<a>> \o <<b>> = <<a, b>>
  /\ \A a, b, c : <<a, b>> \o <<c>> = <<a, b, c>>
<1>1. ASSUME NEW a PROVE <<>> \o <<>> = <<>> /\ <<>> \o <<a>> = <<a>> /\ <<a>> \o <<>> = <<a>>
  <2>1. <<a>> \in Seq({a}) /\ <<>> \in Seq({a})
    OBVIOUS
  <2> QED
    BY <2>1, ConcatEmptySeq
<1>2. ASSUME NEW a, NEW b PROVE <<a>> \o <<b>> = <<a, b>>
  <2> DEFINE x == <<a>> \o <<b>>
             y == <<a, b>>
  <2>1. x \in Seq({a, b}) /\ y \in Seq({a, b}) /\ Len(x) = 2 /\ Len(y) = 2 /\ x[1] = y[1] /\ x[2] = y[2]
    OBVIOUS
  <2> HIDE DEF x, y
  <2>2. \A i \in 1 .. Len(x) : x[i] = y[i]
    BY <2>1
  <2> QED
    BY <2>1, <2>2, SeqEqual DEF x, y
<1>3. ASSUME NEW a, NEW b, NEW c PROVE <<a, b>> \o <<c>> = <<a, b, c>>
  <2> DEFINE x == <<a, b>> \o <<c>>
             y == <<a, b, c>>
  <2>1. x \in Seq({a, b, c}) /\ y \in Seq({a, b, c}) /\ Len(x) = 3 /\ Len(y) = 3
        /\ x[1] = y[1] /\ x[2] = y[2] /\ x[3] = y[3]
    OBVIOUS
  <2> HIDE DEF x, y
  <2>2. \A i \in 1 .. Len(x) : x[i] = y[i]
    BY <2>1
  <2> QED
    BY <2>1, <2>2, SeqEqual DEF x, y
<1> QED
  BY <1>1, <1>2, <1>3

\* A callback takes the first event.
LEMMA TailShape ==
  ASSUME NEW l, NEW s, Shape(l, s), s # <<>>
  PROVE  /\ Shape(l, Tail(s))
         /\ \A e : Has(Tail(s), e) => Has(s, e)
         /\ \A e : Has(s, e) /\ Head(s) # e => Has(Tail(s), e)
         /\ Has(s, Head(s))
         /\ Head(s) \in {"465", "ERROR"} => ~Has(Tail(s), "welcomed") /\ ~Has(Tail(s), "001")
         /\ Head(s) = Last => Tail(s) = <<>>
<1>1. ASSUME NEW a, s = <<a>>
      PROVE  /\ Head(s) = a /\ Tail(s) = <<>>
             /\ \A e : (Has(s, e) <=> e = a) /\ ~Has(Tail(s), e)
  BY <1>1, Tuples, HasTuples
<1>2. ASSUME NEW a, NEW b, s = <<a, b>>
      PROVE  /\ Head(s) = a /\ Tail(s) = <<b>>
             /\ \A e : (Has(s, e) <=> e = a \/ e = b) /\ (Has(Tail(s), e) <=> e = b)
  BY <1>2, Tuples, HasTuples
<1>3. ASSUME NEW a, NEW b, NEW c, s = <<a, b, c>>
      PROVE  /\ Head(s) = a /\ Tail(s) = <<b, c>>
             /\ \A e : (Has(s, e) <=> e = a \/ e = b \/ e = c) /\ (Has(Tail(s), e) <=> e = b \/ e = c)
  BY <1>3, Tuples, HasTuples
<1>4. CASE l \in {"up", "silent"}
  <2>1. PICK a \in {"001", "welcomed"} : s = <<a>>
    BY <1>4 DEF Shape
  <2>2. Shape(l, <<>>)
    BY <1>4 DEF Shape
  <2> QED
    BY <1>1, <2>1, <2>2 DEF Last
<1>5. CASE l = "down" /\ s = <<Last>>
  <2>1. Shape(l, <<>>)
    BY <1>5 DEF Shape
  <2> QED
    BY <1>1, <1>5, <2>1 DEF Last
<1>6. ASSUME l = "down", NEW a \in {"465", "ERROR", "001", "welcomed"}, s = <<a, Last>>
      PROVE  /\ Shape(l, Tail(s))
             /\ \A e : Has(Tail(s), e) => Has(s, e)
             /\ \A e : Has(s, e) /\ Head(s) # e => Has(Tail(s), e)
             /\ Has(s, Head(s))
             /\ Head(s) \in {"465", "ERROR"} => ~Has(Tail(s), "welcomed") /\ ~Has(Tail(s), "001")
             /\ Head(s) # Last
  <2>1. Shape(l, <<Last>>)
    BY <1>6 DEF Shape
  <2> QED
    BY <1>2, <1>6, <2>1 DEF Last
<1>7. ASSUME l = "down", NEW a \in {"001", "welcomed"}, s = <<a, "465", Last>>
      PROVE  /\ Shape(l, Tail(s))
             /\ \A e : Has(Tail(s), e) => Has(s, e)
             /\ \A e : Has(s, e) /\ Head(s) # e => Has(Tail(s), e)
             /\ Has(s, Head(s))
             /\ Head(s) = a /\ a # Last
  <2>1. Shape(l, <<"465", Last>>)
    BY <1>7 DEF Shape
  <2> QED
    BY <1>3, <1>7, <2>1 DEF Last
<1>8. \/ l \in {"up", "silent"}
      \/ l = "down" /\ s = <<Last>>
      \/ l = "down" /\ \E a \in {"465", "ERROR", "001", "welcomed"} : s = <<a, Last>>
      \/ l = "down" /\ \E a \in {"001", "welcomed"} : s = <<a, "465", Last>>
  <2>1. CASE l = "down"
    <3>1. \/ s = <<Last>>
          \/ s \in {<<"465", Last>>, <<"ERROR", Last>>, <<"001", Last>>, <<"welcomed", Last>>}
          \/ s \in {<<"001", "465", Last>>, <<"welcomed", "465", Last>>}
      BY <2>1 DEF Shape
    <3>2. CASE s \in {<<"465", Last>>, <<"ERROR", Last>>, <<"001", Last>>, <<"welcomed", Last>>}
      <4>1. \E a \in {"465", "ERROR", "001", "welcomed"} : s = <<a, Last>>
        BY <3>2
      <4> QED
        BY <2>1, <4>1
    <3>3. CASE s \in {<<"001", "465", Last>>, <<"welcomed", "465", Last>>}
      <4>1. \E a \in {"001", "welcomed"} : s = <<a, "465", Last>>
        BY <3>3
      <4> QED
        BY <2>1, <4>1
    <3> QED
      BY <2>1, <3>1, <3>2, <3>3
  <2>2. CASE l # "down"
    <3>1. l \in {"up", "silent"}
      BY <2>2 DEF Shape
    <3> QED
      BY <3>1
  <2> QED
    BY <2>1, <2>2
<1> QED
  BY <1>4, <1>5, <1>6, <1>7, <1>8

\* What a shape says.
LEMMA ShapeFacts ==
  ASSUME NEW l, NEW s, Shape(l, s)
  PROVE  /\ Has(s, Last) <=> l = "down" /\ s # <<>>
         /\ Has(s, "465") => l = "down" /\ s # <<>>
         /\ Has(s, "ERROR") => l = "down" /\ s # <<>>
         /\ Has(s, "001") => l \in {"up", "silent", "down"} /\ s # <<>>
         /\ Has(s, "welcomed") => l \in {"up", "silent", "down"} /\ s # <<>>
         /\ l \in {"none", "open"} => s = <<>>
         /\ l \in {"none", "open", "up", "silent", "down"}
         /\ l \in {"up", "silent"} /\ s # <<>> => Has(s, "001") \/ Has(s, "welcomed")
<1>1. CASE s = <<>>
  BY <1>1, HasTuples DEF Shape
<1>2. ASSUME l \in {"up", "silent"}, NEW a \in {"001", "welcomed"}, s = <<a>>
      PROVE  (\A e : Has(s, e) <=> e = a) /\ s # <<>>
  BY <1>2, Tuples, HasTuples
<1>3. CASE l \in {"up", "silent"} /\ s # <<>>
  <2>1. PICK a \in {"001", "welcomed"} : s = <<a>>
    BY <1>3 DEF Shape
  <2> QED
    BY <1>2, <1>3, <2>1 DEF Last
<1>4. CASE l = "down" /\ s # <<>>
  <2>1. Has(s, Last)
    <3>1. \A a, b : Has(<<Last>>, Last) /\ Has(<<a, Last>>, Last) /\ Has(<<a, b, Last>>, Last)
      BY HasTuples
    <3> QED
      BY <1>4, <3>1 DEF Shape
  <2> QED
    BY <1>4, <2>1
<1> QED
  BY <1>1, <1>3, <1>4 DEF Shape

\* The callback of 001 goes on.
LEMMA WelcomedShape ==
  ASSUME NEW l, NEW s, Shape(l, s), s # <<>>, Head(s) = "001"
  PROVE  LET r == [s EXCEPT ![1] = "welcomed"]
         IN  /\ Shape(l, r) /\ Has(r, "welcomed") /\ r # <<>>
             /\ \A e \in {"465", "ERROR", Last} : Has(r, e) <=> Has(s, e)
<1> DEFINE r == [s EXCEPT ![1] = "welcomed"]
<1>1. CASE s = <<"001">>
  <2>1. r = <<"welcomed">>
    BY <1>1
  <2>2. Shape(l, <<"welcomed">>)
    BY <1>1 DEF Shape, Last
  <2> HIDE DEF r
  <2> QED
    BY <1>1, <2>1, <2>2, Tuples, HasTuples DEF Last
<1>2. CASE s = <<"001", Last>>
  <2>1. r = <<"welcomed", Last>>
    BY <1>2
  <2>2. Shape(l, <<"welcomed", Last>>)
    BY <1>2 DEF Shape, Last
  <2>3. \A e : (Has(<<"001", Last>>, e) <=> e = "001" \/ e = Last) /\ (Has(<<"welcomed", Last>>, e) <=> e = "welcomed" \/ e = Last)
    BY HasTuples
  <2> HIDE DEF r
  <2> QED
    BY <1>2, <2>1, <2>2, <2>3, Tuples DEF Last
<1>3. CASE s = <<"001", "465", Last>>
  <2>1. r = <<"welcomed", "465", Last>>
    BY <1>3
  <2>2. Shape(l, <<"welcomed", "465", Last>>)
    BY <1>3 DEF Shape, Last
  <2> HIDE DEF r
  <2> QED
    BY <1>3, <2>1, <2>2, Tuples, HasTuples DEF Last
<1>4. s \in {<<"001">>, <<"001", Last>>, <<"001", "465", Last>>}
  BY DEF Shape, Last
<1> QED
  BY <1>1, <1>2, <1>3, <1>4

\* A connection goes down.
LEMMA DownShape ==
  ASSUME NEW l \in {"open", "up", "silent"}, NEW s, Shape(l, s),
         NEW last \in {<<>>, <<"465">>, <<"ERROR">>}, last = <<"ERROR">> => l = "open"
  PROVE  LET r == s \o last \o <<Last>>
         IN  /\ Shape("down", r) /\ Has(r, Last) /\ (last = <<"465">> => Has(r, "465"))
             /\ Has(r, "welcomed") => Has(s, "welcomed")
             /\ Has(r, "ERROR") => last = <<"ERROR">>
<1> DEFINE r == s \o last \o <<Last>>
<1>1. CASE s = <<>> /\ last = <<>>
  <2>1. r = <<Last>>
    BY <1>1, Cats
  <2>2. Shape("down", <<Last>>)
    BY DEF Shape
  <2> HIDE DEF r
  <2> QED
    BY <1>1, <2>1, <2>2, Tuples, HasTuples DEF r, Last
<1>2. CASE s = <<>> /\ last # <<>>
  <2>1. PICK a \in {"465", "ERROR"} : last = <<a>>
    BY <1>2
  <2>2. r = <<a, Last>>
    BY <1>2, <2>1, Cats
  <2>3. Shape("down", <<a, Last>>)
    BY DEF Shape
  <2>4. \A e : Has(<<a, Last>>, e) <=> e = a \/ e = Last
    BY HasTuples
  <2>5. a = "ERROR" => last = <<"ERROR">>
    BY <2>1
  <2>6. last = <<"465">> => a = "465"
    <3>1. Head(last) = a /\ (last = <<"465">> => Head(last) = "465")
      BY <2>1, Tuples
    <3> QED
      BY <3>1
  <2> HIDE DEF r
  <2> QED
    BY <2>2, <2>3, <2>4, <2>5, <2>6 DEF r, Last
<1>3. CASE s # <<>> /\ last = <<>>
  <2>1. PICK a \in {"001", "welcomed"} : s = <<a>>
    BY <1>3 DEF Shape
  <2>2. r = <<a, Last>>
    BY <1>3, <2>1, Cats
  <2>3. Shape("down", <<a, Last>>)
    BY DEF Shape
  <2>4. \A e : (Has(<<a, Last>>, e) <=> e = a \/ e = Last) /\ (Has(s, e) <=> e = a)
    BY <2>1, HasTuples
  <2> HIDE DEF r
  <2> QED
    BY <1>3, <2>2, <2>3, <2>4, Tuples DEF r, Last
<1>4. CASE s # <<>> /\ last = <<"465">>
  <2>1. PICK a \in {"001", "welcomed"} : s = <<a>>
    BY <1>4 DEF Shape
  <2>2. r = <<a, "465", Last>>
    <3>1. s \o last = <<a, "465">>
      BY <1>4, <2>1, Cats
    <3>2. <<a, "465">> \o <<Last>> = <<a, "465", Last>>
      BY Cats
    <3> QED
      BY <3>1, <3>2
  <2>3. Shape("down", <<a, "465", Last>>)
    BY DEF Shape
  <2>4. \A e : (Has(<<a, "465", Last>>, e) <=> e = a \/ e = "465" \/ e = Last) /\ (Has(s, e) <=> e = a)
    BY <2>1, HasTuples
  <2> HIDE DEF r
  <2> QED
    BY <1>4, <2>2, <2>3, <2>4, Tuples DEF r, Last
<1>5. last = <<"ERROR">> => s = <<>>
  BY DEF Shape
<1>6. last \in {<<>>, <<"465">>, <<"ERROR">>}
  OBVIOUS
<1> HIDE DEF r
<1> QED
  BY <1>1, <1>2, <1>3, <1>4, <1>5, <1>6 DEF r

-----------------------------------------------------------------------------
(* What a step does to a connection. *)

Moves(c, l, s) == link' = [link EXCEPT ![c] = l] /\ inbox' = [inbox EXCEPT ![c] = s]

\* The wires stay in shape.
LEMMA MoveWires ==
  ASSUME NetType, Wires, NEW c \in Conns, NEW l, NEW s, Shape(l, s), Moves(c, l, s) PROVE Wires'
<1>1. \A d \in Conns : link'[d] = (IF d = c THEN l ELSE link[d]) /\ inbox'[d] = (IF d = c THEN s ELSE inbox[d])
  BY DEF NetType, Moves
<1> QED
  BY <1>1 DEF Wires

\* A connection goes down, or is not up.
LEMMA DownMoves ==
  ASSUME NetType, Wires, NEW c \in Conns, link[c] \in Active,
         NEW last \in {<<>>, <<"465">>, <<"ERROR">>}, last = <<"ERROR">> => link[c] = "open", Down(c, last)
  PROVE  \E s : Moves(c, "down", s) /\ Shape("down", s) /\ Has(s, Last)
<1>1. link[c] \in {"open", "up", "silent"} /\ Shape(link[c], inbox[c])
  BY DEF Active, Wires
<1>2. Shape("down", inbox[c] \o last \o <<Last>>) /\ Has(inbox[c] \o last \o <<Last>>, Last)
  BY <1>1, DownShape
<1>3. Moves(c, "down", inbox[c] \o last \o <<Last>>)
  BY DEF Down, Moves, Last
<1> QED
  BY <1>2, <1>3

LEMMA DisconnectMoves ==
  ASSUME NetType, Wires, NEW c \in Conns \cup {None}, Disconnect(c)
  PROVE  \/ UNCHANGED <<link, inbox>> /\ (c # None => link[c] \notin Active)
         \/ c \in Conns /\ \E s : Moves(c, "down", s) /\ Shape("down", s) /\ Has(s, Last)
<1>1. CASE c # None /\ link[c] \in Active
  <2>1. Down(c, <<>>) /\ c \in Conns
    BY <1>1 DEF Disconnect
  <2>2. <<>> # <<"ERROR">> /\ <<>> \in {<<>>, <<"465">>, <<"ERROR">>}
    BY Tuples
  <2>3. \E s : Moves(c, "down", s) /\ Shape("down", s) /\ Has(s, Last)
    BY <1>1, <2>1, <2>2, DownMoves
  <2> QED
    BY <2>1, <2>3
<1>2. CASE ~(c # None /\ link[c] \in Active)
  BY <1>2 DEF Disconnect
<1> QED
  BY <1>1, <1>2

\* What the server and the network tell of an end.
LEMMA EndsDown ==
  ASSUME NEW c \in Conns, QuitAnswered(c) \/ Ends(c)
  PROVE  \E last \in {<<>>, <<"465">>, <<"ERROR">>} : Down(c, last) /\ (last = <<"ERROR">> => link[c] = "open")
<1>1. <<>> # <<"ERROR">>
  BY Tuples
<1>2. <<"465">> # <<"ERROR">>
  <2>1. <<"465">>[1] # <<"ERROR">>[1]
    OBVIOUS
  <2> QED
    BY <2>1
<1>3. \/ Down(c, <<>>) \/ Down(c, <<"465">>) \/ (Down(c, <<"ERROR">>) /\ link[c] = "open")
  BY DEF QuitAnswered, Ends
<1> QED
  BY <1>1, <1>2, <1>3

\* A callback takes its event.
LEMMA DoneMoves ==
  ASSUME NetType, Wires, NEW c \in Conns, NEW e, Take(c, e), link' = link
  PROVE  /\ Shape(link[c], inbox[c]) /\ inbox[c] # <<>> /\ Head(inbox[c]) = e
         /\ Done(c) => Moves(c, link[c], Tail(inbox[c]))
         /\ inbox' = [inbox EXCEPT ![c][1] = "welcomed"] => Moves(c, link[c], [inbox[c] EXCEPT ![1] = "welcomed"])
BY DEF NetType, Wires, Take, Done, Moves

-----------------------------------------------------------------------------
(* Wires. *)

LEMMA WiresStep == ASSUME TypeInv, Wires, Dialed, Next PROVE Wires'
<1>0. NetType /\ OpenType /\ cur \in Conns \cup {None}
  BY DEF TypeInv, Basic, NetType
<1>1. ASSUME UNCHANGED <<link, inbox>> PROVE Wires'
  BY <1>1 DEF Wires
<1>2. ASSUME NEW c \in Conns \cup {None}, Disconnect(c) PROVE Wires'
  BY <1>0, <1>1, <1>2, DisconnectMoves, MoveWires
<1>3. ASSUME NEW o \in Openers, Opener(o) PROVE Wires'
  <2>1. CASE Open(o)
    <3>1. PICK c \in Conns : Free(c) /\ c = CHOOSE d \in Conns : Free(d)
      BY <2>1 DEF Open
    <3>2. Moves(c, "none", <<>>)
      BY <1>0, <2>1, <3>1 DEF Open, Free, Moves, NetType
    <3>3. Shape("none", <<>>)
      BY DEF Shape
    <3> QED
      BY <1>0, <3>2, <3>3, MoveWires
  <2>2. CASE DialDone(o)
    <3>1. at[o] \in Conns /\ link[at[o]] = "none"
      BY <2>2 DEF DialDone, Dialed
    <3>2. inbox[at[o]] = <<>>
      BY <3>1 DEF Wires, Shape
    <3>3. Moves(at[o], "open", <<>>)
      BY <1>0, <2>2, <3>1, <3>2 DEF DialDone, Moves, NetType
    <3>4. Shape("open", <<>>)
      BY DEF Shape
    <3> QED
      BY <1>0, <3>1, <3>3, <3>4, MoveWires
  <2>3. CASE CloseOld(o)
    BY <1>0, <1>2, <2>3 DEF CloseOld
  <2>4. CASE DialFails(o) \/ Connected(o) \/ Timeout(o) \/ Exhausted(o)
    BY <1>1, <2>4 DEF DialFails, Connected, Timeout, Exhausted, net
  <2> QED
    BY <1>3, <2>1, <2>2, <2>3, <2>4 DEF Opener
<1>4. CASE Starting \/ Backoff \/ ReconnectCalled \/ Watchdog \/ QuitCalled \/ TimePasses \/ Line
  BY <1>1, <1>4 DEF Starting, Connect, Poll, Retry, StartBotsEnds, Backoff, ReconnectAnew, BackoffDecide, BackoffRetry,
     ReconnectCalled, Watchdog, Sweep, Kill, QuitCalled, TimePasses, Line, net
<1>5. CASE Removal
  <2>1. CASE BanDisconnect
    BY <1>0, <1>2, <2>1 DEF BanDisconnect
  <2>2. CASE ~BanDisconnect
    BY <1>1, <1>5, <2>2 DEF Removal, BanRemove, CleanupLook, CleanupRemove, Quit, net
  <2> QED
    BY <2>1, <2>2
<1>6. ASSUME NEW c \in Conns, Callback(c) PROVE Wires'
  <2>1. PICK e : Take(c, e) /\ link' = link /\ (Done(c) \/ (e = "001" /\ inbox' = [inbox EXCEPT ![c][1] = "welcomed"]))
    BY <1>6 DEF Callback, Recv001, Welcomed, RecvBan, RecvError, RecvDisconnected
  <2>2. Shape(link[c], inbox[c]) /\ inbox[c] # <<>> /\ Head(inbox[c]) = e
    BY <1>0, <2>1, DoneMoves
  <2>3. CASE Done(c)
    <3>1. Moves(c, link[c], Tail(inbox[c])) /\ Shape(link[c], Tail(inbox[c]))
      BY <1>0, <2>1, <2>2, <2>3, DoneMoves, TailShape
    <3> QED
      BY <1>0, <3>1, MoveWires
  <2>4. CASE e = "001" /\ inbox' = [inbox EXCEPT ![c][1] = "welcomed"]
    <3>1. Moves(c, link[c], [inbox[c] EXCEPT ![1] = "welcomed"]) /\ Shape(link[c], [inbox[c] EXCEPT ![1] = "welcomed"])
      BY <1>0, <2>1, <2>2, <2>4, DoneMoves, WelcomedShape
    <3> QED
      BY <1>0, <3>1, MoveWires
  <2> QED
    BY <2>1, <2>3, <2>4
<1>7. ASSUME NEW c \in Conns, Server(c) \/ Ends(c) \/ FallSilent(c) \/ Close(c) PROVE Wires'
  <2>1. CASE LoopReconnect(c)
    <3>1. Moves(c, "open", <<>>) /\ Shape("open", <<>>)
      BY <1>0, <2>1 DEF LoopReconnect, Moves, Shape, NetType
    <3> QED
      BY <1>0, <3>1, MoveWires
  <2>2. CASE Welcome(c)
    <3>1. inbox[c] = <<>>
      BY <2>2 DEF Welcome, Wires, Shape
    <3>2. Append(<<>>, "001") = <<"001">>
      OBVIOUS
    <3>3. Moves(c, "up", <<"001">>) /\ Shape("up", <<"001">>)
      BY <1>0, <2>2, <3>1, <3>2 DEF Welcome, Moves, Shape, NetType
    <3> QED
      BY <1>0, <3>3, MoveWires
  <2>3. CASE FallSilent(c)
    <3>1. link[c] = "up" /\ Moves(c, "silent", inbox[c])
      BY <1>0, <2>3 DEF FallSilent, Moves, NetType
    <3>2. Shape("silent", inbox[c])
      BY <3>1 DEF Wires, Shape
    <3> QED
      BY <1>0, <3>1, <3>2, MoveWires
  <2>4. CASE QuitAnswered(c) \/ Ends(c)
    <3>1. PICK last \in {<<>>, <<"465">>, <<"ERROR">>} : Down(c, last) /\ (last = <<"ERROR">> => link[c] = "open")
      BY <2>4, EndsDown
    <3>2. link[c] \in Active
      BY <2>4 DEF QuitAnswered, Ends, Active
    <3> QED
      BY <1>0, <3>1, <3>2, DownMoves, MoveWires
  <2>5. CASE Close(c)
    BY <1>2, <2>5 DEF Close
  <2> QED
    BY <1>7, <2>1, <2>2, <2>3, <2>4, <2>5 DEF Server
<1> QED
  BY <1>3, <1>4, <1>5, <1>6, <1>7 DEF Next

-----------------------------------------------------------------------------
(* Dialed. *)

LEMMA DialedStep == ASSUME TypeInv, Dialed, Next PROVE Dialed'
<1>0. NetType /\ OpenType /\ "start" \in Openers /\ "reconnect" \in Openers /\ "tmhc" \in Openers
  BY DEF TypeInv, Basic, Openers
<1>1. ASSUME \A o \in Openers : pc'[o] = "dial" => pc[o] = "dial" /\ at'[o] = at[o],
             \A c \in Conns : link[c] = "none" => link'[c] = "none"
      PROVE  Dialed'
  BY <1>1 DEF Dialed
<1>2. ASSUME NEW o \in Openers, NEW l, l # "dial", Goto(o, l) PROVE \A p \in Openers : pc'[p] = "dial" => p # o /\ pc[p] = "dial"
  BY <1>0, <1>2 DEF Goto, OpenType
<1>3. ASSUME NEW o \in Openers, Opener(o) PROVE Dialed'
  <2>1. CASE Open(o)
    <3>1. PICK c \in Conns : Free(c) /\ c = CHOOSE d \in Conns : Free(d)
      BY <2>1 DEF Open
    <3>2. /\ at' = [at EXCEPT ![o] = c] /\ link' = [link EXCEPT ![c] = "none"] /\ pc' = [pc EXCEPT ![o] = "dial"]
          /\ \A p \in Openers : at[p] # c
      BY <1>0, <2>1, <3>1 DEF Open, Goto, Free, OpenType
    <3>3. /\ pc'[o] = "dial" /\ at'[o] = c /\ link'[c] = "none"
          /\ \A p \in Openers \ {o} : pc'[p] = pc[p] /\ at'[p] = at[p]
          /\ \A d \in Conns \ {c} : link'[d] = link[d]
      BY <1>0, <3>2 DEF OpenType, NetType
    <3>4. \A p \in Openers \ {o} : pc'[p] = "dial" => at'[p] \in Conns \ {c} /\ link'[at'[p]] = "none"
      BY <3>2, <3>3 DEF Dialed
    <3>5. \A p, q \in Openers : pc'[p] = "dial" /\ pc'[q] = "dial" /\ at'[p] = at'[q] => p = q
      BY <3>3, <3>4 DEF Dialed
    <3> QED
      BY <3>3, <3>4, <3>5 DEF Dialed
  <2>2. CASE DialDone(o)
    <3>1. /\ pc[o] = "dial" /\ at' = [at EXCEPT ![o] = None] /\ link' = [link EXCEPT ![at[o]] = "open"]
          /\ pc' = [pc EXCEPT ![o] = "wait"]
      BY <2>2 DEF DialDone, Goto
    <3>2. /\ pc'[o] = "wait" /\ \A p \in Openers \ {o} : pc'[p] = pc[p] /\ at'[p] = at[p]
          /\ \A d \in Conns : d # at[o] => link'[d] = link[d]
      BY <1>0, <3>1 DEF OpenType, NetType
    <3>3. \A p \in Openers : pc'[p] = "dial" => p # o /\ at[p] \in Conns /\ at[p] # at[o] /\ link[at[p]] = "none"
      BY <3>1, <3>2 DEF Dialed
    <3> QED
      BY <3>2, <3>3 DEF Dialed
  <2>3. CASE DialFails(o)
    <3>1. Goto(o, "open") /\ at' = [at EXCEPT ![o] = None] /\ link' = link
      BY <2>3 DEF DialFails, net
    <3>2. \A p \in Openers \ {o} : at'[p] = at[p]
      BY <1>0, <3>1 DEF OpenType
    <3> QED
      BY <1>1, <1>2, <3>1, <3>2
  <2>4. CASE CloseOld(o)
    <3>1. Goto(o, "drain") /\ at' = [at EXCEPT ![o] = cur] /\ Disconnect(cur)
      BY <2>4 DEF CloseOld
    <3>2. \A p \in Openers \ {o} : at'[p] = at[p]
      BY <1>0, <3>1 DEF OpenType
    <3> QED
      BY <1>0, <1>1, <1>2, <3>1, <3>2, DisconnectNone
  <2>5. CASE Connected(o) \/ Timeout(o) \/ Exhausted(o)
    <3>1. PICK l \in {"poll", "idle", "open", "retry"} : Goto(o, l) /\ at' = at /\ link' = link
      BY <2>5 DEF Connected, Succeed, Timeout, Exhausted, net
    <3> QED
      BY <1>1, <1>2, <3>1
  <2> QED
    BY <1>3, <2>1, <2>2, <2>3, <2>4, <2>5 DEF Opener
<1>4. CASE Starting \/ Backoff \/ ReconnectCalled
  <2>1. link' = link
    BY <1>4 DEF Starting, Connect, Poll, Retry, StartBotsEnds, Backoff, ReconnectAnew, BackoffDecide, BackoffRetry,
       ReconnectCalled, net
  <2>2. CASE ReconnectAnew \/ BackoffDecide
    <3>1. PICK o \in {"reconnect", "tmhc"}, l \in {"open", "idle", "cool"} : Goto(o, l) /\ at' = [at EXCEPT ![o] = None]
      BY <2>2 DEF ReconnectAnew, BackoffDecide
    <3>2. \A p \in Openers \ {o} : at'[p] = at[p]
      BY <1>0, <3>1 DEF OpenType
    <3> QED
      BY <1>0, <1>1, <1>2, <2>1, <3>1, <3>2
  <2>3. CASE ~(ReconnectAnew \/ BackoffDecide)
    <3>1. at' = at
      BY <1>4, <2>3 DEF Starting, Connect, Poll, Retry, StartBotsEnds, Backoff, BackoffRetry, ReconnectCalled, openers
    <3>2. pc' = pc \/ \E o \in {"start", "reconnect", "tmhc"} : \E l \in {"poll", "open", "done", "retry", "connect",
                                                                         "idle", "close"} : Goto(o, l)
      BY <1>4, <2>3 DEF Starting, Connect, Poll, Retry, StartBotsEnds, Backoff, BackoffRetry, ReconnectCalled, openers
    <3>3. CASE pc' = pc
      BY <1>1, <2>1, <3>1, <3>3
    <3>4. CASE pc' # pc
      <4>1. PICK o \in {"start", "reconnect", "tmhc"}, l \in {"poll", "open", "done", "retry", "connect", "idle", "close"} :
              Goto(o, l)
        BY <3>2, <3>4
      <4>2. o \in Openers /\ l # "dial"
        BY <1>0
      <4>3. \A p \in Openers : pc'[p] = "dial" => pc[p] = "dial"
        BY <1>2, <4>1, <4>2
      <4>4. \A p \in Openers : pc'[p] = "dial" => pc[p] = "dial" /\ at'[p] = at[p]
        BY <3>1, <4>3
      <4>5. \A c \in Conns : link[c] = "none" => link'[c] = "none"
        BY <2>1
      <4> QED
        BY <1>1, <4>4, <4>5
    <3> QED
      BY <3>3, <3>4
  <2> QED
    BY <2>2, <2>3
<1>5. CASE Removal \/ Watchdog \/ QuitCalled \/ TimePasses \/ Line
  <2>1. pc' = pc /\ \A o \in Openers : at'[o] = at[o]
    <3>1. pc' = pc /\ (at' = at \/ \E c : at' = [at EXCEPT !["ban"] = c])
      BY <1>5 DEF Removal, BanDisconnect, BanRemove, CleanupLook, CleanupRemove, Quit, Watchdog, Sweep, Kill, QuitCalled,
         TimePasses, Line, openers
    <3>2. "ban" \notin Openers
      BY DEF Openers
    <3> QED
      BY <1>0, <3>1, <3>2 DEF OpenType
  <2>2. link' = link \/ Disconnect(cur)
    BY <1>5 DEF Removal, BanDisconnect, BanRemove, CleanupLook, CleanupRemove, Quit, Watchdog, Sweep, Kill, QuitCalled,
       TimePasses, Line, net
  <2> QED
    BY <1>0, <1>1, <2>1, <2>2, DisconnectNone
<1>6. ASSUME NEW c \in Conns, Callback(c) PROVE Dialed'
  <2>1. link' = link /\ at' = at /\ (pc' = pc \/ Goto("tmhc", "close"))
    BY <1>6 DEF Callback, Recv001, Welcomed, RecvBan, RecvError, RecvDisconnected, openers
  <2> QED
    BY <1>0, <1>1, <1>2, <2>1
<1>7. ASSUME NEW c \in Conns, Server(c) \/ Ends(c) \/ FallSilent(c) \/ Close(c) PROVE Dialed'
  <2>1. pc' = pc /\ at' = at
    BY <1>7 DEF Server, LoopReconnect, Welcome, QuitAnswered, Ends, FallSilent, Close, openers
  <2>2. \A d \in Conns : link[d] = "none" => link'[d] = "none"
    <3>1. CASE Close(c)
      BY <1>0, <3>1, DisconnectNone DEF Close
    <3>2. CASE ~Close(c)
      BY <1>0, <1>7, <3>2 DEF Server, LoopReconnect, Welcome, QuitAnswered, Ends, FallSilent, Down, NetType
    <3> QED
      BY <3>1, <3>2
  <2> QED
    BY <1>1, <2>1, <2>2
<1> QED
  BY <1>3, <1>4, <1>5, <1>6, <1>7 DEF Next

-----------------------------------------------------------------------------
(* Told. *)

Up == {"up", "silent"}

\* Nobody speaks, and b.Connection stays as it is.
LEMMA ToldSame ==
  ASSUME Told, cur' = cur, speaker' = speaker, isConnected' = isConnected,
         cur \in Conns => link'[cur] = link[cur] /\ inbox'[cur] = inbox[cur],
         cur \in Conns \cup {None}, bye \subseteq bye', closing \subseteq closing'
  PROVE  Told'
BY DEF Told, Follows

\* The bot is quit, or turns to another connection.
LEMMA ToldQuit ==
  ASSUME cur' = cur, isConnected' = FALSE, LibQuit(cur), link' = link
  PROVE  Told'
BY DEF Told, Follows, LibQuit, Active

\* A connection moves, and isConnected with it or not at all.
LEMMA ToldMove ==
  ASSUME NetType, Wires, Told, NEW c \in Conns, NEW l, NEW s, Moves(c, l, s),
         cur' = cur, speaker' = speaker, isConnected' = isConnected, bye \subseteq bye', closing \ {c} \subseteq closing',
         link[c] \in Up \/ Has(inbox[c], Last) => l \in Up \/ Has(s, Last),
         l \in Up => Has(s, "001") \/ (link[c] \in Up /\ inbox[c] = s /\ closing \subseteq closing')
  PROVE  Told'
<1>1. \A d \in Conns : link'[d] = (IF d = c THEN l ELSE link[d]) /\ inbox'[d] = (IF d = c THEN s ELSE inbox[d])
  BY DEF NetType, Moves
<1>2. CASE cur = c
  <2>1. link'[cur] = l /\ inbox'[cur] = s
    BY <1>1, <1>2
  <2> QED
    BY <1>2, <2>1 DEF Told, Follows, Up
<1>3. CASE cur # c
  <2>1. cur \in Conns \cup {None}
    BY DEF NetType
  <2> QED
    BY <1>1, <1>3, <2>1 DEF Told, Follows
<1> QED
  BY <1>2, <1>3

\* Disconnect.
LEMMA ToldDown ==
  ASSUME NetType, Wires, Told, NEW c \in Conns \cup {None}, Disconnect(c),
         cur' = cur, speaker' = speaker, isConnected' = isConnected, bye \subseteq bye', closing \ {c} \subseteq closing'
  PROVE  Told'
<1>1. CASE UNCHANGED <<link, inbox>> /\ (c # None => link[c] \notin Active)
  BY <1>1 DEF Told, Follows, Active
<1>2. CASE c \in Conns /\ \E s : Moves(c, "down", s) /\ Shape("down", s) /\ Has(s, Last)
  <2>1. PICK s : Moves(c, "down", s) /\ Has(s, Last)
    BY <1>2
  <2>2. "down" \notin Up
    BY DEF Up
  <2> QED
    BY <1>2, <2>1, <2>2, ToldMove
<1> QED
  BY <1>1, <1>2, DisconnectMoves

LEMMA ToldOpener == ASSUME TypeInv, Wires, Dialed, Told, NEW o \in Openers, Opener(o) PROVE Told'
<1>0. NetType /\ OpenType /\ cur \in Conns \cup {None} /\ None \notin Conns
  BY DEF TypeInv, Basic, NetType
<1>1. CASE Open(o)
  BY <1>0, <1>1 DEF Open, Told
<1>2. CASE DialFails(o)
  <2>1. /\ cur' = cur /\ isConnected' = FALSE /\ speaker' = at[o] /\ link' = link
        /\ at[o] \in Conns /\ link[at[o]] = "none"
    BY <1>2 DEF DialFails, Speaks, net, Dialed
  <2> QED
    BY <2>1 DEF Told, Follows
<1>3. CASE DialDone(o)
  <2>1. at[o] \in Conns /\ link[at[o]] = "none" /\ cur' = cur /\ speaker' = speaker /\ isConnected' = isConnected
        /\ bye' = bye /\ closing' = closing
    BY <1>3 DEF DialDone, Dialed, history, flags, others
  <2>2. inbox[at[o]] = <<>> /\ ~Has(<<>>, Last)
    BY <2>1, HasTuples DEF Wires, Shape
  <2>3. Moves(at[o], "open", <<>>)
    BY <1>0, <1>3, <2>1, <2>2 DEF DialDone, Moves, NetType
  <2> QED
    BY <1>0, <2>1, <2>2, <2>3, ToldMove DEF Up
<1>4. CASE Connected(o)
  BY <1>0, <1>4, ToldSame DEF Connected, net, others, history
<1>5. CASE Timeout(o)
  BY <1>5, ToldQuit DEF Timeout
<1>6. CASE Exhausted(o)
  <2>1. CASE o = "start"
    BY <1>6, <2>1, ToldQuit DEF Exhausted
  <2>2. CASE o # "start"
    BY <1>0, <1>6, <2>2, ToldSame DEF Exhausted, others
  <2> QED
    BY <2>1, <2>2
<1>7. CASE CloseOld(o)
  BY <1>0, <1>7, ToldDown DEF CloseOld, flags, others, history
<1> QED
  BY <1>1, <1>2, <1>3, <1>4, <1>5, <1>6, <1>7 DEF Opener

LEMMA ToldRest ==
  ASSUME TypeInv, Wires, Told,
         Starting \/ Backoff \/ ReconnectCalled \/ Removal \/ Watchdog \/ QuitCalled \/ TimePasses \/ Line
  PROVE  Told'
<1>0. NetType /\ cur \in Conns \cup {None} /\ None \notin Conns
  BY DEF TypeInv, Basic, NetType
<1>1. CASE Connect
  BY <1>0, <1>1, ToldSame DEF Connect, Told, Speaks, net, others
<1>2. CASE Retry
  BY <1>0, <1>2, ToldSame, ToldQuit DEF Retry, QuitEffect, others
<1>3. CASE BackoffDecide
  BY <1>0, <1>3, ToldSame, ToldQuit DEF BackoffDecide, QuitEffect, others
<1>4. CASE Quit
  BY <1>4, ToldQuit DEF Quit, QuitEffect
<1>5. CASE ReconnectAnew \/ BackoffRetry
  BY <1>0, <1>5, ToldSame DEF ReconnectAnew, BackoffRetry, Told, net, others, history
<1>6. CASE BanDisconnect
  BY <1>0, <1>6, ToldDown DEF BanDisconnect, flags, history
<1>7. CASE Poll \/ StartBotsEnds \/ ReconnectCalled \/ BanRemove \/ CleanupLook \/ CleanupRemove
  BY <1>0, <1>7, ToldSame DEF Poll, StartBotsEnds, ReconnectCalled, BanRemove, CleanupLook, CleanupRemove,
     net, flags, others, history
<1>8. CASE Watchdog \/ QuitCalled \/ TimePasses \/ Line
  BY <1>0, <1>8, ToldSame DEF Watchdog, Sweep, Kill, QuitCalled, TimePasses, Line, net, flags, others, history
<1> QED
  BY <1>1, <1>2, <1>3, <1>4, <1>5, <1>6, <1>7, <1>8 DEF Starting, Backoff, Removal

LEMMA ToldCallback == ASSUME TypeInv, Wires, Told, NEW c \in Conns, Callback(c) PROVE Told'
<1>0. NetType /\ cur \in Conns \cup {None} /\ None \notin Conns
  BY DEF TypeInv, Basic, NetType
<1>1. PICK e : /\ Take(c, e) /\ link' = link /\ cur' = cur /\ bye' = bye /\ closing \subseteq closing'
               /\ Done(c) \/ (e = "001" /\ inbox' = [inbox EXCEPT ![c][1] = "welcomed"])
               /\ \/ (e = "001" /\ Recv001(c)) \/ (e = "welcomed" /\ Welcomed(c)) \/ (e = "465" /\ RecvBan(c))
                  \/ (e = "ERROR" /\ RecvError(c)) \/ (e = Last /\ RecvDisconnected(c))
  BY DEF Callback, Recv001, Welcomed, RecvBan, RecvError, RecvDisconnected, others, Last
<1>2. Shape(link[c], inbox[c]) /\ inbox[c] # <<>> /\ Head(inbox[c]) = e
  BY <1>0, <1>1, DoneMoves
<1>3. \A d \in Conns \ {c} : inbox'[d] = inbox[d]
  BY <1>0, <1>1 DEF Done, NetType
<1>4. CASE cur # c
  <2>1. cur \in Conns => link'[cur] = link[cur] /\ inbox'[cur] = inbox[cur]
    BY <1>1, <1>3, <1>4
  <2>2. CASE UNCHANGED <<speaker, isConnected>>
    BY <1>0, <1>1, <2>1, <2>2, ToldSame
  <2>3. CASE ~UNCHANGED <<speaker, isConnected>>
    <3>1. speaker' = c
      BY <1>1, <2>3 DEF Recv001, Welcomed, RecvBan, RecvError, RecvDisconnected, Speaks, flags, history
    <3> QED
      BY <1>1, <1>4, <3>1 DEF Told
  <2> QED
    BY <2>2, <2>3
<1>5. CASE cur = c
  <2>1. CASE Done(c)
    <3>1. inbox'[c] = Tail(inbox[c]) /\ link'[c] = link[c]
      BY <1>0, <1>1, <2>1 DEF Done, NetType
    <3>2. /\ \A x : Has(inbox[c], x) /\ x # e => Has(inbox'[c], x)
          /\ e = Last => link[c] \notin Up
      <4>1. Has(inbox[c], e) /\ \A x : Has(inbox[c], x) /\ e # x => Has(Tail(inbox[c]), x)
        BY <1>2, TailShape
      <4>2. Has(inbox[c], Last) => link[c] = "down"
        BY <1>2, ShapeFacts
      <4> QED
        BY <3>1, <4>1, <4>2 DEF Up
    <3>3. CASE e = "001"
      <4>0. Recv001(c)
        BY <1>1, <3>3 DEF Last
      <4>1. UNCHANGED <<speaker, isConnected>>
        BY <4>0 DEF Recv001, flags
      <4>2. CASE IsConnected
        BY <1>1, <1>5, <3>1, <3>2, <3>3, <4>1, <4>2 DEF Told, Follows, Last, IsConnected
      <4>3. CASE ~IsConnected /\ gaveUp
        <5>1. cur \in closing'
          BY <1>0, <1>5, <4>0, <4>3 DEF Recv001
        <5> QED
          BY <1>1, <1>5, <3>1, <3>2, <3>3, <4>1, <5>1 DEF Told, Follows, Last
      <4>4. CASE ~IsConnected /\ ~gaveUp
        <5>1. inbox'[c] = [inbox[c] EXCEPT ![1] = "welcomed"]
          BY <1>0, <4>0, <4>4 DEF Recv001, NetType
        <5>2. Head(inbox[c]) = "001"
          BY <1>2, <3>3
        <5>3. Has(inbox'[c], "welcomed") /\ (Has(inbox[c], Last) => Has(inbox'[c], Last))
          BY <1>2, <5>1, <5>2, WelcomedShape
        <5> QED
          BY <1>1, <1>5, <3>1, <4>1, <5>3 DEF Told, Follows
      <4> QED
        BY <4>2, <4>3, <4>4
    <3>4. CASE e = "welcomed"
      <4>1. isConnected' = TRUE /\ (link[c] \in Up \/ Has(inbox[c], Last))
        <5>1. Has(inbox[c], "welcomed")
          BY <1>2, <3>4, TailShape
        <5> QED
          BY <1>1, <1>2, <3>4, <5>1, ShapeFacts DEF Welcomed, Last, Up
      <4> QED
        BY <1>1, <1>5, <3>1, <3>2, <3>4, <4>1 DEF Told, Follows, Last, Up
    <3>5. CASE e = "465" \/ e = "ERROR"
      <4>1. UNCHANGED <<speaker, isConnected>>
        BY <1>1, <3>5 DEF RecvBan, RecvError, Last, history
      <4> QED
        BY <1>1, <1>5, <3>1, <3>2, <3>5, <4>1 DEF Told, Follows, Last
    <3>6. CASE e = Last
      <4>1. isConnected' = FALSE
        BY <1>1, <3>6 DEF RecvDisconnected, Last
      <4> QED
        BY <1>1, <1>5, <3>1, <3>2, <3>6, <4>1 DEF Told, Follows, Up
    <3> QED
      BY <1>1, <3>3, <3>4, <3>5, <3>6
  <2>2. CASE e = "001" /\ inbox' = [inbox EXCEPT ![c][1] = "welcomed"]
    <3>1. inbox'[c] = [inbox[c] EXCEPT ![1] = "welcomed"] /\ link'[c] = link[c]
      BY <1>0, <1>1, <2>2 DEF NetType
    <3>2. Has(inbox'[c], "welcomed") /\ (Has(inbox[c], Last) => Has(inbox'[c], Last))
      <4>1. Head(inbox[c]) = "001"
        BY <1>2, <2>2
      <4> QED
        BY <1>2, <3>1, <4>1, WelcomedShape
    <3>0. Recv001(c)
      BY <1>1, <2>2 DEF Last
    <3>3. UNCHANGED <<speaker, isConnected>>
      BY <3>0 DEF Recv001, flags
    <3> QED
      BY <1>1, <1>5, <3>1, <3>2, <3>3 DEF Told, Follows
  <2> QED
    BY <1>1, <2>1, <2>2
<1> QED
  BY <1>4, <1>5

LEMMA ToldNet ==
  ASSUME TypeInv, Wires, Told, NEW c \in Conns, Server(c) \/ Ends(c) \/ FallSilent(c) \/ Close(c) PROVE Told'
<1>0. NetType /\ cur \in Conns \cup {None} /\ None \notin Conns
  BY DEF TypeInv, Basic, NetType
<1>1. /\ cur' = cur /\ speaker' = speaker /\ isConnected' = isConnected /\ bye' = bye
      /\ closing \ {c} \subseteq closing' /\ (~Close(c) => closing' = closing)
  BY DEF Server, LoopReconnect, Welcome, QuitAnswered, Ends, FallSilent, Close, flags, others, history
<1>2. CASE Close(c)
  BY <1>0, <1>1, <1>2, ToldDown DEF Close
<1>3. CASE LoopReconnect(c)
  <2>1. link[c] = "down" /\ inbox[c] = <<>> /\ Moves(c, "open", <<>>) /\ ~Has(<<>>, Last)
    BY <1>0, <1>3, HasTuples DEF LoopReconnect, Moves, NetType
  <2> QED
    BY <1>0, <1>1, <2>1, ToldMove DEF Up
<1>4. CASE Welcome(c)
  <2>1. inbox[c] = <<>> /\ link[c] = "open"
    BY <1>4 DEF Welcome, Wires, Shape
  <2>2. Append(<<>>, "001") = <<"001">>
    OBVIOUS
  <2>3. Moves(c, "up", <<"001">>) /\ Has(<<"001">>, "001")
    BY <1>0, <1>4, <2>1, <2>2, HasTuples DEF Welcome, Moves, NetType
  <2> QED
    BY <1>0, <1>1, <2>3, ToldMove DEF Up
<1>5. CASE FallSilent(c)
  <2>1. link[c] = "up" /\ Moves(c, "silent", inbox[c]) /\ closing' = closing
    BY <1>0, <1>5 DEF FallSilent, Moves, NetType, others
  <2> QED
    BY <1>0, <1>1, <2>1, ToldMove DEF Up
<1>6. CASE QuitAnswered(c) \/ Ends(c)
  <2>1. PICK last \in {<<>>, <<"465">>, <<"ERROR">>} : Down(c, last) /\ (last = <<"ERROR">> => link[c] = "open")
    BY <1>6, EndsDown
  <2>2. link[c] \in Active
    BY <1>6 DEF QuitAnswered, Ends, Active
  <2>3. PICK s : Moves(c, "down", s) /\ Has(s, Last)
    BY <1>0, <2>1, <2>2, DownMoves
  <2>4. "down" \notin Up
    BY DEF Up
  <2> QED
    BY <1>0, <1>1, <2>3, <2>4, ToldMove
<1> QED
  BY <1>2, <1>3, <1>4, <1>5, <1>6 DEF Server

\* With nothing under way isConnected says what b.Connection is, when it was
\* set for b.Connection.
THEOREM InStepHolds == Spec => []InStep
<1>1. Init => Wires /\ Dialed /\ Told
  BY DEF Init, Wires, Shape, Dialed, Told
<1>2. TypeInv /\ Wires /\ Dialed /\ Told /\ [Next]_vars => Wires' /\ Dialed' /\ Told'
  <2>1. ASSUME TypeInv, Wires, Dialed, Told, Next PROVE Told'
    BY <2>1, ToldOpener, ToldRest, ToldCallback, ToldNet DEF Next
  <2>2. ASSUME Wires, Dialed, Told, UNCHANGED vars PROVE Wires' /\ Dialed' /\ Told'
    BY <2>2 DEF Wires, Dialed, Told, Follows, vars, net, flags, openers, others, history
  <2> QED
    BY <2>1, <2>2, WiresStep, DialedStep
<1>3. TypeInv /\ Told => InStep
  <2> SUFFICES ASSUME TypeInv, Told, AtRest, cur # None, speaker = cur PROVE Says
    BY DEF InStep
  <2>1. cur \in Conns /\ isConnected \in BOOLEAN
    BY DEF TypeInv, Basic, NetType, FlagType
  <2>2. inbox[cur] = <<>> /\ closing = {} /\ (cur \in bye => link[cur] \notin Active)
    BY <2>1 DEF AtRest
  <2>3. \A e : ~Has(inbox[cur], e)
    BY <2>2, HasTuples
  <2> QED
    BY <2>1, <2>2, <2>3 DEF Told, Follows, Says, Active
<1>4. Spec => []TypeInv
  BY InitTypes, StepTypes, PTL DEF Spec
<1> QED
  BY <1>1, <1>2, <1>3, <1>4, PTL DEF Spec

=============================================================================
