----------------------------- MODULE IsonProofs -----------------------------
(* The safety part of the refinement of NickRegister by Ison, without any use *)
(* of the bounds; the lists and the index of the monitor; the type invariant. *)
(* For every set of bots and nicks.                                           *)
EXTENDS Ison, FiniteSetTheorems, NaturalsInduction, WellFoundedInduction, TLAPS

USE BotsAssumption, BoundAssumption

Lines == [kind : {"001", "NICK", "303", "gone"}, at : Nat, own : BOOLEAN]

(* What TypeOK says of the nicks, with no bound on their number. *)
NickType ==
    /\ hist \in [Bots -> Seq(Nicks)] /\ cur \in [Bots -> Nat] /\ lib \in [Bots -> Nat]
    /\ wire \in [Bots -> Seq(Lines)] /\ asks \in [Bots -> Seq(BOOLEAN)]
    /\ isConnected \in [Bots -> BOOLEAN]

(* Lines speak of positions that lie between what the bot and the library know
   and the last of n, the later ones of no earlier positions. *)
Ahead(w, c, l, n) ==
    /\ c \in 1 .. n /\ l \in 1 .. n
    /\ \A i \in DOMAIN w : c <= w[i].at /\ l <= w[i].at /\ w[i].at <= n
    /\ \A i, j \in DOMAIN w : i <= j => w[i].at <= w[j].at

NickInv == NickType /\ \A b \in Bots : Ahead(wire[b], cur[b], lib[b], Len(hist[b]))

LEMMA LineAt ==
  ASSUME NEW w \in Seq(Lines), NEW i \in DOMAIN w
  PROVE  w[i] \in Lines /\ w[i].at \in Nat
<1>1. w[i] \in Lines
  OBVIOUS
<1> QED BY <1>1 DEF Lines

(* The server may have named the bot anew, with or without a line about it. *)
LEMMA GrowAhead ==
  ASSUME NEW w \in Seq(Lines), NEW c \in Nat, NEW l \in Nat, NEW n \in Nat, NEW m \in Nat,
         Ahead(w, c, l, n), n <= m
  PROVE  Ahead(w, c, l, m)
<1>1. \A i \in DOMAIN w : w[i].at \in Nat
  BY LineAt
<1> QED BY <1>1 DEF Ahead

(* A line about the newest nick goes to the end. *)
LEMMA AppendAhead ==
  ASSUME NEW w \in Seq(Lines), NEW c \in Nat, NEW l \in Nat, NEW n \in Nat,
         NEW x \in Lines, x.at = n, Ahead(w, c, l, n)
  PROVE  Append(w, x) \in Seq(Lines) /\ Ahead(Append(w, x), c, l, n)
<1> DEFINE v == Append(w, x)
<1>1. v \in Seq(Lines) /\ DOMAIN v = 1 .. Len(w) + 1 /\ DOMAIN w = 1 .. Len(w) /\ Len(w) \in Nat
  OBVIOUS
<1>2. \A i \in DOMAIN w : v[i] = w[i] /\ w[i].at \in Nat
  BY LineAt
<1>3. v[Len(w) + 1] = x
  OBVIOUS
<1>4. \A i \in DOMAIN v : i \in DOMAIN w \/ i = Len(w) + 1
  BY <1>1
<1>5. \A i \in DOMAIN v : c <= v[i].at /\ l <= v[i].at /\ v[i].at <= n
  BY <1>2, <1>3, <1>4 DEF Ahead
<1>6. ASSUME NEW i \in DOMAIN v, NEW j \in DOMAIN v, i <= j PROVE v[i].at <= v[j].at
  <2>1. CASE j \in DOMAIN w
    <3>1. i \in DOMAIN w
      BY <1>1, <1>6, <2>1
    <3> QED BY <1>2, <1>6, <2>1, <3>1 DEF Ahead
  <2>2. CASE j = Len(w) + 1
    BY <1>3, <1>5, <2>2
  <2> QED BY <1>4, <2>1, <2>2
<1> HIDE DEF v
<1>7. c \in 1 .. n /\ l \in 1 .. n
  BY DEF Ahead
<1>8. Ahead(v, c, l, n)
  BY <1>5, <1>6, <1>7 DEF Ahead
<1> QED BY <1>1, <1>8 DEF v

(* A callback takes the first line and nothing else, or what it says, or what
   the library knows, for the nick of the bot. *)
LEMMA TailAhead ==
  ASSUME NEW w \in Seq(Lines), w # <<>>, NEW c \in Nat, NEW l \in Nat, NEW n \in Nat,
         Ahead(w, c, l, n), NEW d, d \in {c, l, Head(w).at}, NEW k, k \in {l, Head(w).at}
  PROVE  Tail(w) \in Seq(Lines) /\ Ahead(Tail(w), d, k, n) /\ d \in Nat /\ k \in Nat
<1> DEFINE t == Tail(w)
<1>1. t \in Seq(Lines) /\ Len(w) \in Nat \ {0} /\ DOMAIN w = 1 .. Len(w)
      /\ DOMAIN t = 1 .. Len(w) - 1 /\ Head(w) = w[1]
  OBVIOUS
<1>2. \A i \in DOMAIN t : t[i] = w[i + 1] /\ i + 1 \in DOMAIN w
  BY <1>1
<1>3. \A i \in DOMAIN w : w[i].at \in Nat
  BY LineAt
<1>4. 1 \in DOMAIN w /\ \A i \in DOMAIN w : w[1].at <= w[i].at
  BY <1>1 DEF Ahead
<1>5. d \in 1 .. n /\ k \in 1 .. n
  BY <1>1, <1>3, <1>4 DEF Ahead
<1>6. \A i \in DOMAIN w : d <= w[i].at /\ k <= w[i].at
  BY <1>1, <1>4 DEF Ahead
<1>7. ASSUME NEW i \in DOMAIN t PROVE d <= t[i].at /\ k <= t[i].at /\ t[i].at <= n
  BY <1>2, <1>6 DEF Ahead
<1>8. ASSUME NEW i \in DOMAIN t, NEW j \in DOMAIN t, i <= j PROVE t[i].at <= t[j].at
  <2>1. i + 1 <= j + 1 /\ i + 1 \in DOMAIN w /\ j + 1 \in DOMAIN w
    BY <1>1, <1>2, <1>8
  <2>2. w[i + 1].at <= w[j + 1].at
    BY <2>1 DEF Ahead
  <2> QED BY <1>2, <2>2
<1> HIDE DEF t
<1>9. Ahead(t, d, k, n)
  BY <1>5, <1>7, <1>8 DEF Ahead
<1> QED BY <1>1, <1>5, <1>9 DEF t

(* A request that is over makes the replies in flight late, no more. *)
LEMMA ForgetAhead ==
  ASSUME NEW w \in Seq(Lines), NEW c \in Nat, NEW l \in Nat, NEW n \in Nat, Ahead(w, c, l, n)
  PROVE  LET v == [i \in DOMAIN w |-> [w[i] EXCEPT !.own = FALSE]]
         IN  v \in Seq(Lines) /\ Ahead(v, c, l, n)
<1> DEFINE v == [i \in DOMAIN w |-> [w[i] EXCEPT !.own = FALSE]]
<1>1. DOMAIN w = 1 .. Len(w) /\ Len(w) \in Nat /\ DOMAIN v = DOMAIN w
  OBVIOUS
<1>2. ASSUME NEW i \in DOMAIN w PROVE v[i] \in Lines /\ v[i].at = w[i].at
  <2>1. w[i] \in Lines
    BY LineAt
  <2>2. ASSUME NEW x \in Lines
        PROVE  [x EXCEPT !.own = FALSE] \in Lines /\ [x EXCEPT !.own = FALSE].at = x.at
    BY DEF Lines
  <2>3. v[i] = [w[i] EXCEPT !.own = FALSE]
    OBVIOUS
  <2> HIDE DEF v
  <2> QED BY <2>1, <2>2, <2>3
<1> HIDE DEF v
<1>3. v \in [1 .. Len(w) -> Lines]
  <2>1. v = [i \in DOMAIN w |-> v[i]]
    BY DEF v
  <2> QED BY <1>1, <1>2, <2>1
<1>4. v \in Seq(Lines)
  BY <1>1, <1>3
<1>5. Ahead(v, c, l, n)
  BY <1>1, <1>2 DEF Ahead
<1> QED BY <1>4, <1>5 DEF v

LEMMA InitNick == Init => NickInv
<1> SUFFICES ASSUME Init PROVE NickInv
  OBVIOUS
<1>1. (CHOOSE n \in Nicks : TRUE) \in Nicks
  OBVIOUS
<1>2. NickType
  BY <1>1 DEF Init, NickType
<1>3. ASSUME NEW b \in Bots PROVE Ahead(wire[b], cur[b], lib[b], Len(hist[b]))
  <2>1. wire[b] = <<>> /\ cur[b] = 1 /\ lib[b] = 1 /\ Len(hist[b]) = 1
    BY DEF Init
  <2> QED BY <2>1 DEF Ahead
<1> QED BY <1>2, <1>3 DEF NickInv

(* What the server does to bot a: it may name it anew, and may tell it of the
   nick it has. *)
LEMMA ServerNick ==
  ASSUME NickInv, NEW a \in Bots, NEW kind \in {"001", "NICK", "303", "gone"}, NEW own \in BOOLEAN,
         (\E n \in Nicks : Renamed(a, n)) \/ UNCHANGED hist,
         Sends(a, kind, Len(hist'[a]), own) \/ UNCHANGED wire,
         UNCHANGED <<cur, lib>>
  PROVE  /\ hist' \in [Bots -> Seq(Nicks)] /\ wire' \in [Bots -> Seq(Lines)]
         /\ \A b \in Bots : Ahead(wire[b], cur[b], lib[b], Len(hist[b]))'
<1>1. /\ hist' \in [Bots -> Seq(Nicks)] /\ \A b \in Bots : b # a => hist'[b] = hist[b]
      /\ Len(hist[a]) \in Nat /\ Len(hist'[a]) \in Nat /\ Len(hist[a]) <= Len(hist'[a])
  <2>1. hist \in [Bots -> Seq(Nicks)]
    BY DEF NickInv, NickType
  <2>2. ASSUME NEW n \in Nicks, Renamed(a, n)
        PROVE  /\ hist' \in [Bots -> Seq(Nicks)] /\ \A b \in Bots : b # a => hist'[b] = hist[b]
               /\ Len(hist[a]) \in Nat /\ Len(hist'[a]) \in Nat /\ Len(hist[a]) <= Len(hist'[a])
    <3>1. Append(hist[a], n) \in Seq(Nicks) /\ Len(Append(hist[a], n)) = Len(hist[a]) + 1
      BY <2>1
    <3>2. hist' = [hist EXCEPT ![a] = Append(hist[a], n)]
      BY <2>2 DEF Renamed
    <3> QED BY <2>1, <3>1, <3>2
  <2>3. CASE UNCHANGED hist
    BY <2>1, <2>3
  <2> QED BY <2>2, <2>3
<1>2. Len(hist'[a]) \in Nat /\ Len(hist[a]) <= Len(hist'[a])
  BY <1>1
<1>3. wire[a] \in Seq(Lines) /\ cur[a] \in Nat /\ lib[a] \in Nat
  BY DEF NickInv, NickType
<1>4. Ahead(wire[a], cur[a], lib[a], Len(hist'[a]))
  BY <1>1, <1>3, GrowAhead DEF NickInv
<1>5. wire' \in [Bots -> Seq(Lines)] /\ (\A b \in Bots : b # a => wire'[b] = wire[b])
      /\ Ahead(wire'[a], cur[a], lib[a], Len(hist'[a]))
  <2>1. CASE UNCHANGED wire
    BY <1>4, <2>1 DEF NickInv, NickType
  <2>2. CASE Sends(a, kind, Len(hist'[a]), own)
    <3> DEFINE x == [kind |-> kind, at |-> Len(hist'[a]), own |-> own]
    <3>1. x \in Lines /\ x.at = Len(hist'[a])
      BY <1>2 DEF Lines
    <3>2. wire' = [wire EXCEPT ![a] = Append(wire[a], x)]
      BY <2>2 DEF Sends
    <3> HIDE DEF x
    <3>3. Append(wire[a], x) \in Seq(Lines) /\ Ahead(Append(wire[a], x), cur[a], lib[a], Len(hist'[a]))
      BY <1>2, <1>3, <1>4, <3>1, AppendAhead
    <3> QED BY <3>2, <3>3 DEF NickInv, NickType
  <2> QED BY <2>1, <2>2
<1>6. ASSUME NEW b \in Bots PROVE Ahead(wire[b], cur[b], lib[b], Len(hist[b]))'
  <2>1. CASE b = a
    BY <1>5, <2>1
  <2>2. CASE b # a
    BY <1>1, <1>5, <2>2 DEF NickInv
  <2> QED BY <2>1, <2>2
<1> QED BY <1>1, <1>5, <1>6

(* What a callback of bot a does to its nicks: see TailAhead. *)
LEMMA CallbackNick ==
  ASSUME NickInv, NEW a \in Bots, NEW kind, Receive(a, kind), UNCHANGED hist,
         NEW d, cur' = [cur EXCEPT ![a] = d], d \in {cur[a], lib[a], Head(wire[a]).at},
         NEW k, lib' = [lib EXCEPT ![a] = k], k \in {lib[a], Head(wire[a]).at}
  PROVE  /\ cur' \in [Bots -> Nat] /\ lib' \in [Bots -> Nat] /\ wire' \in [Bots -> Seq(Lines)]
         /\ \A b \in Bots : Ahead(wire[b], cur[b], lib[b], Len(hist[b]))'
<1>1. wire[a] \in Seq(Lines) /\ cur[a] \in Nat /\ lib[a] \in Nat /\ Len(hist[a]) \in Nat
      /\ Ahead(wire[a], cur[a], lib[a], Len(hist[a]))
  BY DEF NickInv, NickType
<1>2. wire[a] # <<>> /\ wire' = [wire EXCEPT ![a] = Tail(wire[a])]
  BY DEF Receive
<1>3. Tail(wire[a]) \in Seq(Lines) /\ Ahead(Tail(wire[a]), d, k, Len(hist[a])) /\ d \in Nat /\ k \in Nat
  BY <1>1, <1>2, TailAhead
<1>4. cur' \in [Bots -> Nat] /\ lib' \in [Bots -> Nat] /\ wire' \in [Bots -> Seq(Lines)]
  BY <1>2, <1>3 DEF NickInv, NickType
<1>5. ASSUME NEW b \in Bots PROVE Ahead(wire[b], cur[b], lib[b], Len(hist[b]))'
  <2>1. CASE b = a
    <3>1. wire'[a] = Tail(wire[a]) /\ cur'[a] = d /\ lib'[a] = k /\ hist'[a] = hist[a]
      BY <1>2 DEF NickInv, NickType
    <3> QED BY <1>3, <2>1, <3>1
  <2>2. CASE b # a
    <3>1. wire'[b] = wire[b] /\ cur'[b] = cur[b] /\ lib'[b] = lib[b] /\ hist'[b] = hist[b]
      BY <1>2, <2>2 DEF NickInv, NickType
    <3> QED BY <3>1 DEF NickInv
  <2> QED BY <2>1, <2>2
<1> QED BY <1>4, <1>5

(* A step that leaves the nicks and the lines on the wire alone. *)
LEMMA IdleNick ==
  ASSUME NickInv, UNCHANGED nickVars, UNCHANGED <<wire, isConnected>>,
         asks' \in [Bots -> Seq(BOOLEAN)]
  PROVE  NickInv'
BY DEF NickInv, NickType, nickVars

LEMMA StepNick == NickInv /\ [Next]_vars => NickInv'
<1> SUFFICES ASSUME NickInv, [Next]_vars PROVE NickInv'
  OBVIOUS
<1>0. /\ hist \in [Bots -> Seq(Nicks)] /\ cur \in [Bots -> Nat] /\ lib \in [Bots -> Nat]
      /\ wire \in [Bots -> Seq(Lines)] /\ asks \in [Bots -> Seq(BOOLEAN)]
      /\ isConnected \in [Bots -> BOOLEAN]
  BY DEF NickInv, NickType
<1>1. CASE Tick
  <2> DEFINE a == polled[(botIndex % Len(polled)) + 1]
  <2>1. asks' = asks \/ asks' = [asks EXCEPT ![a] = Append(@, TRUE)]
    BY <1>1 DEF Tick, Send
  <2> HIDE DEF a
  <2>2. asks' \in [Bots -> Seq(BOOLEAN)]
    <3>1. CASE a \in Bots
      <4>1. Append(asks[a], TRUE) \in Seq(BOOLEAN)
        BY <1>0, <3>1
      <4> QED BY <1>0, <2>1, <3>1, <4>1
    <3>2. CASE a \notin Bots
      BY <1>0, <2>1, <3>2
    <3> QED BY <3>1, <3>2
  <2> QED BY <1>1, <2>2, IdleNick DEF Tick, connVars
<1>2. CASE UpdateLook \/ UpdateAssign
  BY <1>0, <1>2, IdleNick DEF UpdateLook, UpdateAssign, connVars, askVars
<1>3. CASE UNCHANGED vars
  BY <1>0, <1>3, IdleNick DEF vars, connVars, askVars
<1>4. ASSUME NEW a \in Bots, Unregister(a) \/ Unpoll(a) PROVE NickInv'
  BY <1>0, <1>4, IdleNick DEF Unregister, Unpoll, connVars, askVars
<1>5. ASSUME NEW a \in Bots, Environment(a) \/ Answer(a) PROVE NickInv'
  <2>1. UNCHANGED <<cur, lib, isConnected>>
    BY <1>5 DEF Environment, Rename, Registers, Drop, Answer, connVars, nickVars
  <2>2. asks' \in [Bots -> Seq(BOOLEAN)]
    <3>1. CASE Answer(a)
      <4>1. asks[a] # <<>> /\ asks' = [asks EXCEPT ![a] = Tail(asks[a])]
        BY <3>1 DEF Answer
      <4>2. Tail(asks[a]) \in Seq(BOOLEAN)
        BY <1>0, <4>1
      <4> QED BY <1>0, <4>1, <4>2
    <3>2. CASE Environment(a)
      <4>1. asks' = asks \/ asks' = [asks EXCEPT ![a] = <<>>]
        BY <3>2 DEF Environment, Rename, Registers, Drop
      <4>2. <<>> \in Seq(BOOLEAN)
        OBVIOUS
      <4> QED BY <1>0, <4>1, <4>2
    <3> QED BY <1>5, <3>1, <3>2
  <2>3. (\E n \in Nicks : Renamed(a, n)) \/ UNCHANGED hist
    BY <1>5 DEF Environment, Rename, Registers, Drop, Answer, nickVars
  <2>4. PICK kind \in {"001", "NICK", "303", "gone"}, own \in BOOLEAN :
            Sends(a, kind, Len(hist'[a]), own) \/ UNCHANGED wire
    <3>1. CASE Rename(a)
      BY <3>1 DEF Rename
    <3>2. CASE Registers(a)
      BY <3>2 DEF Registers
    <3>3. CASE Drop(a)
      BY <3>3 DEF Drop, nickVars
    <3>4. CASE Answer(a)
      <4>1. Head(asks[a]) \in BOOLEAN
        BY <1>0, <3>4 DEF Answer
      <4> QED BY <3>4, <4>1 DEF Answer, nickVars
    <3> QED BY <1>5, <3>1, <3>2, <3>3, <3>4 DEF Environment
  <2>5. /\ hist' \in [Bots -> Seq(Nicks)] /\ wire' \in [Bots -> Seq(Lines)]
        /\ \A b \in Bots : Ahead(wire[b], cur[b], lib[b], Len(hist[b]))'
    BY <2>1, <2>3, <2>4, ServerNick
  <2> QED BY <1>0, <2>1, <2>2, <2>5 DEF NickInv, NickType
<1>6. ASSUME NEW a \in Bots, Callback(a) PROVE NickInv'
  <2>1. UNCHANGED <<hist, asks>> /\ isConnected' \in [Bots -> BOOLEAN]
    BY <1>0, <1>6 DEF Callback, Recv001, RecvNick, RecvIson, RecvGone, connVars
  <2>2. \E kind \in {"001", "NICK", "303", "gone"} : Receive(a, kind)
    BY <1>6 DEF Callback, Recv001, RecvNick, RecvIson, RecvGone
  <2>3. \E d \in {cur[a], lib[a], Head(wire[a]).at} : cur' = [cur EXCEPT ![a] = d]
    <3>1. CASE RecvNick(a)
      BY <1>0, <3>1 DEF RecvNick, Follow
    <3>2. CASE Recv001(a) \/ RecvIson(a) \/ RecvGone(a)
      BY <3>2 DEF Recv001, RecvIson, RecvGone, Reconciled
    <3> QED BY <1>6, <3>1, <3>2 DEF Callback
  <2>4. \E k \in {lib[a], Head(wire[a]).at} : lib' = [lib EXCEPT ![a] = k]
    BY <1>0, <1>6 DEF Callback, Recv001, RecvNick, RecvIson, RecvGone, Follow
  <2>5. /\ cur' \in [Bots -> Nat] /\ lib' \in [Bots -> Nat] /\ wire' \in [Bots -> Seq(Lines)]
        /\ \A b \in Bots : Ahead(wire[b], cur[b], lib[b], Len(hist[b]))'
    BY <2>1, <2>2, <2>3, <2>4, CallbackNick
  <2> QED BY <1>0, <2>1, <2>5 DEF NickInv, NickType
<1>7. ASSUME NEW a \in Bots, Return(a) \/ Timeout(a) PROVE NickInv'
  <2> DEFINE v == [i \in DOMAIN wire[a] |-> [wire[a][i] EXCEPT !.own = FALSE]]
  <2>1. wire' = [wire EXCEPT ![a] = v] /\ UNCHANGED <<nickVars, isConnected>>
        /\ asks' = [asks EXCEPT ![a] = [i \in DOMAIN asks[a] |-> FALSE]]
    BY <1>7 DEF Return, Timeout, Forget, connVars
  <2>2. wire[a] \in Seq(Lines) /\ cur[a] \in Nat /\ lib[a] \in Nat /\ Len(hist[a]) \in Nat
        /\ Ahead(wire[a], cur[a], lib[a], Len(hist[a]))
    BY <1>0 DEF NickInv
  <2>3. v \in Seq(Lines) /\ Ahead(v, cur[a], lib[a], Len(hist[a]))
    BY <2>2, ForgetAhead
  <2> HIDE DEF v
  <2>4. wire' \in [Bots -> Seq(Lines)] /\ asks' \in [Bots -> Seq(BOOLEAN)]
    <3>1. DOMAIN asks[a] = 1 .. Len(asks[a]) /\ Len(asks[a]) \in Nat
      BY <1>0
    <3>2. [i \in DOMAIN asks[a] |-> FALSE] \in Seq(BOOLEAN)
      BY <3>1
    <3> QED BY <1>0, <2>1, <2>3, <3>2
  <2>5. ASSUME NEW b \in Bots PROVE Ahead(wire[b], cur[b], lib[b], Len(hist[b]))'
    BY <1>0, <2>1, <2>3 DEF NickInv, nickVars
  <2> QED BY <1>0, <2>1, <2>4, <2>5 DEF NickInv, NickType, nickVars
<1> QED BY <1>1, <1>2, <1>3, <1>4, <1>5, <1>6, <1>7 DEF Next

(* Every step of the fleet is a step of the registers: the server's list grows
   by one nick at most, and a bot that stays online never goes back. *)
LEMMA StepRegister == NickInv /\ NickInv' /\ [Next]_vars => [Register!Next]_(Register!register)
<1> SUFFICES ASSUME NickInv, NickInv', [Next]_vars PROVE Register!Next
  OBVIOUS
<1>1. ASSUME NEW b \in Bots PROVE Register!Extended(b) /\ cur'[b] \in DOMAIN hist'[b]
  <2>1. hist \in [Bots -> Seq(Nicks)] /\ hist' \in [Bots -> Seq(Nicks)]
    BY DEF NickInv, NickType
  <2>2. UNCHANGED hist \/ \E a \in Bots, n \in Nicks : hist' = [hist EXCEPT ![a] = Append(@, n)]
    BY DEF Next, vars, nickVars, Tick, UpdateLook, UpdateAssign, Environment, Rename, Registers,
           Renamed, Drop, Answer, Callback, Recv001, RecvNick, RecvIson, RecvGone, Return, Timeout,
           Unregister, Unpoll
  <2>3. hist'[b] = hist[b] \/ \E n \in Nicks : hist'[b] = Append(hist[b], n)
    BY <2>1, <2>2
  <2>4. Register!Extended(b)
    <3>1. hist[b] \in Seq(Nicks) /\ Len(hist[b]) \in Nat
      BY <2>1
    <3>2. CASE hist'[b] = hist[b]
      <4>1. SubSeq(hist[b], 1, Len(hist[b])) = hist[b]
        BY <3>1
      <4> QED BY <3>1, <3>2, <4>1 DEF Register!Extended
    <3>3. ASSUME NEW n \in Nicks, hist'[b] = Append(hist[b], n) PROVE Register!Extended(b)
      <4>1. Len(Append(hist[b], n)) = Len(hist[b]) + 1
            /\ SubSeq(Append(hist[b], n), 1, Len(hist[b])) = hist[b]
        BY <3>1
      <4> QED BY <3>1, <3>3, <4>1 DEF Register!Extended
    <3> QED BY <2>3, <3>2, <3>3
  <2>5. cur'[b] \in 1 .. Len(hist'[b])
    BY DEF NickInv, Ahead
  <2> QED BY <2>1, <2>4, <2>5
<1>2. ASSUME NEW b \in Bots PROVE Register!Stays(b)
  <2>1. /\ cur \in [Bots -> Nat] /\ lib \in [Bots -> Nat] /\ isConnected \in [Bots -> BOOLEAN]
        /\ wire[b] \in Seq(Lines) /\ Ahead(wire[b], cur[b], lib[b], Len(hist[b]))
    BY DEF NickInv, NickType
  <2>2. cur'[b] >= cur[b] \/ ~isConnected'[b]
    <3>1. CASE UNCHANGED cur
      BY <2>1, <3>1
    <3>2. ASSUME NEW a \in Bots, Callback(a) PROVE cur'[b] >= cur[b] \/ ~isConnected'[b]
      <4>1. CASE a # b
        BY <2>1, <3>2, <4>1 DEF Callback, Recv001, RecvNick, RecvIson, RecvGone, Follow, Reconciled
      <4>2. CASE a = b /\ RecvGone(b)
        BY <2>1, <4>2 DEF RecvGone
      <4>3. CASE a = b /\ ~RecvGone(b)
        <5>1. wire[b] # <<>> /\ cur'[b] \in {cur[b], Head(wire[b]).at}
          BY <2>1, <3>2, <4>3 DEF Callback, Recv001, RecvNick, RecvIson, Follow, Reconciled, Receive
        <5>2. Head(wire[b]) = wire[b][1] /\ 1 \in DOMAIN wire[b]
          BY <2>1, <5>1
        <5>3. Head(wire[b]).at \in Nat /\ cur[b] <= Head(wire[b]).at
          BY <2>1, <5>2, LineAt DEF Ahead
        <5> QED BY <2>1, <5>1, <5>3
      <4> QED BY <3>2, <4>1, <4>2, <4>3
    <3>3. UNCHANGED cur \/ \E a \in Bots : Callback(a)
      BY DEF Next, vars, nickVars, Tick, UpdateLook, UpdateAssign, Environment, Rename, Registers,
             Drop, Answer, Return, Timeout, Unregister, Unpoll
    <3> QED BY <3>1, <3>2, <3>3
  <2> QED BY <2>2 DEF Register!Stays, Online, IsConnected
<1> QED BY <1>1, <1>2 DEF Register!Next

(* The bots are registers that follow the server, as far as safety goes: that a
   bot which stays online hears of every change is left to TLC (FollowsServer). *)
THEOREM FollowsSafely == Spec => Register!Safety
<1>1. Init => Register!Init
  <2> SUFFICES ASSUME Init PROVE Register!Init
    OBVIOUS
  <2>1. ASSUME NEW b \in Bots PROVE Len(hist[b]) = 1 /\ cur[b] = 1 /\ ~Online(b)
    BY DEF Init, Online, IsConnected
  <2> QED BY <2>1 DEF Register!Init
<1>2. Init => NickInv
  BY InitNick
<1>3. NickInv /\ [Next]_vars => NickInv'
  BY StepNick
<1>4. NickInv /\ NickInv' /\ [Next]_vars => [Register!Next]_(Register!register)
  BY StepRegister
<1> QED BY <1>1, <1>2, <1>3, <1>4, PTL DEF Spec, Register!Safety

(* A bot's nick is always one that the server has given to it, and so is every
   nick that a line on the wire speaks of. *)
THEOREM NickKnown == Spec => [](\A b \in Bots : Ahead(wire[b], cur[b], lib[b], Len(hist[b])))
<1>1. Init => NickInv
  BY InitNick
<1>2. NickInv /\ [Next]_vars => NickInv'
  BY StepNick
<1>3. NickInv => \A b \in Bots : Ahead(wire[b], cur[b], lib[b], Len(hist[b]))
  BY DEF NickInv
<1> QED BY <1>1, <1>2, <1>3, PTL DEF Spec
-----------------------------------------------------------------------------
(* The lists of the monitor.  No bot is in one of them twice, which is what
   bounds them, and the index with them. *)

Roster(s) == s \in Seq(Bots) /\ \A i, j \in DOMAIN s : s[i] = s[j] => i = j

(* t is the copy of the first n bots of s, as far as they are kept. *)
Copied(s, kept, n, t) ==
    /\ Roster(t)
    /\ \A e : Contains(t, e) <=> e \in kept /\ \E k \in 1 .. n : s[k] = e

(* A step of the loop. *)
Copy(s, kept, i, t) == IF s[i] \in kept THEN Append(t, s[i]) ELSE t

(* A nonempty set of naturals has a least element. *)
LEMMA Least == ASSUME NEW T, T \subseteq Nat, T # {} PROVE \E n \in T : \A m \in T : n <= m
<1>1. IsWellFoundedOn(OpToRel(<, Nat), Nat)
  BY NatLessThanWellFounded
<1>2. PICK x \in T : \A y \in T : <<y, x>> \notin OpToRel(<, Nat)
  BY <1>1, WFMin
<1>3. \A y \in T : ~(y < x)
  BY <1>2 DEF OpToRel
<1> QED BY <1>3

(* A bot that is not in a list may go to its end. *)
LEMMA RosterAppend ==
  ASSUME NEW t, Roster(t), NEW b \in Bots, ~Contains(t, b)
  PROVE  Roster(Append(t, b)) /\ \A e : Contains(Append(t, b), e) <=> Contains(t, e) \/ e = b
<1> DEFINE v == Append(t, b)
<1>1. t \in Seq(Bots) /\ Len(t) \in Nat /\ DOMAIN t = 1 .. Len(t)
  BY DEF Roster
<1>2. v \in Seq(Bots) /\ DOMAIN v = 1 .. Len(t) + 1 /\ Len(v) = Len(t) + 1
      /\ v[Len(t) + 1] = b /\ \A i \in 1 .. Len(t) : v[i] = t[i]
  BY <1>1
<1> HIDE DEF v
<1>3. \A i \in 1 .. Len(t) : t[i] # b
  BY DEF Contains
<1>4. ASSUME NEW i \in DOMAIN v, NEW j \in DOMAIN v, v[i] = v[j] PROVE i = j
  <2>1. CASE i = Len(t) + 1 \/ j = Len(t) + 1
    BY <1>1, <1>2, <1>3, <1>4, <2>1
  <2>2. CASE i \in 1 .. Len(t) /\ j \in 1 .. Len(t)
    <3>1. t[i] = t[j]
      BY <1>2, <1>4, <2>2
    <3> QED BY <1>1, <2>2, <3>1 DEF Roster
  <2> QED BY <1>1, <1>2, <2>1, <2>2
<1>5. Roster(v)
  BY <1>2, <1>4 DEF Roster
<1>6. ASSUME NEW e PROVE Contains(v, e) <=> Contains(t, e) \/ e = b
  <2>1. ASSUME NEW i \in 1 .. Len(v), v[i] = e PROVE Contains(t, e) \/ e = b
    <3>1. i \in 1 .. Len(t) \/ i = Len(t) + 1
      BY <1>1, <1>2, <2>1
    <3> QED BY <1>2, <2>1, <3>1 DEF Contains
  <2>2. ASSUME NEW i \in 1 .. Len(t), t[i] = e PROVE Contains(v, e)
    <3>1. i \in 1 .. Len(v) /\ v[i] = e
      BY <1>1, <1>2, <2>2
    <3> QED BY <3>1 DEF Contains
  <2>3. Contains(v, b)
    <3>1. Len(t) + 1 \in 1 .. Len(v)
      BY <1>1, <1>2
    <3> QED BY <1>2, <3>1 DEF Contains
  <2>4. Contains(t, e) => Contains(v, e)
    BY <2>2 DEF Contains
  <2>5. Contains(v, e) => Contains(t, e) \/ e = b
    BY <2>1 DEF Contains
  <2> QED BY <2>3, <2>4, <2>5
<1> QED BY <1>5, <1>6 DEF v

(* One step of the loop keeps the copy a copy. *)
LEMMA CopyStep ==
  ASSUME NEW s, Roster(s), NEW kept, NEW i \in 1 .. Len(s), NEW t, Copied(s, kept, i - 1, t)
  PROVE  Copied(s, kept, i, Copy(s, kept, i, t))
<1>1. s \in Seq(Bots) /\ Len(s) \in Nat /\ DOMAIN s = 1 .. Len(s) /\ i \in Nat \ {0}
  BY DEF Roster
<1>2. s[i] \in Bots
  BY <1>1
<1>3. Roster(t) /\ \A e : Contains(t, e) <=> e \in kept /\ \E k \in 1 .. i - 1 : s[k] = e
  BY DEF Copied
<1>4. \A e : (\E k \in 1 .. i : s[k] = e) <=> (\E k \in 1 .. i - 1 : s[k] = e) \/ e = s[i]
  <2>1. \A k : k \in 1 .. i <=> k \in 1 .. i - 1 \/ k = i
    BY <1>1
  <2> QED BY <2>1
<1>5. CASE s[i] \in kept
  <2>1. ~Contains(t, s[i])
    <3>1. \A k \in 1 .. i - 1 : s[k] # s[i]
      <4>1. \A k \in 1 .. i - 1 : k \in DOMAIN s /\ i \in DOMAIN s /\ k # i
        BY <1>1
      <4> QED BY <4>1 DEF Roster
    <3> QED BY <1>3, <3>1
  <2>2. Roster(Append(t, s[i])) /\ \A e : Contains(Append(t, s[i]), e) <=> Contains(t, e) \/ e = s[i]
    BY <1>2, <1>3, <2>1, RosterAppend
  <2>3. \A e : Contains(Append(t, s[i]), e) <=> e \in kept /\ \E k \in 1 .. i : s[k] = e
    BY <1>3, <1>4, <1>5, <2>2
  <2>4. Copy(s, kept, i, t) = Append(t, s[i])
    BY <1>5 DEF Copy
  <2> QED BY <2>2, <2>3, <2>4 DEF Copied
<1>6. CASE s[i] \notin kept
  <2>1. \A e : Contains(t, e) <=> e \in kept /\ \E k \in 1 .. i : s[k] = e
    BY <1>3, <1>4, <1>6
  <2>2. Copy(s, kept, i, t) = t
    BY <1>6 DEF Copy
  <2> QED BY <1>3, <2>1, <2>2 DEF Copied
<1> QED BY <1>5, <1>6

LEMMA CopyNone == ASSUME NEW s, NEW kept PROVE Copied(s, kept, 0, <<>>)
<1>1. Roster(<<>>)
  BY DEF Roster
<1>2. \A e : ~Contains(<<>>, e)
  BY DEF Contains
<1>3. \A k : k \notin 1 .. 0
  OBVIOUS
<1> QED BY <1>1, <1>2, <1>3 DEF Copied

(* The first n steps of the loop. *)
Loop(s, kept, n, f) ==
    /\ DOMAIN f = 0 .. n /\ f[0] = <<>>
    /\ \A i \in 1 .. n : f[i] = Copy(s, kept, i, f[i - 1])

(* There is such a function: the shortest loop without one would be one step
   longer than a loop with one. *)
LEMMA LoopExists ==
  ASSUME NEW s, NEW kept, NEW n \in Nat PROVE \E f : Loop(s, kept, n, f)
<1> DEFINE T == {m \in Nat : ~\E f : Loop(s, kept, m, f)}
<1>1. T = {}
  <2> SUFFICES ASSUME T # {} PROVE FALSE
    OBVIOUS
  <2>1. PICK m \in T : \A k \in T : m <= k
    BY Least
  <2>2. m \in Nat /\ ~\E f : Loop(s, kept, m, f)
    OBVIOUS
  <2>3. m # 0
    <3>1. Loop(s, kept, 0, [i \in 0 .. 0 |-> <<>>])
      BY DEF Loop
    <3> QED BY <2>2, <3>1
  <2>4. m - 1 \in Nat /\ ~(m <= m - 1)
    BY <2>2, <2>3
  <2>5. m - 1 \notin T
    BY <2>1, <2>4
  <2>6. PICK f : Loop(s, kept, m - 1, f)
    BY <2>4, <2>5
  <2> DEFINE g == [i \in 0 .. m |-> IF i = m THEN Copy(s, kept, m, f[m - 1]) ELSE f[i]]
  <2>7. DOMAIN g = 0 .. m /\ g[0] = <<>>
    BY <2>2, <2>3, <2>6 DEF Loop
  <2>8. ASSUME NEW i \in 1 .. m PROVE g[i] = Copy(s, kept, i, g[i - 1])
    <3>1. g[i - 1] = f[i - 1]
      BY <2>2
    <3>2. CASE i = m
      <4>1. g[m] = Copy(s, kept, m, f[m - 1])
        BY <2>2
      <4> QED BY <3>1, <3>2, <4>1
    <3>3. CASE i # m
      <4>1. i \in 1 .. m - 1 /\ i \in 0 .. m
        BY <2>2, <3>3
      <4>2. f[i] = Copy(s, kept, i, f[i - 1])
        BY <2>6, <4>1 DEF Loop
      <4>3. g[i] = f[i]
        BY <3>3, <4>1
      <4> QED BY <3>1, <4>2, <4>3
    <3> QED BY <3>2, <3>3
  <2> HIDE DEF g
  <2>9. Loop(s, kept, m, g)
    BY <2>7, <2>8 DEF Loop
  <2> QED BY <2>2, <2>9
<1> QED BY <1>1

(* Kept is what the loop of all bots of s ends with. *)
LEMMA PassedLoop ==
  ASSUME NEW s, Roster(s), NEW kept PROVE Loop(s, kept, Len(s), Passed(s, kept))
<1> DEFINE n == Len(s)
           Onward(h) == [i \in 0 .. n |-> IF i = 0 THEN <<>> ELSE Copy(s, kept, i, h[i - 1])]
           a == Passed(s, kept)
<1>1. n \in Nat
  BY DEF Roster
<1>2. PICK f : Loop(s, kept, n, f)
  BY <1>1, LoopExists
<1>3. a = CHOOSE h : h = Onward(h)
  BY DEF Passed, Copy
<1> DEFINE g == [i \in 0 .. n |-> f[i]]
<1>4. Loop(s, kept, n, g)
  <2>1. f[0] = <<>> /\ \A i \in 1 .. n : f[i] = Copy(s, kept, i, f[i - 1])
    BY <1>2 DEF Loop
  <2>2. 0 \in 0 .. n /\ \A i \in 1 .. n : i \in 0 .. n /\ i - 1 \in 0 .. n
    BY <1>1
  <2> HIDE DEF n
  <2>3. DOMAIN g = 0 .. n /\ g[0] = <<>>
    BY <2>1, <2>2
  <2>4. ASSUME NEW i \in 1 .. n PROVE g[i] = Copy(s, kept, i, g[i - 1])
    <3>1. g[i] = f[i] /\ g[i - 1] = f[i - 1]
      BY <2>2
    <3> QED BY <2>1, <3>1
  <2> QED BY <2>3, <2>4 DEF Loop
<1>5. g = Onward(g)
  <2>1. g[0] = <<>> /\ \A i \in 1 .. n : g[i] = Copy(s, kept, i, g[i - 1])
    BY <1>4 DEF Loop
  <2>2. \A i \in 0 .. n : i = 0 \/ i \in 1 .. n
    BY <1>1
  <2>3. g = [i \in 0 .. n |-> g[i]]
    OBVIOUS
  <2> HIDE DEF g, n
  <2> QED BY <2>1, <2>2, <2>3
<1>6. a = Onward(a)
  BY <1>3, <1>5
<1> HIDE DEF a
<1>7. DOMAIN a = 0 .. n /\ a[0] = <<>> /\ \A i \in 1 .. n : a[i] = Copy(s, kept, i, a[i - 1])
  <2>1. \A i \in 1 .. n : i \in 0 .. n /\ i # 0
    BY <1>1
  <2>2. 0 \in 0 .. n
    BY <1>1
  <2> HIDE DEF n
  <2> QED BY <1>6, <2>1, <2>2
<1> QED BY <1>7 DEF Loop, a

(* Kept leaves out the bots that are not kept, and no others, and lists none
   twice. *)
LEMMA KeptFacts ==
  ASSUME NEW s, Roster(s), NEW kept
  PROVE  /\ Roster(Kept(s, kept))
         /\ \A e : Contains(Kept(s, kept), e) <=> e \in kept /\ Contains(s, e)
<1> DEFINE n == Len(s)
           a == Passed(s, kept)
           U == {i \in 0 .. n : ~Copied(s, kept, i, a[i])}
<1>1. n \in Nat
  BY DEF Roster
<1>2. Loop(s, kept, n, a)
  BY PassedLoop
<1> HIDE DEF a
<1>3. U = {}
  <2> SUFFICES ASSUME U # {} PROVE FALSE
    OBVIOUS
  <2>1. U \subseteq Nat
    BY <1>1
  <2>2. PICK i \in U : \A k \in U : i <= k
    BY <2>1, Least
  <2>3. i \in 0 .. n /\ ~Copied(s, kept, i, a[i])
    OBVIOUS
  <2>4. i # 0
    BY <1>2, <2>3, CopyNone DEF Loop
  <2>5. i \in 1 .. n /\ i - 1 \in 0 .. n /\ ~(i <= i - 1)
    BY <1>1, <2>3, <2>4
  <2>6. i - 1 \notin U
    BY <2>2, <2>5
  <2>7. Copied(s, kept, i - 1, a[i - 1])
    BY <2>5, <2>6
  <2>8. a[i] = Copy(s, kept, i, a[i - 1])
    BY <1>2, <2>5 DEF Loop
  <2> QED BY <2>3, <2>5, <2>7, <2>8, CopyStep
<1>4. n \in 0 .. n
  BY <1>1
<1>5. Copied(s, kept, n, a[n])
  BY <1>3, <1>4
<1>6. Kept(s, kept) = a[n]
  BY DEF Kept, a
<1> HIDE DEF n, U
<1>7. Roster(a[n]) /\ \A e : Contains(a[n], e) <=> e \in kept /\ \E k \in 1 .. n : s[k] = e
  BY <1>5 DEF Copied
<1> QED BY <1>6, <1>7 DEF Contains, n

(* A list without repetition is no longer than there are bots. *)
LEMMA RosterBound ==
  ASSUME NEW s, Roster(s) PROVE Len(s) \in Nat /\ Len(s) <= Cardinality(Bots)
<1> DEFINE n == Len(s)
<1>1. n \in Nat /\ DOMAIN s = 1 .. n /\ s \in [1 .. n -> Bots]
  BY DEF Roster
<1>2. s \in Injection(1 .. n, Bots)
  BY <1>1 DEF Roster, Injection, IsInjective
<1>3. IsFiniteSet(1 .. n) /\ Cardinality(1 .. n) = n
  <2>1. Cardinality(1 .. n) = IF 1 > n THEN 0 ELSE n - 1 + 1
    BY <1>1, FS_Interval
  <2>2. IsFiniteSet(1 .. n)
    BY <1>1, FS_Interval
  <2> QED BY <1>1, <2>1, <2>2
<1>4. Cardinality(1 .. n) <= Cardinality(Bots)
  BY <1>2, FS_Injection
<1> QED BY <1>1, <1>3, <1>4

(* SetBots lists every bot once. *)
LEMMA AllListed == Roster(SetToSeq(Bots))
<1> DEFINE n == Cardinality(Bots)
<1>1. n \in Nat /\ ExistsBijection(1 .. n, Bots)
  BY FS_CardinalityType
<1>2. \E f \in [1 .. n -> Bots] : IsInjective(f)
  BY <1>1 DEF ExistsBijection, Bijection, Injection
<1>3. SetToSeq(Bots) = CHOOSE f \in [1 .. n -> Bots] : IsInjective(f)
  BY DEF SetToSeq
<1>4. SetToSeq(Bots) \in [1 .. n -> Bots] /\ IsInjective(SetToSeq(Bots))
  BY <1>2, <1>3
<1>5. SetToSeq(Bots) \in Seq(Bots)
  BY <1>1, <1>4
<1> QED BY <1>4, <1>5 DEF Roster, IsInjective

(* The index is one of a list that may have been replaced since, and a bot that
   is leaving is not in the list that the next one is made from. *)
PollInv ==
    /\ Roster(bots) /\ Roster(polled) /\ (update = None \/ Roster(update))
    /\ botIndex \in 0 .. Cardinality(Bots) - 1
    /\ leaving \in [Bots -> {"no", "polled", "done"}]
    /\ \A b \in Bots : leaving[b] # "no" => ~Contains(bots, b)

LEMMA SomeBot == Cardinality(Bots) \in Nat \ {0}
<1>1. Cardinality(Bots) \in Nat
  BY FS_CardinalityType
<1>2. Cardinality(Bots) # 0
  BY FS_EmptySet
<1> QED BY <1>1, <1>2

LEMMA InitPoll == Init => PollInv
<1> SUFFICES ASSUME Init PROVE PollInv
  OBVIOUS
<1>1. Roster(<<>>)
  BY DEF Roster
<1>2. bots = SetToSeq(Bots) /\ polled = <<>> /\ botIndex = 0 /\ update = None
      /\ leaving = [b \in Bots |-> "no"]
  BY DEF Init
<1>3. botIndex \in 0 .. Cardinality(Bots) - 1
  BY <1>2, SomeBot
<1> QED BY <1>1, <1>2, <1>3, AllListed DEF PollInv

LEMMA StepPoll == PollInv /\ [Next]_vars => PollInv'
<1> SUFFICES ASSUME PollInv, [Next]_vars PROVE PollInv'
  OBVIOUS
<1>0. /\ Roster(bots) /\ Roster(polled) /\ (update = None \/ Roster(update))
      /\ botIndex \in 0 .. Cardinality(Bots) - 1
      /\ leaving \in [Bots -> {"no", "polled", "done"}]
      /\ \A b \in Bots : leaving[b] # "no" => ~Contains(bots, b)
  BY DEF PollInv
<1>1. CASE Tick
  <2>1. Len(polled) \in Nat /\ Len(polled) <= Cardinality(Bots)
    BY <1>0, RosterBound
  <2>2. polled # <<>> /\ botIndex' = (botIndex + 1) % Len(polled)
        /\ UNCHANGED <<bots, polled, update, leaving>>
    BY <1>1 DEF Tick
  <2>3. Len(polled) # 0
    BY <1>0, <2>2 DEF Roster
  <2> DEFINE n == Len(polled)
  <2>4. ASSUME NEW m \in Nat \ {0}, NEW i \in Nat PROVE i % m \in 0 .. m - 1
    OBVIOUS
  <2>5. botIndex' \in 0 .. n - 1
    <3>1. botIndex + 1 \in Nat /\ n \in Nat \ {0}
      BY <1>0, <2>1, <2>3, SomeBot
    <3> HIDE DEF n
    <3>2. (botIndex + 1) % n \in 0 .. n - 1
      BY <2>4, <3>1
    <3> QED BY <2>2, <3>2 DEF n
  <2>6. botIndex' \in 0 .. Cardinality(Bots) - 1
    BY <2>1, <2>5, SomeBot
  <2> QED BY <1>0, <2>2, <2>6 DEF PollInv
<1>2. CASE UpdateLook
  <2>1. update' = Kept(bots, {b \in Bots : IsConnected(b)})
        /\ UNCHANGED <<bots, polled, botIndex, leaving>>
    BY <1>2 DEF UpdateLook
  <2>2. Roster(update')
    BY <1>0, <2>1, KeptFacts
  <2> QED BY <1>0, <2>1, <2>2 DEF PollInv
<1>3. CASE UpdateAssign
  BY <1>0, <1>3 DEF UpdateAssign, PollInv
<1>4. ASSUME NEW a \in Bots, Unregister(a) PROVE PollInv'
  <2>1. leaving' = [leaving EXCEPT ![a] = "polled"] /\ bots' = Kept(bots, Bots \ {a})
        /\ UNCHANGED <<polled, botIndex, update>>
    BY <1>4 DEF Unregister
  <2>2. Roster(bots') /\ \A e : Contains(bots', e) <=> e \in Bots \ {a} /\ Contains(bots, e)
    BY <1>0, <2>1, KeptFacts
  <2>3. \A b \in Bots : leaving'[b] # "no" => ~Contains(bots', b)
    BY <1>0, <2>1, <2>2
  <2> QED BY <1>0, <2>1, <2>2, <2>3 DEF PollInv
<1>5. ASSUME NEW a \in Bots, Unpoll(a) PROVE PollInv'
  <2>1. leaving[a] = "polled" /\ leaving' = [leaving EXCEPT ![a] = "done"]
        /\ polled' = Kept(polled, Bots \ {a}) /\ UNCHANGED <<bots, botIndex, update>>
    BY <1>5 DEF Unpoll
  <2>2. Roster(polled')
    BY <1>0, <2>1, KeptFacts
  <2>3. \A b \in Bots : leaving'[b] # "no" => ~Contains(bots', b)
    BY <1>0, <2>1
  <2> QED BY <1>0, <2>1, <2>2, <2>3 DEF PollInv
<1>6. ASSUME UNCHANGED pollVars PROVE PollInv'
  BY <1>0, <1>6 DEF pollVars, PollInv
<1>7. ASSUME NEW a \in Bots, Environment(a) \/ Answer(a) \/ Callback(a) \/ Return(a) \/ Timeout(a)
      PROVE  UNCHANGED pollVars
  BY <1>7 DEF Environment, Rename, Registers, Drop, Answer, Callback, Recv001, RecvNick, RecvIson,
              RecvGone, Return, Timeout
<1>8. CASE UNCHANGED vars
  BY <1>6, <1>8 DEF vars
<1> QED BY <1>1, <1>2, <1>3, <1>4, <1>5, <1>6, <1>7, <1>8 DEF Next

-----------------------------------------------------------------------------
(* What else TypeOK says. *)

RestInv ==
    /\ hist \in [Bots -> Seq(Nicks)] /\ \A b \in Bots : Len(hist[b]) <= MaxChanges
    /\ link \in [Bots -> BOOLEAN] /\ req \in [Bots -> {"none", "waiting", "own", "late"}]
    /\ left \in [Trouble \cup {"any"} -> Nat]

LEMMA InitRest == Init => RestInv
<1> SUFFICES ASSUME Init PROVE RestInv
  OBVIOUS
<1>1. (CHOOSE n \in Nicks : TRUE) \in Nicks
  OBVIOUS
<1>2. hist \in [Bots -> Seq(Nicks)] /\ \A b \in Bots : Len(hist[b]) <= MaxChanges
  BY <1>1 DEF Init
<1>3. link \in [Bots -> BOOLEAN] /\ req \in [Bots -> {"none", "waiting", "own", "late"}]
  BY DEF Init
<1>4. left \in [Trouble \cup {"any"} -> Nat]
  BY DEF Init
<1> QED BY <1>2, <1>3, <1>4 DEF RestInv

LEMMA SpendLeft ==
  ASSUME left \in [Trouble \cup {"any"} -> Nat], NEW t \in Trouble, Spend(t)
  PROVE  left' \in [Trouble \cup {"any"} -> Nat]
<1>1. left[t] \in Nat \ {0} /\ left["any"] \in Nat \ {0} /\ t # "any"
  BY DEF Spend, Trouble
<1>2. left[t] - 1 \in Nat /\ left["any"] - 1 \in Nat
  BY <1>1
<1>3. left' = [left EXCEPT ![t] = left[t] - 1, !["any"] = left["any"] - 1]
  BY <1>1 DEF Spend
<1> QED BY <1>2, <1>3

LEMMA StepRest == RestInv /\ [Next]_vars => RestInv'
<1> SUFFICES ASSUME RestInv, [Next]_vars PROVE RestInv'
  OBVIOUS
<1>0. /\ hist \in [Bots -> Seq(Nicks)] /\ \A b \in Bots : Len(hist[b]) <= MaxChanges
      /\ link \in [Bots -> BOOLEAN] /\ req \in [Bots -> {"none", "waiting", "own", "late"}]
      /\ left \in [Trouble \cup {"any"} -> Nat]
  BY DEF RestInv
<1>1. UNCHANGED left \/ \E t \in Trouble : Spend(t)
  BY DEF Next, vars, nickVars, Tick, UpdateLook, UpdateAssign, Environment, Rename, Registers,
         Renamed, Drop, Answer, Callback, Recv001, RecvNick, RecvIson, RecvGone, Return, Timeout,
         Unregister, Unpoll, Trouble
<1>2. left' \in [Trouble \cup {"any"} -> Nat]
  BY <1>0, <1>1, SpendLeft
<1>3. UNCHANGED link \/ \E a \in Bots : \E x \in BOOLEAN : link' = [link EXCEPT ![a] = x]
  BY DEF Next, vars, connVars, Tick, UpdateLook, UpdateAssign, Environment, Rename, Registers,
         Drop, Answer, Callback, Recv001, RecvNick, RecvIson, RecvGone, Return, Timeout,
         Unregister, Unpoll
<1>4. link' \in [Bots -> BOOLEAN]
  BY <1>0, <1>3
<1>5. UNCHANGED hist \/ \E a \in Bots : \E n \in Nicks : Renamed(a, n)
  BY DEF Next, vars, nickVars, Tick, UpdateLook, UpdateAssign, Environment, Rename, Registers,
         Drop, Answer, Callback, Recv001, RecvNick, RecvIson, RecvGone, Return, Timeout,
         Unregister, Unpoll
<1>6. hist' \in [Bots -> Seq(Nicks)] /\ \A b \in Bots : Len(hist'[b]) <= MaxChanges
  <2>1. CASE UNCHANGED hist
    BY <1>0, <2>1
  <2>2. ASSUME NEW a \in Bots, NEW n \in Nicks, Renamed(a, n)
        PROVE  hist' \in [Bots -> Seq(Nicks)] /\ \A b \in Bots : Len(hist'[b]) <= MaxChanges
    <3>1. hist[a] \in Seq(Nicks) /\ Len(hist[a]) \in Nat /\ Len(hist[a]) < MaxChanges
          /\ hist' = [hist EXCEPT ![a] = Append(hist[a], n)]
      BY <1>0, <2>2 DEF Renamed
    <3>2. Append(hist[a], n) \in Seq(Nicks) /\ Len(Append(hist[a], n)) = Len(hist[a]) + 1
      BY <3>1
    <3>3. Len(Append(hist[a], n)) <= MaxChanges
      BY <3>1, <3>2
    <3> QED BY <1>0, <3>1, <3>2, <3>3
  <2> QED BY <1>5, <2>1, <2>2
<1>7. req' \in [Bots -> {"none", "waiting", "own", "late"}]
  <2>1. CASE Tick
    <3> DEFINE a == polled[(botIndex % Len(polled)) + 1]
    <3>1. req' = req \/ req' = [req EXCEPT ![a] = "waiting"]
      BY <2>1 DEF Tick, Send
    <3> HIDE DEF a
    <3> QED BY <1>0, <3>1
  <2>2. ASSUME NEW a \in Bots, RecvIson(a) PROVE req' \in [Bots -> {"none", "waiting", "own", "late"}]
    BY <1>0, <2>2 DEF RecvIson
  <2>3. ASSUME NEW a \in Bots, Return(a) \/ Timeout(a)
        PROVE  req' \in [Bots -> {"none", "waiting", "own", "late"}]
    BY <1>0, <2>3 DEF Return, Timeout, Forget
  <2>4. \/ UNCHANGED req \/ Tick
        \/ \E a \in Bots : RecvIson(a) \/ Return(a) \/ Timeout(a)
    BY DEF Next, vars, askVars, UpdateLook, UpdateAssign, Environment, Rename, Registers,
           Drop, Answer, Callback, Recv001, RecvNick, RecvGone, Unregister, Unpoll
  <2> QED BY <1>0, <2>1, <2>2, <2>3, <2>4
<1> QED BY <1>2, <1>4, <1>6, <1>7 DEF RestInv

(* NickInv puts every position between 1 and the length of the server's list,
   and RestInv bounds that length. *)
LEMMA InvTypeOK == NickInv /\ PollInv /\ RestInv => TypeOK
<1> SUFFICES ASSUME NickInv, PollInv, RestInv PROVE TypeOK
  OBVIOUS
<1>0. /\ hist \in [Bots -> Seq(Nicks)] /\ wire \in [Bots -> Seq(Lines)]
      /\ asks \in [Bots -> Seq(BOOLEAN)] /\ isConnected \in [Bots -> BOOLEAN]
      /\ cur \in [Bots -> Nat] /\ lib \in [Bots -> Nat]
      /\ \A b \in Bots : Len(hist[b]) \in Nat /\ Len(hist[b]) <= MaxChanges
      /\ \A b \in Bots : Ahead(wire[b], cur[b], lib[b], Len(hist[b]))
  BY DEF NickInv, NickType, RestInv
<1>1. hist \in [Bots -> BoundedSeq(Nicks, MaxChanges)]
  <2>1. ASSUME NEW b \in Bots PROVE hist[b] \in BoundedSeq(Nicks, MaxChanges)
    <3>1. Len(hist[b]) \in 0 .. MaxChanges /\ hist[b] \in [1 .. Len(hist[b]) -> Nicks]
      BY <1>0
    <3> QED BY <3>1 DEF BoundedSeq, SeqOf
  <2> QED BY <1>0, <2>1
<1>2. \A b \in Bots : cur[b] \in DOMAIN hist[b] /\ lib[b] \in DOMAIN hist[b]
  BY <1>0 DEF Ahead
<1>3. wire \in [Bots -> Seq(Line)]
  <2>1. ASSUME NEW b \in Bots PROVE wire[b] \in Seq(Line)
    <3>1. wire[b] \in Seq(Lines) /\ Len(wire[b]) \in Nat /\ DOMAIN wire[b] = 1 .. Len(wire[b])
      BY <1>0
    <3>2. ASSUME NEW i \in DOMAIN wire[b] PROVE wire[b][i] \in Line
      <4>1. wire[b][i] \in Lines /\ wire[b][i].at \in Nat
        BY <3>1, LineAt
      <4>2. 1 <= wire[b][i].at /\ wire[b][i].at <= MaxChanges
        BY <1>0, <4>1 DEF Ahead
      <4>3. wire[b][i].at \in 1 .. MaxChanges
        BY <4>1, <4>2
      <4> QED BY <4>1, <4>3 DEF Lines, Line
    <3>3. wire[b] \in [1 .. Len(wire[b]) -> Line]
      BY <3>1, <3>2
    <3> QED BY <3>1, <3>3
  <2> QED BY <1>0, <2>1
<1>4. /\ bots \in Seq(Bots) /\ polled \in Seq(Bots) /\ (update = None \/ update \in Seq(Bots))
      /\ botIndex \in 0 .. Cardinality(Bots) - 1 /\ leaving \in [Bots -> {"no", "polled", "done"}]
  BY DEF PollInv, Roster
<1>5. link \in [Bots -> BOOLEAN] /\ req \in [Bots -> {"none", "waiting", "own", "late"}]
      /\ left \in [Trouble \cup {"any"} -> Nat]
  BY DEF RestInv
<1> QED BY <1>0, <1>1, <1>2, <1>3, <1>4, <1>5 DEF TypeOK

(* The type invariant; its sharpest part is the index, which stays one of the
   list although the list is replaced under it. *)
THEOREM TypeCorrect == Spec => []TypeOK
<1>1. Init => NickInv /\ PollInv /\ RestInv
  BY InitNick, InitPoll, InitRest
<1>2. NickInv /\ PollInv /\ RestInv /\ [Next]_vars => NickInv' /\ PollInv' /\ RestInv'
  BY StepNick, StepPoll, StepRest
<1>3. NickInv /\ PollInv /\ RestInv => TypeOK
  BY InvTypeOK
<1> QED BY <1>1, <1>2, <1>3, PTL DEF Spec

-----------------------------------------------------------------------------
(* Bots that were removed. *)

\* UnregisterBot is through with b, and no update that lists it is on its way.
Forgotten(b) ==
    /\ leaving[b] = "done" /\ ~Contains(polled, b)
    /\ update = None \/ ~Contains(update, b)

LEMMA StepForgotten ==
  ASSUME NEW b \in Bots, PollInv, Forgotten(b), [Next]_vars PROVE Forgotten(b)'
<1>0. /\ Roster(bots) /\ Roster(polled) /\ leaving \in [Bots -> {"no", "polled", "done"}]
      /\ leaving[b] = "done" /\ ~Contains(bots, b) /\ ~Contains(polled, b)
      /\ (update = None \/ ~Contains(update, b))
  BY DEF PollInv, Forgotten
<1>1. CASE UpdateLook
  <2>1. update' = Kept(bots, {a \in Bots : IsConnected(a)}) /\ UNCHANGED <<polled, leaving>>
    BY <1>1 DEF UpdateLook
  <2>2. ~Contains(update', b)
    BY <1>0, <2>1, KeptFacts
  <2> QED BY <1>0, <2>1, <2>2 DEF Forgotten
<1>2. CASE UpdateAssign
  BY <1>0, <1>2 DEF UpdateAssign, Forgotten
<1>3. CASE Tick
  BY <1>0, <1>3 DEF Tick, Forgotten
<1>4. ASSUME NEW a \in Bots, Unregister(a) PROVE Forgotten(b)'
  <2>1. leaving[a] = "no" /\ leaving' = [leaving EXCEPT ![a] = "polled"] /\ UNCHANGED <<polled, update>>
    BY <1>4 DEF Unregister
  <2> QED BY <1>0, <2>1 DEF Forgotten
<1>5. ASSUME NEW a \in Bots, Unpoll(a) PROVE Forgotten(b)'
  <2>1. leaving' = [leaving EXCEPT ![a] = "done"] /\ polled' = Kept(polled, Bots \ {a})
        /\ UNCHANGED update
    BY <1>5 DEF Unpoll
  <2>2. ~Contains(polled', b)
    BY <1>0, <2>1, KeptFacts
  <2>3. leaving'[b] = "done"
    BY <1>0, <2>1
  <2> QED BY <1>0, <2>1, <2>2, <2>3 DEF Forgotten
<1>6. ASSUME UNCHANGED pollVars PROVE Forgotten(b)'
  BY <1>0, <1>6 DEF pollVars, Forgotten
<1>7. ASSUME NEW a \in Bots, Environment(a) \/ Answer(a) \/ Callback(a) \/ Return(a) \/ Timeout(a)
      PROVE  UNCHANGED pollVars
  BY <1>7 DEF Environment, Rename, Registers, Drop, Answer, Callback, Recv001, RecvNick, RecvIson,
              RecvGone, Return, Timeout
<1>8. CASE UNCHANGED vars
  BY <1>6, <1>8 DEF vars
<1> QED BY <1>1, <1>2, <1>3, <1>4, <1>5, <1>6, <1>7, <1>8 DEF Next

(* The safety part of RemovedForgotten: once the update that may still list a
   removed bot is through and left it out, it is never polled again. *)
THEOREM StaysForgotten ==
  ASSUME NEW b \in Bots PROVE Spec => [](Forgotten(b) => []~Contains(polled, b))
<1>1. Init => PollInv
  BY InitPoll
<1>2. PollInv /\ [Next]_vars => PollInv'
  BY StepPoll
<1>3. PollInv /\ Forgotten(b) /\ [Next]_vars => Forgotten(b)'
  BY StepForgotten
<1>4. Forgotten(b) => ~Contains(polled, b)
  BY DEF Forgotten
<1> QED BY <1>1, <1>2, <1>3, <1>4, PTL DEF Spec
=============================================================================
