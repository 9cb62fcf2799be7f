---------------------------- MODULE EventHubProofs ----------------------------
(***************************************************************************)
(* The type invariant, LiveAccounted and NoGap of EventHub, for any        *)
(* publishers, topics, filters, replay lengths and sizes of the queues.    *)
(*                                                                         *)
(* LiveAccounted counts events, so it needs that an event is offered to a  *)
(* subscription once: numbers are never given twice (Numbered).  NoGap is  *)
(* about the ring at the moment of the replay, and needs that the ring is  *)
(* the end of the log, in which every event is found once (Logged).        *)
(***************************************************************************)
EXTENDS EventHub, FiniteSetTheorems, NaturalsInduction, WellFoundedInduction, TLAPS

Sessions ==
  [pc : {"ready", "open", "replay", "flush", "answer", "gone"}, sub : {None} \cup DOMAIN subs,
   topics : SUBSET Topics, replay : Nat, todo : Seq(Event)]

\* The handler of a session that replays has a subscription, and there are no
\* more subscriptions than requests.
SessionTyped ==
  /\ sess \in Sessions
  /\ sess.pc \in {"replay", "flush"} => sess.sub \in DOMAIN subs
  /\ Len(subs) + (IF sess.pc = "open" THEN 1 ELSE 0) <= asked

Typed == TypeOK /\ SessionTyped

\* Numbers are given once: to the publications under way ...
Numbered ==
  \A p \in Publishers : pub[p].pc # "idle" =>
    /\ pub[p].event.seq <= seq
    /\ \A q \in Publishers : q # p /\ pub[q].pc # "idle" => pub[p].event.seq # pub[q].event.seq

\* ... and to the events of the log, of which the ring is the end.
Logged ==
  /\ \A k \in DOMAIN log : log[k].seq <= seq
  /\ \A k, l \in DOMAIN log : k # l => log[k].seq # log[l].seq
  /\ \A p \in Publishers, k \in DOMAIN log : pub[p].pc = "store" => log[k].seq # pub[p].event.seq
  /\ Len(ring) <= Len(log)
  /\ \A k \in DOMAIN ring : ring[k] = log[Len(log) - Len(ring) + k]

\* What was offered to a subscription is of the past, and what is about to be
\* offered is new to it; the lines speak of subscriptions that exist.
Offered ==
  /\ \A i \in DOMAIN subs :
       /\ IsFiniteSet(subs[i].due)
       /\ \A e \in subs[i].due : e.seq <= seq
       /\ \A p \in Publishers : pub[p].pc # "idle" => pub[p].event \notin subs[i].due
  /\ \A k \in DOMAIN Lines : Lines[k].type = "event" => Lines[k].id \in DOMAIN subs

Accounted == Offered /\ LiveAccounted

USE HubAssumption, NoneAssumption

-----------------------------------------------------------------------------
(* The events a replay picks.                                              *)

\* A nonempty set of naturals has a least element: induction without a
\* predicate.
LEMMA Least == ASSUME NEW T, T \subseteq Nat, T # {} PROVE \E n \in T : \A m \in T : n <= m
<1>1. IsWellFoundedOn(OpToRel(<, Nat), Nat)
  BY NatLessThanWellFounded
<1>2. PICK x \in T : \A y \in T : <<y, x>> \notin OpToRel(<, Nat)
  BY <1>1, WFMin
<1>3. \A y \in T : ~(y < x)
  BY <1>2 DEF OpToRel
<1> QED
  BY <1>3

Increasing(f, n) == \A i, j \in 1 .. n : i < j => f[i] < f[j]

\* A finite set of naturals can be put in order: the least counterexample
\* would be one by one element smaller.
LEMMA Orderable ==
  ASSUME NEW S \in SUBSET Nat, IsFiniteSet(S)
  PROVE  \E f \in [1 .. Cardinality(S) -> S] : Increasing(f, Cardinality(S))
<1> DEFINE Fails(n) == \E Q \in SUBSET Nat : /\ IsFiniteSet(Q) /\ Cardinality(Q) = n
                                           /\ ~\E f \in [1 .. n -> Q] : Increasing(f, n)
           T == {n \in Nat : Fails(n)}
<1>1. SUFFICES T = {}
  BY FS_CardinalityType
<1>2. SUFFICES ASSUME T # {} PROVE FALSE
  OBVIOUS
<1>3. PICK n \in T : \A m \in T : n <= m
  BY <1>2, Least
<1>4. PICK Q \in SUBSET Nat : /\ IsFiniteSet(Q) /\ Cardinality(Q) = n
                              /\ ~\E f \in [1 .. n -> Q] : Increasing(f, n)
  BY <1>3
<1>5. CASE n = 0
  <2>1. [i \in 1 .. 0 |-> 0] \in [1 .. n -> Q] /\ Increasing([i \in 1 .. 0 |-> 0], n)
    BY <1>5 DEF Increasing
  <2> QED
    BY <1>4, <2>1
<1>6. CASE n # 0
  <2>1. Q # {}
    BY <1>4, <1>6, FS_EmptySet
  <2>2. PICK least \in Q : \A k \in Q : least <= k
    BY <2>1, Least
  <2> DEFINE R == Q \ {least}
  <2>3. IsFiniteSet(R) /\ Cardinality(R) = n - 1
    BY <1>4, FS_RemoveElement
  <2>4. n - 1 \in Nat /\ n - 1 \notin T
    BY <1>3, <1>6
  <2>5. PICK g \in [1 .. n - 1 -> R] : Increasing(g, n - 1)
    BY <1>4, <2>3, <2>4
  <2> DEFINE f == [i \in 1 .. n |-> IF i = 1 THEN least ELSE g[i - 1]]
  <2>6. f \in [1 .. n -> Q]
    BY <1>3, <2>2, <2>5
  <2>7. Increasing(f, n)
    <3> SUFFICES ASSUME NEW i \in 1 .. n, NEW j \in 1 .. n, i < j PROVE f[i] < f[j]
      BY DEF Increasing
    <3>1. j - 1 \in 1 .. n - 1 /\ f[j] = g[j - 1] /\ g[j - 1] \in R
      BY <1>3, <2>5
    <3>2. CASE i = 1
      <4>1. f[i] = least /\ g[j - 1] \in Nat /\ least \in Nat
        BY <1>4, <3>1, <3>2
      <4> QED
        BY <2>2, <3>1, <4>1
    <3>3. CASE i # 1
      <4>1. i - 1 \in 1 .. n - 1 /\ f[i] = g[i - 1] /\ i - 1 < j - 1
        BY <1>3, <3>3
      <4> QED
        BY <2>5, <3>1, <4>1 DEF Increasing
    <3> QED
      BY <3>2, <3>3
  <2> QED
    BY <1>4, <2>6, <2>7
<1> QED
  BY <1>5, <1>6

\* InOrder lists a set of naturals in order.
LEMMA InOrderFacts ==
  ASSUME NEW S \in SUBSET Nat, IsFiniteSet(S)
  PROVE  InOrder(S) \in [1 .. Cardinality(S) -> S] /\ Increasing(InOrder(S), Cardinality(S))
  BY Orderable DEF InOrder, Increasing

\* The positions a replay picks are finitely many positions of the ring.
LEMMA LatestFacts ==
  ASSUME Typed, NEW s, NEW n \in Nat
  PROVE  /\ IsFiniteSet(Wanting(s)) /\ Wanting(s) \subseteq DOMAIN ring
         /\ Latest(s, n) \subseteq DOMAIN ring /\ IsFiniteSet(Latest(s, n))
<1>1. DOMAIN ring = 1 .. Len(ring) /\ Len(ring) \in Nat
  BY DEF Typed, TypeOK
<1>2. IsFiniteSet(DOMAIN ring)
  BY <1>1, FS_Interval
<1> QED
  BY <1>2, FS_Subset DEF Wanting, Latest

-----------------------------------------------------------------------------
(* What the helpers of the specification do to the types.                  *)

\* The fields of a subscriber.
LEMMA SubscriberFields ==
  ASSUME NEW s \in Subscriber
  PROVE  /\ s.topics \in SUBSET Topics /\ s.ch \in Seq(Event) /\ s.listed \in BOOLEAN
         /\ s.running \in BOOLEAN /\ s.hand \in {None} \cup Event /\ s.due \in SUBSET Event
         /\ s.dropped \in Nat /\ s.replayed \in SUBSET Event
  BY DEF Subscriber

\* An offer adds the event to due, and to the channel or to the count.
LEMMA OfferFacts ==
  ASSUME NEW s \in Subscriber, NEW e \in Event
  PROVE  \E o \in Subscriber :
           /\ o = Offer(s, e)
           /\ o.topics = s.topics /\ o.listed = s.listed /\ o.hand = s.hand /\ o.replayed = s.replayed
           /\ \/ /\ ~(s.listed /\ Wanted(s, e))
                 /\ o.due = s.due /\ o.dropped = s.dropped /\ o.ch = s.ch
              \/ /\ s.listed /\ Wanted(s, e) /\ o.due = s.due \cup {e}
                 /\ o.dropped = s.dropped /\ o.ch = Append(s.ch, e) /\ Len(s.ch) < ChanSize
              \/ /\ s.listed /\ Wanted(s, e) /\ o.due = s.due \cup {e}
                 /\ o.dropped = s.dropped + 1 /\ o.ch = s.ch
<1> DEFINE o == Offer(s, e)
<1>1. Append(s.ch, e) \in Seq(Event) /\ s.dropped + 1 \in Nat /\ s.due \cup {e} \in SUBSET Event
  BY SubscriberFields
<1>2. CASE ~(s.listed /\ Wanted(s, e))
  BY <1>2 DEF Offer
<1>3. CASE s.listed /\ Wanted(s, e) /\ Len(s.ch) < ChanSize
  <2>1. o = [s EXCEPT !.due = @ \cup {e}, !.ch = Append(@, e)]
    BY <1>3 DEF Offer
  <2> QED
    BY <1>1, <1>3, <2>1 DEF Subscriber
<1>4. CASE s.listed /\ Wanted(s, e) /\ ~(Len(s.ch) < ChanSize)
  <2>1. o = [s EXCEPT !.due = @ \cup {e}, !.dropped = @ + 1]
    BY <1>4 DEF Offer
  <2> QED
    BY <1>1, <1>4, <2>1 DEF Subscriber
<1> QED
  BY <1>2, <1>3, <1>4

\* The channel grows only while there is room.
LEMMA OfferChannel ==
  ASSUME NEW s \in Subscriber, NEW e \in Event
  PROVE  Offer(s, e).ch = s.ch \/ (Offer(s, e).ch = Append(s.ch, e) /\ Len(s.ch) < ChanSize)
  BY OfferFacts

\* Ending a subscription changes only whether it is listed.
LEMMA UnlistedFacts ==
  ASSUME TypeOK, NEW id \in {None} \cup DOMAIN subs
  PROVE  /\ Unlisted(id) \in Seq(Subscriber) /\ Len(Unlisted(id)) = Len(subs)
         /\ \A i \in DOMAIN subs :
              LET u == Unlisted(id)[i] IN
              /\ u.topics = subs[i].topics /\ u.ch = subs[i].ch /\ u.hand = subs[i].hand
              /\ u.due = subs[i].due /\ u.dropped = subs[i].dropped /\ u.replayed = subs[i].replayed
              /\ u.listed => subs[i].listed
<1>1. subs \in Seq(Subscriber)
  BY DEF TypeOK
<1>2. CASE id = None
  BY <1>1, <1>2 DEF Unlisted
<1>3. CASE id # None
  <2> DEFINE v == [subs[id] EXCEPT !.listed = FALSE]
  <2>1. id \in DOMAIN subs /\ Unlisted(id) = [subs EXCEPT ![id] = v] /\ subs[id] \in Subscriber
    BY <1>1, <1>3 DEF Unlisted
  <2>2. /\ v \in Subscriber /\ v.topics = subs[id].topics /\ v.ch = subs[id].ch /\ v.hand = subs[id].hand
        /\ v.due = subs[id].due /\ v.dropped = subs[id].dropped /\ v.replayed = subs[id].replayed
        /\ ~v.listed
    BY <2>1 DEF Subscriber
  <2> HIDE DEF v
  <2>3. Unlisted(id) \in Seq(Subscriber) /\ Len(Unlisted(id)) = Len(subs)
    BY <1>1, <2>1, <2>2
  <2>4. \A i \in DOMAIN subs : Unlisted(id)[i] = IF i = id THEN v ELSE subs[i]
    BY <1>1, <2>1
  <2> QED
    BY <2>2, <2>3, <2>4
<1> QED
  BY <1>2, <1>3

\* One subscriber changes.
LEMMA OneSubscriber ==
  ASSUME subs \in Seq(Subscriber), NEW i \in DOMAIN subs, NEW v \in Subscriber,
         subs' = [subs EXCEPT ![i] = v]
  PROVE  /\ subs' \in Seq(Subscriber) /\ Len(subs') = Len(subs) /\ DOMAIN subs' = DOMAIN subs
         /\ subs'[i] = v /\ \A j \in DOMAIN subs : j # i => subs'[j] = subs[j]
  OBVIOUS

\* A line joins the queue, or the connection is closed.
LEMMA SendFacts ==
  ASSUME TypeOK, NEW line \in Line, Send(line)
  PROVE  /\ out' \in Seq(Line) /\ Len(out') <= OutSize /\ conn' \in BOOLEAN
         /\ out' = Append(out, line) \/ out' = out
         /\ conn' => conn /\ out' = Append(out, line)
<1>1. out \in Seq(Line) /\ Len(out) <= OutSize /\ conn \in BOOLEAN
  BY DEF TypeOK
<1>2. Append(out, line) \in Seq(Line) /\ Len(Append(out, line)) = Len(out) + 1
  BY <1>1
<1>3. CASE Len(out) < OutSize
  BY <1>1, <1>2, <1>3 DEF Send
<1>4. CASE ~(Len(out) < OutSize)
  BY <1>1, <1>4 DEF Send
<1> QED
  BY <1>3, <1>4

\* The lines of the handler and of the pumps.
LEMMA LineFacts ==
  /\ \A e \in Event, via \in {"live", "replay"}, i \in Ids :
       [type |-> "event", event |-> e, via |-> via, id |-> i] \in Line
  /\ \A i \in Ids \cup {None} : [type |-> "done", id |-> i] \in Line
  BY DEF Line

\* Subscriptions are counted by the requests.
LEMMA IdFacts ==
  ASSUME Typed PROVE DOMAIN subs = 1 .. Len(subs) /\ Len(subs) \in Nat /\ DOMAIN subs \subseteq Ids
  BY DEF Typed, TypeOK, SessionTyped, Ids

-----------------------------------------------------------------------------
(* Type correctness, one lemma per action.                                 *)

\* A number is taken.
LEMMA NumberTyped == ASSUME Typed, NEW p \in Publishers, NEW t \in Topics, Number(p, t) PROVE Typed'
<1>1. [pc |-> "store", event |-> [seq |-> seq + 1, topic |-> t]] \in [pc : {"store", "fan"}, event : Event]
  BY DEF Typed, TypeOK, Number, Event
<1>2. seq' \in 0 .. MaxEvents
  BY DEF Typed, TypeOK, Number
<1>3. pub' \in [Publishers -> [pc : {"idle"}] \cup [pc : {"store", "fan"}, event : Event]]
  BY <1>1 DEF Typed, TypeOK, Number
<1>4. TypeOK'
  BY <1>2, <1>3 DEF Typed, TypeOK, Number
<1> QED
  BY <1>4 DEF Typed, SessionTyped, Sessions, Number

\* A publication under way has an event.
LEMMA PubFacts ==
  ASSUME Typed, NEW p \in Publishers
  PROVE  /\ pub[p].pc \in {"idle", "store", "fan"}
         /\ pub[p].pc # "idle" => pub[p] \in [pc : {"store", "fan"}, event : Event] /\ pub[p].event \in Event
  BY DEF Typed, TypeOK

\* The event enters the ring, which stays within its size.
LEMMA StoreTyped == ASSUME Typed, NEW p \in Publishers, Store(p) PROVE Typed'
<1> DEFINE e == pub[p].event
           old == IF Len(ring) = RingSize THEN Tail(ring) ELSE ring
<1>1. e \in Event /\ pub[p] \in [pc : {"store", "fan"}, event : Event]
  BY PubFacts DEF Store
<1>2. ring \in Seq(Event) /\ Len(ring) <= RingSize /\ log \in Seq(Event)
  BY DEF Typed, TypeOK
<1>3. old \in Seq(Event) /\ Len(old) < RingSize
  BY <1>2
<1>4. ring' = Append(old, e) /\ log' = Append(log, e)
  BY DEF Store
<1> HIDE DEF old, e
<1>5. ring' \in Seq(Event) /\ Len(ring') <= RingSize /\ log' \in Seq(Event)
  BY <1>1, <1>2, <1>3, <1>4
<1>6. [pub[p] EXCEPT !.pc = "fan"] \in [pc : {"store", "fan"}, event : Event]
  BY <1>1
<1>7. pub' \in [Publishers -> [pc : {"idle"}] \cup [pc : {"store", "fan"}, event : Event]]
  BY <1>6 DEF Typed, TypeOK, Store
<1>8. TypeOK'
  BY <1>5, <1>7 DEF Typed, TypeOK, Store
<1> QED
  BY <1>8 DEF Typed, SessionTyped, Sessions, Store

\* What the fan-out does to each subscriber.
LEMMA FanOutFacts ==
  ASSUME Typed, NEW p \in Publishers, FanOut(p)
  PROVE  /\ pub[p].event \in Event /\ subs' \in Seq(Subscriber) /\ Len(subs') = Len(subs)
         /\ DOMAIN subs' = DOMAIN subs
         /\ \A i \in DOMAIN subs : subs[i] \in Subscriber /\ subs'[i] = Offer(subs[i], pub[p].event)
<1>1. pub[p].event \in Event /\ subs \in Seq(Subscriber)
  BY PubFacts DEF FanOut, Typed, TypeOK
<1>2. \A i \in DOMAIN subs : subs[i] \in Subscriber
  BY <1>1
<1>3. \A i \in DOMAIN subs : Offer(subs[i], pub[p].event) \in Subscriber
  BY <1>1, <1>2, OfferFacts
<1>4. subs' = [i \in DOMAIN subs |-> Offer(subs[i], pub[p].event)]
  BY DEF FanOut
<1>5. DOMAIN subs = 1 .. Len(subs) /\ Len(subs) \in Nat
  BY <1>1
<1> QED
  BY <1>1, <1>2, <1>3, <1>4, <1>5

\* A channel takes an event only while it has room, so no channel grows
\* beyond its size.
LEMMA FanOutTyped == ASSUME Typed, NEW p \in Publishers, FanOut(p) PROVE Typed'
<1>1. \A i \in DOMAIN subs' : Len(subs'[i].ch) <= ChanSize
  <2> SUFFICES ASSUME NEW i \in DOMAIN subs' PROVE Len(subs'[i].ch) <= ChanSize
    OBVIOUS
  <2>1. Len(subs[i].ch) <= ChanSize /\ subs[i].ch \in Seq(Event)
    BY FanOutFacts, SubscriberFields DEF Typed, TypeOK
  <2>2. \/ subs'[i].ch = subs[i].ch
        \/ subs'[i].ch = Append(subs[i].ch, pub[p].event) /\ Len(subs[i].ch) < ChanSize
    <3>1. i \in DOMAIN subs /\ subs[i] \in Subscriber /\ pub[p].event \in Event /\ subs'[i] = Offer(subs[i], pub[p].event)
      BY FanOutFacts
    <3> QED
      BY <3>1, OfferChannel
  <2> QED
    BY <2>1, <2>2
<1>2. pub' \in [Publishers -> [pc : {"idle"}] \cup [pc : {"store", "fan"}, event : Event]]
  BY DEF Typed, TypeOK, FanOut
<1>3. TypeOK'
  BY <1>1, <1>2, FanOutFacts DEF Typed, TypeOK, FanOut
<1> QED
  BY <1>3, FanOutFacts DEF Typed, SessionTyped, Sessions, FanOut

\* What remains of TypeOK when only subscribers, session, requests and lines
\* change.
LEMMA SessionStep ==
  ASSUME Typed, UNCHANGED hub, subs' \in Seq(Subscriber),
         \A i \in DOMAIN subs' : Len(subs'[i].ch) <= ChanSize,
         sess' \in Sessions', asked' \in 0 .. MaxRequests, conn' \in BOOLEAN,
         out' \in Seq(Line), Len(out') <= OutSize, got' \in Seq(Line)
  PROVE  TypeOK'
  BY DEF Typed, TypeOK, Sessions, hub

\* The subscribers' channels after one ended.
LEMMA UnlistedTyped ==
  ASSUME Typed, NEW id \in {None} \cup DOMAIN subs, subs' = Unlisted(id)
  PROVE  /\ subs' \in Seq(Subscriber) /\ Len(subs') = Len(subs) /\ DOMAIN subs' = DOMAIN subs
         /\ \A i \in DOMAIN subs' : Len(subs'[i].ch) <= ChanSize
<1>1. subs' \in Seq(Subscriber) /\ Len(subs') = Len(subs)
  BY UnlistedFacts DEF Typed
<1>2. DOMAIN subs' = DOMAIN subs
  BY <1>1 DEF Typed, TypeOK
<1>3. \A i \in DOMAIN subs : subs'[i].ch = subs[i].ch
  BY UnlistedFacts DEF Typed
<1> QED
  BY <1>1, <1>2, <1>3 DEF Typed, TypeOK

\* events.subscribe: a request is used up before the subscription exists.
LEMMA SubscribeTyped ==
  ASSUME Typed, NEW f \in Filters, NEW n \in Replays, Subscribe(f, n) PROVE Typed'
<1>1. /\ subs' \in Seq(Subscriber) /\ Len(subs') = Len(subs)
      /\ \A i \in DOMAIN subs' : Len(subs'[i].ch) <= ChanSize
  BY UnlistedTyped DEF Subscribe, Typed, SessionTyped, Sessions
<1>2. sess' \in Sessions' /\ sess'.pc = "open" /\ f \in SUBSET Topics /\ n \in Nat
  BY DEF Subscribe, Typed, SessionTyped, Sessions
<1>3. asked' = asked + 1 /\ asked' \in 0 .. MaxRequests /\ Len(subs) <= asked /\ Len(subs) \in Nat
  BY DEF Subscribe, Typed, SessionTyped, TypeOK
<1>4. TypeOK'
  BY <1>1, <1>2, <1>3, SessionStep DEF Subscribe, Typed, TypeOK
<1> QED
  BY <1>1, <1>2, <1>3, <1>4 DEF Typed, SessionTyped, TypeOK

\* events.unsubscribe: the subscription is unlisted, the handler has none.
LEMMA UnsubscribeTyped == ASSUME Typed, Unsubscribe PROVE Typed'
<1>1. /\ subs' \in Seq(Subscriber) /\ Len(subs') = Len(subs)
      /\ \A i \in DOMAIN subs' : Len(subs'[i].ch) <= ChanSize
  BY UnlistedTyped DEF Unsubscribe, Typed, SessionTyped, Sessions
<1>2. sess' \in Sessions' /\ sess'.pc = "answer"
  BY DEF Unsubscribe, Typed, SessionTyped, Sessions
<1>3. asked' = asked + 1 /\ asked' \in 0 .. MaxRequests /\ Len(subs) <= asked /\ Len(subs) \in Nat
  BY DEF Unsubscribe, Typed, SessionTyped, TypeOK
<1>4. TypeOK'
  BY <1>1, <1>2, <1>3, SessionStep DEF Unsubscribe, Typed, TypeOK
<1> QED
  BY <1>1, <1>2, <1>3, <1>4 DEF Typed, SessionTyped, TypeOK

\* A new subscription.
LEMMA OpenFacts ==
  ASSUME Typed, Open
  PROVE  \E new \in Subscriber :
           /\ subs' = Append(subs, new) /\ subs' \in Seq(Subscriber) /\ Len(subs') = Len(subs) + 1
           /\ new.ch = <<>> /\ new.hand = None /\ new.due = {} /\ new.dropped = 0 /\ new.replayed = {}
           /\ subs'[Len(subs) + 1] = new /\ \A i \in DOMAIN subs : subs'[i] = subs[i]
<1> DEFINE new == [topics |-> sess.topics, ch |-> <<>>, listed |-> TRUE, running |-> TRUE,
                   hand |-> None, due |-> {}, dropped |-> 0, replayed |-> {}]
<1>1. <<>> \in Seq(Event) /\ sess.topics \in SUBSET Topics
  BY DEF Typed, SessionTyped, Sessions
<1>2. new \in Subscriber
  BY <1>1 DEF Subscriber
<1>3. subs' = Append(subs, new)
  BY DEF Open
<1>4. new.ch = <<>> /\ new.hand = None /\ new.due = {} /\ new.dropped = 0 /\ new.replayed = {}
  OBVIOUS
<1> HIDE DEF new
<1>5. subs \in Seq(Subscriber)
  BY DEF Typed, TypeOK
<1>6. /\ subs' \in Seq(Subscriber) /\ Len(subs') = Len(subs) + 1
      /\ subs'[Len(subs) + 1] = new /\ \A i \in DOMAIN subs : subs'[i] = subs[i]
  BY <1>2, <1>3, <1>5
<1> QED
  BY <1>2, <1>3, <1>4, <1>6

\* hub.Subscribe: the request that was used up pays for the new subscription.
LEMMA OpenTyped == ASSUME Typed, Open PROVE Typed'
<1>1. PICK new \in Subscriber :
        /\ subs' \in Seq(Subscriber) /\ Len(subs') = Len(subs) + 1 /\ new.ch = <<>>
        /\ subs'[Len(subs) + 1] = new /\ \A i \in DOMAIN subs : subs'[i] = subs[i]
  BY OpenFacts
<1>2. DOMAIN subs' = DOMAIN subs \cup {Len(subs) + 1} /\ Len(subs) \in Nat
  BY <1>1 DEF Typed, TypeOK
<1>3. \A i \in DOMAIN subs' : Len(subs'[i].ch) <= ChanSize
  BY <1>1, <1>2 DEF Typed, TypeOK
<1>4. sess' \in Sessions' /\ sess'.pc = "replay" /\ sess'.sub \in DOMAIN subs'
  BY <1>2 DEF Open, Typed, SessionTyped, Sessions
<1>5. TypeOK'
  BY <1>1, <1>3, <1>4, SessionStep DEF Open, Typed, TypeOK
<1>6. Len(subs') <= asked'
  BY <1>1 DEF Open, Typed, SessionTyped
<1> QED
  BY <1>4, <1>5, <1>6 DEF Typed, SessionTyped, TypeOK

\* What Replay has in hand, and what it notes.
LEMMA ReplayFacts ==
  ASSUME Typed, Replay
  PROVE  LET s == subs[sess.sub]
             at == Latest(s, sess.replay)
             v == [s EXCEPT !.replayed = {ring[k] : k \in at}]
         IN  /\ sess.sub \in DOMAIN subs /\ sess.replay \in Nat /\ s \in Subscriber /\ v \in Subscriber
             /\ subs' = [subs EXCEPT ![sess.sub] = v]
             /\ sess'.todo \in Seq(Event)
<1> DEFINE s == subs[sess.sub]
           at == Latest(s, sess.replay)
           v == [s EXCEPT !.replayed = {ring[k] : k \in at}]
           todo == [j \in 1 .. Cardinality(at) |-> ring[InOrder(at)[j]]]
<1>1. sess.sub \in DOMAIN subs /\ sess.replay \in Nat /\ sess.topics \in SUBSET Topics
  BY DEF Replay, Typed, SessionTyped, Sessions
<1>2. s \in Subscriber /\ ring \in Seq(Event)
  BY <1>1 DEF Typed, TypeOK
<1>3. at \subseteq DOMAIN ring /\ IsFiniteSet(at) /\ Cardinality(at) \in Nat
  BY <1>1, LatestFacts, FS_CardinalityType
<1> HIDE DEF at
<1>4. {ring[k] : k \in at} \in SUBSET Event
  BY <1>2, <1>3
<1>5. v \in Subscriber
  BY <1>2, <1>4 DEF Subscriber
<1>6. InOrder(at) \in [1 .. Cardinality(at) -> at]
  <2>1. at \in SUBSET Nat
    BY <1>2, <1>3
  <2> QED
    BY <1>3, <2>1, InOrderFacts
<1>7. todo \in Seq(Event)
  <2>1. \A j \in 1 .. Cardinality(at) : ring[InOrder(at)[j]] \in Event
    BY <1>2, <1>3, <1>6
  <2> QED
    BY <1>3, <2>1
<1>8. sess' = [sess EXCEPT !.pc = "flush", !.todo = todo]
  BY DEF Replay, at
<1>9. sess'.todo = todo
  BY <1>8 DEF Typed, SessionTyped, Sessions
<1>10. subs' = [subs EXCEPT ![sess.sub] = v]
  <2>1. subs' = [subs EXCEPT ![sess.sub].replayed = {ring[k] : k \in at}]
    BY DEF Replay, at
  <2> QED
    BY <2>1
<1> QED
  BY <1>1, <1>2, <1>5, <1>7, <1>9, <1>10 DEF at

\* hub.Replay: the events found are events of the ring.
LEMMA ReplayTyped == ASSUME Typed, Replay PROVE Typed'
<1> DEFINE v == [subs[sess.sub] EXCEPT !.replayed = {ring[k] : k \in Latest(subs[sess.sub], sess.replay)}]
<1>1. /\ sess.sub \in DOMAIN subs /\ v \in Subscriber /\ subs[sess.sub] \in Subscriber
      /\ subs' = [subs EXCEPT ![sess.sub] = v] /\ sess'.todo \in Seq(Event)
  BY ReplayFacts
<1>2. v.ch = subs[sess.sub].ch
  BY <1>1 DEF Subscriber
<1> HIDE DEF v
<1>3. /\ subs' \in Seq(Subscriber) /\ Len(subs') = Len(subs) /\ DOMAIN subs' = DOMAIN subs
      /\ subs'[sess.sub] = v /\ \A j \in DOMAIN subs : j # sess.sub => subs'[j] = subs[j]
  BY <1>1, OneSubscriber DEF Typed, TypeOK
<1>4. \A i \in DOMAIN subs' : Len(subs'[i].ch) <= ChanSize
  BY <1>1, <1>2, <1>3 DEF Typed, TypeOK
<1>5. \E todo : sess' = [sess EXCEPT !.pc = "flush", !.todo = todo]
  BY DEF Replay
<1>6. sess' \in Sessions' /\ sess'.pc = "flush" /\ sess'.sub = sess.sub
  BY <1>1, <1>3, <1>5 DEF Typed, SessionTyped, Sessions
<1>7. TypeOK'
  BY <1>3, <1>4, <1>6, SessionStep DEF Replay, Typed, TypeOK
<1> QED
  BY <1>1, <1>3, <1>6, <1>7 DEF Replay, Typed, SessionTyped

\* The subscribers are left alone.
LEMMA SameSubscribers ==
  ASSUME Typed, UNCHANGED subs
  PROVE  subs' \in Seq(Subscriber) /\ \A i \in DOMAIN subs' : Len(subs'[i].ch) <= ChanSize
  BY DEF Typed, TypeOK

\* The line that Flush sends.
LEMMA FlushFacts ==
  ASSUME Typed, Flush
  PROVE  \/ sess.todo = <<>> /\ UNCHANGED <<out, conn>>
         \/ \E line \in Line : line.type = "event" /\ line.via = "replay" /\ line.id = sess.sub /\ Send(line)
<1>1. sess.sub \in Ids /\ sess.todo \in Seq(Event)
  BY IdFacts DEF Flush, Typed, SessionTyped, Sessions
<1>2. CASE sess.todo = <<>>
  BY <1>2 DEF Flush
<1>3. CASE sess.todo # <<>>
  <2>1. Head(sess.todo) \in Event
    BY <1>1, <1>3
  <2> DEFINE line == [type |-> "event", event |-> Head(sess.todo), via |-> "replay", id |-> sess.sub]
  <2>2. line \in Line /\ line.type = "event" /\ line.via = "replay" /\ line.id = sess.sub
    BY <1>1, <2>1, LineFacts
  <2>3. Send(line)
    BY <1>3 DEF Flush
  <2> QED
    BY <2>2, <2>3
<1> QED
  BY <1>2, <1>3

\* A replayed event, or the end of the replay.
LEMMA FlushTyped == ASSUME Typed, Flush PROVE Typed'
<1>1. out' \in Seq(Line) /\ Len(out') <= OutSize /\ conn' \in BOOLEAN
  BY FlushFacts, SendFacts DEF Typed, TypeOK
<1>2. sess' \in Sessions' /\ sess'.pc \in {"answer", "flush"} /\ sess'.sub = sess.sub
  <2>1. sess \in Sessions /\ Sessions' = Sessions
    BY DEF Typed, SessionTyped, Sessions, Flush
  <2>2. CASE sess.todo = <<>>
    BY <2>1, <2>2 DEF Flush, Sessions
  <2>3. CASE sess.todo # <<>>
    <3>1. sess' = [sess EXCEPT !.todo = Tail(sess.todo)] /\ sess.todo \in Seq(Event) /\ Tail(sess.todo) \in Seq(Event)
      BY <2>1, <2>3 DEF Flush, Sessions
    <3> QED
      BY <2>1, <3>1 DEF Flush, Sessions
  <2> QED
    BY <2>2, <2>3
<1>3. TypeOK'
  BY <1>1, <1>2, SameSubscribers, SessionStep DEF Flush, Typed, TypeOK
<1> QED
  BY <1>2, <1>3 DEF Flush, Typed, SessionTyped

\* The response.
LEMMA AnswerFacts ==
  ASSUME Typed, Answer
  PROVE  \E line \in Line : line.type = "done" /\ Send(line)
<1>1. sess.sub \in Ids \cup {None}
  BY IdFacts DEF Typed, SessionTyped, Sessions
<1> QED
  BY <1>1, LineFacts DEF Answer

\* The response of the handler.
LEMMA AnswerTyped == ASSUME Typed, Answer PROVE Typed'
<1>1. out' \in Seq(Line) /\ Len(out') <= OutSize /\ conn' \in BOOLEAN
  BY AnswerFacts, SendFacts DEF Typed
<1>2. sess' \in Sessions' /\ sess'.pc = "ready" /\ sess'.sub = sess.sub
  <2>1. <<>> \in Seq(Event) /\ {} \in SUBSET Topics
    OBVIOUS
  <2> QED
    BY <2>1 DEF Answer, Ready, Typed, SessionTyped, Sessions
<1>3. TypeOK'
  BY <1>1, <1>2, SameSubscribers, SessionStep DEF Answer, Typed, TypeOK
<1> QED
  BY <1>2, <1>3 DEF Answer, Typed, SessionTyped

\* The end of the session.
LEMMA CloseTyped == ASSUME Typed, Close PROVE Typed'
<1>1. /\ subs' \in Seq(Subscriber) /\ Len(subs') = Len(subs)
      /\ \A i \in DOMAIN subs' : Len(subs'[i].ch) <= ChanSize
  BY UnlistedTyped DEF Close, Typed, SessionTyped, Sessions
<1>2. sess' \in Sessions' /\ sess'.pc = "gone"
  <2>1. <<>> \in Seq(Event) /\ {} \in SUBSET Topics
    OBVIOUS
  <2> QED
    BY <2>1 DEF Close, Ready, Sessions
<1>3. TypeOK'
  BY <1>1, <1>2, SessionStep DEF Close, Typed, TypeOK
<1> QED
  BY <1>1, <1>2, <1>3 DEF Close, Typed, SessionTyped

\* What a pump does to its subscriber.
LEMMA PumpTakeFacts ==
  ASSUME Typed, NEW i \in DOMAIN subs, PumpTake(i)
  PROVE  \E v \in Subscriber :
           /\ subs' = [subs EXCEPT ![i] = v] /\ subs[i] \in Subscriber
           /\ subs[i].hand = None /\ v.hand \in Event
           /\ v.ch \in Seq(Event) /\ Len(subs[i].ch) = Len(v.ch) + 1
           /\ v.topics = subs[i].topics /\ v.listed = subs[i].listed /\ v.due = subs[i].due
           /\ v.dropped = subs[i].dropped /\ v.replayed = subs[i].replayed
<1> DEFINE s == subs[i]
           v == [s EXCEPT !.hand = Head(s.ch), !.ch = Tail(s.ch)]
<1>1. s \in Subscriber /\ s.ch \in Seq(Event) /\ s.ch # <<>> /\ s.hand = None
  BY SubscriberFields DEF Typed, TypeOK, PumpTake
<1>2. Head(s.ch) \in Event /\ Tail(s.ch) \in Seq(Event) /\ Len(s.ch) = Len(Tail(s.ch)) + 1
  BY <1>1
<1>3. subs' = [subs EXCEPT ![i] = v]
  BY DEF PumpTake
<1>4. /\ v \in Subscriber /\ v.hand = Head(s.ch) /\ v.ch = Tail(s.ch)
      /\ v.topics = s.topics /\ v.listed = s.listed /\ v.due = s.due
      /\ v.dropped = s.dropped /\ v.replayed = s.replayed
  BY <1>1, <1>2 DEF Subscriber
<1> QED
  BY <1>1, <1>2, <1>3, <1>4

\* A pump sends the event in its hand as a live line of its subscription.
LEMMA PumpSendFacts ==
  ASSUME Typed, NEW i \in DOMAIN subs, PumpSend(i)
  PROVE  /\ \E v \in Subscriber :
              /\ subs' = [subs EXCEPT ![i] = v] /\ subs[i] \in Subscriber
              /\ subs[i].hand # None /\ v.hand = None /\ v.ch = subs[i].ch
              /\ v.topics = subs[i].topics /\ v.listed = subs[i].listed /\ v.due = subs[i].due
              /\ v.dropped = subs[i].dropped /\ v.replayed = subs[i].replayed
         /\ \E line \in Line : line.type = "event" /\ line.via = "live" /\ line.id = i /\ Send(line)
<1> DEFINE v == [subs[i] EXCEPT !.hand = None]
           line == [type |-> "event", event |-> subs[i].hand, via |-> "live", id |-> i]
<1>1. subs[i] \in Subscriber /\ subs[i].hand # None /\ subs[i].hand \in Event /\ i \in Ids
  BY SubscriberFields, IdFacts DEF Typed, TypeOK, PumpSend
<1>2. /\ v \in Subscriber /\ v.hand = None /\ v.ch = subs[i].ch
      /\ v.topics = subs[i].topics /\ v.listed = subs[i].listed /\ v.due = subs[i].due
      /\ v.dropped = subs[i].dropped /\ v.replayed = subs[i].replayed
  BY <1>1 DEF Subscriber
<1>3. line \in Line /\ line.type = "event" /\ line.via = "live" /\ line.id = i
  BY <1>1, LineFacts
<1>4. subs' = [subs EXCEPT ![i] = v] /\ Send(line)
  BY DEF PumpSend
<1> QED
  BY <1>1, <1>2, <1>3, <1>4

\* A pump that ends changes nothing else of its subscription.
LEMMA PumpEndFacts ==
  ASSUME Typed, NEW i \in DOMAIN subs, PumpEnd(i)
  PROVE  \E v \in Subscriber :
           /\ subs' = [subs EXCEPT ![i] = v] /\ subs[i] \in Subscriber
           /\ v.hand = subs[i].hand /\ v.ch = subs[i].ch
           /\ v.topics = subs[i].topics /\ v.listed = subs[i].listed /\ v.due = subs[i].due
           /\ v.dropped = subs[i].dropped /\ v.replayed = subs[i].replayed
<1> DEFINE v == [subs[i] EXCEPT !.running = FALSE]
<1>1. subs[i] \in Subscriber
  BY DEF Typed, TypeOK
<1>2. /\ v \in Subscriber /\ v.hand = subs[i].hand /\ v.ch = subs[i].ch
      /\ v.topics = subs[i].topics /\ v.listed = subs[i].listed /\ v.due = subs[i].due
      /\ v.dropped = subs[i].dropped /\ v.replayed = subs[i].replayed
  BY <1>1 DEF Subscriber
<1>3. subs' = [subs EXCEPT ![i] = v]
  BY DEF PumpEnd
<1> QED
  BY <1>1, <1>2, <1>3

\* A pump changes nothing of the types.
LEMMA PumpStep ==
  ASSUME Typed, NEW i \in DOMAIN subs, NEW v \in Subscriber, subs' = [subs EXCEPT ![i] = v],
         Len(v.ch) <= Len(subs[i].ch), UNCHANGED <<hub, sess, asked, got>>,
         out' \in Seq(Line), Len(out') <= OutSize, conn' \in BOOLEAN
  PROVE  Typed'
<1>1. /\ subs' \in Seq(Subscriber) /\ Len(subs') = Len(subs) /\ DOMAIN subs' = DOMAIN subs
      /\ subs'[i] = v /\ \A j \in DOMAIN subs : j # i => subs'[j] = subs[j]
  BY OneSubscriber DEF Typed, TypeOK
<1>2. \A j \in DOMAIN subs' : Len(subs'[j].ch) <= ChanSize
  <2> SUFFICES ASSUME NEW j \in DOMAIN subs' PROVE Len(subs'[j].ch) <= ChanSize
    OBVIOUS
  <2>1. subs[i].ch \in Seq(Event) /\ v.ch \in Seq(Event) /\ Len(subs[i].ch) <= ChanSize /\ Len(subs[j].ch) <= ChanSize
    BY <1>1, SubscriberFields DEF Typed, TypeOK
  <2> QED
    BY <1>1, <2>1
<1>3. sess' \in Sessions'
  BY <1>1 DEF Typed, SessionTyped, Sessions
<1>4. TypeOK'
  BY <1>1, <1>2, <1>3, SessionStep DEF Typed, TypeOK
<1> QED
  BY <1>1, <1>3, <1>4 DEF Typed, SessionTyped

\* Every step of a pump keeps the types.
LEMMA PumpTyped == ASSUME Typed, NEW i \in DOMAIN subs, Pump(i) PROVE Typed'
<1>1. CASE PumpTake(i)
  <2>1. PICK v \in Subscriber : subs' = [subs EXCEPT ![i] = v] /\ v.ch \in Seq(Event) /\ Len(subs[i].ch) = Len(v.ch) + 1
    BY <1>1, PumpTakeFacts
  <2>2. out' \in Seq(Line) /\ Len(out') <= OutSize /\ conn' \in BOOLEAN /\ UNCHANGED <<hub, sess, asked, got>>
    BY <1>1 DEF PumpTake, Typed, TypeOK
  <2>3. Len(v.ch) <= Len(subs[i].ch)
    BY <2>1
  <2> QED
    BY <2>1, <2>2, <2>3, PumpStep
<1>2. CASE PumpSend(i)
  <2>1. PICK v \in Subscriber : subs' = [subs EXCEPT ![i] = v] /\ v.ch = subs[i].ch /\ subs[i] \in Subscriber
    BY <1>2, PumpSendFacts
  <2>2. out' \in Seq(Line) /\ Len(out') <= OutSize /\ conn' \in BOOLEAN
    BY <1>2, PumpSendFacts, SendFacts DEF Typed
  <2>3. Len(v.ch) <= Len(subs[i].ch)
    BY <2>1, SubscriberFields
  <2> QED
    BY <1>2, <2>1, <2>2, <2>3, PumpStep DEF PumpSend
<1>3. CASE PumpEnd(i)
  <2>1. PICK v \in Subscriber : subs' = [subs EXCEPT ![i] = v] /\ v.ch = subs[i].ch /\ subs[i] \in Subscriber
    BY <1>3, PumpEndFacts
  <2>2. out' \in Seq(Line) /\ Len(out') <= OutSize /\ conn' \in BOOLEAN /\ UNCHANGED <<hub, sess, asked, got>>
    BY <1>3 DEF PumpEnd, Typed, TypeOK
  <2>3. Len(v.ch) <= Len(subs[i].ch)
    BY <2>1, SubscriberFields
  <2> QED
    BY <2>1, <2>2, <2>3, PumpStep
<1> QED
  BY <1>1, <1>2, <1>3 DEF Pump

\* The writer loop moves a line.
LEMMA DeliverTyped == ASSUME Typed, Deliver PROVE Typed'
<1>1. out \in Seq(Line) /\ out # <<>> /\ got \in Seq(Line) /\ Len(out) <= OutSize
  BY DEF Typed, TypeOK, Deliver
<1>2. Head(out) \in Line /\ Tail(out) \in Seq(Line) /\ Len(Tail(out)) <= OutSize
  BY <1>1
<1>3. Append(got, Head(out)) \in Seq(Line)
  BY <1>1, <1>2
<1>4. TypeOK'
  BY <1>2, <1>3 DEF Deliver, Typed, TypeOK, hub
<1> QED
  BY <1>4 DEF Typed, SessionTyped, Sessions, Deliver

\* The client goes away.
LEMMA HangupTyped == ASSUME Typed, Hangup PROVE Typed'
  BY DEF Typed, TypeOK, SessionTyped, Sessions, Hangup, hub

-----------------------------------------------------------------------------
(* Numbers, log and ring.                                                  *)

Stream == Numbered /\ Logged

\* The new number is above all others.
LEMMA NumberStream ==
  ASSUME Typed, Stream, NEW p \in Publishers, NEW t \in Topics, Number(p, t) PROVE Stream'
<1> DEFINE new == [pc |-> "store", event |-> [seq |-> seq + 1, topic |-> t]]
<1>1. seq' = seq + 1 /\ seq \in Nat /\ pub' = [pub EXCEPT ![p] = new] /\ UNCHANGED <<ring, log>>
  BY DEF Number, Typed, TypeOK
<1>2. new.pc = "store" /\ new.event.seq = seq + 1
  OBVIOUS
<1> HIDE DEF new
<1>3. pub'[p] = new /\ \A q \in Publishers : q # p => pub'[q] = pub[q]
  BY <1>1 DEF Typed, TypeOK
<1>4. \A q \in Publishers : pub[q].pc # "idle" => pub[q].event.seq \in Nat
  BY PubFacts DEF Event
<1>5. \A k \in DOMAIN log : log[k].seq \in Nat
  <2>1. \A k \in DOMAIN log : log[k] \in Event
    BY DEF Typed, TypeOK
  <2> QED
    BY <2>1 DEF Event
<1>6. Numbered'
  BY <1>1, <1>2, <1>3, <1>4 DEF Stream, Numbered
<1>7. Logged'
  BY <1>1, <1>2, <1>3, <1>5 DEF Stream, Logged
<1> QED
  BY <1>6, <1>7 DEF Stream

\* The event that enters the ring leaves the hands of its publisher and is
\* new to the log; the ring remains the end of the log.
LEMMA StoreStream ==
  ASSUME Typed, Stream, NEW p \in Publishers, Store(p) PROVE Stream'
<1> DEFINE e == pub[p].event
           old == IF Len(ring) = RingSize THEN Tail(ring) ELSE ring
<1>1. e \in Event /\ pub[p] \in [pc : {"store", "fan"}, event : Event] /\ pub[p].pc = "store"
  BY PubFacts DEF Store
<1>2. ring \in Seq(Event) /\ log \in Seq(Event) /\ Len(ring) <= Len(log) /\ seq \in Nat
  BY DEF Typed, TypeOK, Stream, Logged
<1>3. seq' = seq /\ ring' = Append(old, e) /\ log' = Append(log, e) /\ pub' = [pub EXCEPT ![p].pc = "fan"]
  BY DEF Store
<1>4. /\ old \in Seq(Event) /\ Len(old) <= Len(log)
      /\ \A k \in DOMAIN old : old[k] = log[Len(log) - Len(old) + k]
  <2>1. CASE Len(ring) = RingSize
    <3>1. old = Tail(ring) /\ Len(old) = Len(ring) - 1 /\ ring # <<>> /\ old \in Seq(Event)
      BY <1>2, <2>1
    <3>2. \A k \in DOMAIN old : k + 1 \in DOMAIN ring /\ old[k] = ring[k + 1]
      BY <1>2, <3>1
    <3> HIDE DEF old
    <3>3. \A k \in DOMAIN old : old[k] = log[Len(log) - Len(ring) + (k + 1)]
      BY <3>2 DEF Stream, Logged
    <3>4. \A k \in DOMAIN old : Len(log) - Len(ring) + (k + 1) = Len(log) - Len(old) + k
      BY <1>2, <3>1
    <3> QED
      BY <1>2, <3>1, <3>3, <3>4
  <2>2. CASE Len(ring) # RingSize
    BY <1>2, <2>2 DEF Stream, Logged
  <2> QED
    BY <2>1, <2>2
<1>5. pub'[p].pc = "fan" /\ pub'[p].event = e /\ \A q \in Publishers : q # p => pub'[q] = pub[q]
  BY <1>1, <1>3 DEF Typed, TypeOK
<1> HIDE DEF old, e
<1>6. Numbered'
  BY <1>1, <1>3, <1>5 DEF Stream, Numbered, e
<1>7. /\ log' \in Seq(Event) /\ Len(log') = Len(log) + 1 /\ log'[Len(log) + 1] = e
      /\ \A k \in DOMAIN log : log'[k] = log[k]
      /\ DOMAIN log' = DOMAIN log \cup {Len(log) + 1} /\ Len(log) + 1 \notin DOMAIN log
      /\ Len(log) \in Nat /\ DOMAIN log = 1 .. Len(log)
  BY <1>1, <1>2, <1>3
<1>8. /\ ring' \in Seq(Event) /\ Len(ring') = Len(old) + 1 /\ ring'[Len(old) + 1] = e
      /\ \A k \in DOMAIN old : ring'[k] = old[k]
      /\ DOMAIN ring' = DOMAIN old \cup {Len(old) + 1}
      /\ Len(old) \in Nat /\ DOMAIN old = 1 .. Len(old)
  BY <1>1, <1>3, <1>4
<1>9. /\ \A k \in DOMAIN log : log[k].seq # e.seq
      /\ \A q \in Publishers : q # p /\ pub[q].pc = "store" => pub[q].event.seq # e.seq
      /\ e.seq <= seq
  BY <1>1 DEF Stream, Numbered, Logged, e
<1>10. Logged'
  <2>1. \A k \in DOMAIN log' : log'[k].seq <= seq'
    BY <1>3, <1>7, <1>9 DEF Stream, Logged
  <2>2. \A k, l \in DOMAIN log' : k # l => log'[k].seq # log'[l].seq
    BY <1>7, <1>9 DEF Stream, Logged
  <2>3. \A q \in Publishers, k \in DOMAIN log' : pub'[q].pc = "store" => log'[k].seq # pub'[q].event.seq
    BY <1>5, <1>7, <1>9 DEF Stream, Logged
  <2>4. Len(ring') <= Len(log')
    BY <1>4, <1>7, <1>8
  <2>5. \A k \in DOMAIN ring' : ring'[k] = log'[Len(log') - Len(ring') + k]
    <3> SUFFICES ASSUME NEW k \in DOMAIN ring' PROVE ring'[k] = log'[Len(log') - Len(ring') + k]
      OBVIOUS
    <3>1. Len(log') - Len(ring') = Len(log) - Len(old)
      BY <1>7, <1>8
    <3>2. CASE k = Len(old) + 1
      <4>1. Len(log) - Len(old) + k = Len(log) + 1
        BY <1>7, <1>8, <3>2
      <4> QED
        BY <1>7, <1>8, <3>1, <3>2, <4>1
    <3>3. CASE k \in DOMAIN old
      <4>1. Len(log) - Len(old) + k \in DOMAIN log
        BY <1>4, <1>7, <1>8, <3>3
      <4> QED
        BY <1>4, <1>7, <1>8, <3>1, <3>3, <4>1
    <3> QED
      BY <1>8, <3>2, <3>3
  <2> QED
    BY <2>1, <2>2, <2>3, <2>4, <2>5 DEF Logged
<1> QED
  BY <1>6, <1>10 DEF Stream

\* The publication ends.
LEMMA FanOutStream ==
  ASSUME Typed, Stream, NEW p \in Publishers, FanOut(p) PROVE Stream'
<1>1. /\ pub' = [pub EXCEPT ![p] = [pc |-> "idle"]] /\ UNCHANGED <<seq, ring, log>>
  BY DEF FanOut
<1>2. pub'[p].pc = "idle" /\ \A q \in Publishers : q # p => pub'[q] = pub[q]
  BY <1>1 DEF Typed, TypeOK
<1> QED
  BY <1>1, <1>2 DEF Stream, Numbered, Logged

\* Steps of the session and of the pumps leave the stream alone.
LEMMA HubStream ==
  ASSUME Stream, UNCHANGED hub PROVE Stream'
  BY DEF Stream, Numbered, Logged, hub

-----------------------------------------------------------------------------
(* The account of a subscription.                                          *)

IsLive(line, i) == line.type = "event" /\ line.via = "live" /\ line.id = i

\* The lines on their way and those received are one sequence, and those of a
\* subscription are finitely many.
LEMMA LiveFacts ==
  ASSUME Typed
  PROVE  /\ Lines \in Seq(Line) /\ Len(Lines) \in Nat /\ DOMAIN Lines = 1 .. Len(Lines)
         /\ \A i : /\ Live(i) = {k \in DOMAIN Lines : IsLive(Lines[k], i)}
                   /\ IsFiniteSet(Live(i)) /\ Cardinality(Live(i)) \in Nat
<1>1. got \in Seq(Line) /\ out \in Seq(Line)
  BY DEF Typed, TypeOK
<1>2. Lines \in Seq(Line)
  BY <1>1 DEF Lines
<1>3. IsFiniteSet(DOMAIN Lines)
  BY <1>2, FS_Interval
<1>4. \A i : Live(i) = {k \in DOMAIN Lines : IsLive(Lines[k], i)}
  BY DEF Live, IsLive
<1>5. \A i : IsFiniteSet(Live(i))
  BY <1>3, <1>4, FS_Subset
<1> QED
  BY <1>2, <1>4, <1>5, FS_CardinalityType

\* A line that is queued is the next of Lines.
LEMMA QueuedLine ==
  ASSUME Typed, NEW line \in Line, out' = Append(out, line), got' = got
  PROVE  /\ Lines' = Append(Lines, line)
         /\ \A i : Live(i)' = IF IsLive(line, i) THEN Live(i) \cup {Len(Lines) + 1} ELSE Live(i)
<1>1. got \in Seq(Line) /\ out \in Seq(Line)
  BY DEF Typed, TypeOK
<1>2. Lines' = Append(Lines, line)
  BY <1>1 DEF Lines
<1>3. Lines \in Seq(Line)
  BY LiveFacts
<1>4. /\ DOMAIN Append(Lines, line) = DOMAIN Lines \cup {Len(Lines) + 1}
      /\ Append(Lines, line)[Len(Lines) + 1] = line
      /\ \A k \in DOMAIN Lines : Append(Lines, line)[k] = Lines[k]
  BY <1>3
<1>5. \A i : Live(i)' = IF IsLive(line, i) THEN Live(i) \cup {Len(Lines) + 1} ELSE Live(i)
  <2> TAKE i
  <2>1. Live(i)' = {k \in DOMAIN Append(Lines, line) : IsLive(Append(Lines, line)[k], i)}
    BY <1>2 DEF Live, IsLive
  <2>2. Live(i) = {k \in DOMAIN Lines : IsLive(Lines[k], i)}
    BY LiveFacts
  <2> QED
    BY <1>4, <2>1, <2>2
<1> QED
  BY <1>2, <1>5

\* What the writer takes stays in Lines.
LEMMA DeliveredLine ==
  ASSUME Typed, Deliver PROVE Lines' = Lines /\ \A i : Live(i)' = Live(i)
<1>1. got \in Seq(Line) /\ out \in Seq(Line) /\ out # <<>> /\ got' = Append(got, Head(out)) /\ out' = Tail(out)
  BY DEF Typed, TypeOK, Deliver
<1>2. Append(got, Head(out)) \o Tail(out) = got \o out
  BY <1>1
<1>3. Lines' = Lines
  BY <1>1, <1>2 DEF Lines
<1> QED
  BY <1>3 DEF Live

\* The account of one subscription.
Balanced(i) ==
  Cardinality(subs[i].due) = subs[i].dropped + Len(subs[i].ch) + Cardinality(Live(i))
                               + (IF subs[i].hand = None THEN 0 ELSE 1)

\* LiveAccounted, one subscription at a time.
LEMMA LiveAccountedEq == LiveAccounted <=> (conn => \A i \in DOMAIN subs : Balanced(i))
  BY DEF LiveAccounted, Balanced

SameAccount(i) ==
  /\ subs'[i].due = subs[i].due /\ subs'[i].dropped = subs[i].dropped
  /\ subs'[i].ch = subs[i].ch /\ subs'[i].hand = subs[i].hand

\* A line that speaks of an existing subscription and is not live, or no line.
QuietLines ==
  \/ Lines' = Lines /\ \A i : Live(i)' = Live(i)
  \/ \E line \in Line :
       /\ Lines' = Append(Lines, line) /\ \A i : Live(i)' = Live(i)
       /\ line.type = "event" => line.id \in DOMAIN subs

\* The lines after a quiet step.
LEMMA QuietIds ==
  ASSUME Typed, Offered, QuietLines, DOMAIN subs \subseteq DOMAIN subs'
  PROVE  \A k \in DOMAIN Lines' : Lines'[k].type = "event" => Lines'[k].id \in DOMAIN subs'
<1>1. Lines \in Seq(Line) /\ \A k \in DOMAIN Lines : Lines[k].type = "event" => Lines[k].id \in DOMAIN subs
  BY LiveFacts DEF Offered
<1>2. CASE Lines' = Lines
  BY <1>1, <1>2
<1>3. CASE Lines' # Lines
  <2>1. PICK line \in Line : Lines' = Append(Lines, line) /\ (line.type = "event" => line.id \in DOMAIN subs)
    BY <1>3 DEF QuietLines
  <2>2. /\ DOMAIN Append(Lines, line) = DOMAIN Lines \cup {Len(Lines) + 1}
        /\ Append(Lines, line)[Len(Lines) + 1] = line
        /\ \A k \in DOMAIN Lines : Append(Lines, line)[k] = Lines[k]
    BY <1>1
  <2> QED
    BY <1>1, <2>1, <2>2
<1> QED
  BY <1>2, <1>3

\* A step that changes no account.
LEMMA QuietStep ==
  ASSUME Typed, Accounted, QuietLines, DOMAIN subs' = DOMAIN subs, \A i \in DOMAIN subs : SameAccount(i),
         conn' => conn, seq \in Nat, seq' \in Nat, seq <= seq',
         \A p \in Publishers : pub'[p].pc # "idle" =>
            \/ pub[p].pc # "idle" /\ pub'[p].event = pub[p].event
            \/ pub'[p].event.seq > seq
  PROVE  Accounted'
<1>1. \A i \in DOMAIN subs : subs'[i].due = subs[i].due /\ \A e \in subs[i].due : e.seq \in Nat
  <2>1. \A i \in DOMAIN subs : subs[i].due \in SUBSET Event
    BY SubscriberFields DEF Typed, TypeOK
  <2> QED
    BY <2>1 DEF SameAccount, Event
<1>2. Offered'
  <2>1. ASSUME NEW i \in DOMAIN subs'
        PROVE  /\ IsFiniteSet(subs'[i].due)
               /\ \A e \in subs'[i].due : e.seq <= seq'
               /\ \A p \in Publishers : pub'[p].pc # "idle" => pub'[p].event \notin subs'[i].due
    BY <1>1, <2>1 DEF Accounted, Offered
  <2>2. \A k \in DOMAIN Lines' : Lines'[k].type = "event" => Lines'[k].id \in DOMAIN subs'
    BY QuietIds DEF Accounted
  <2> QED
    BY <2>1, <2>2 DEF Offered
<1>3. LiveAccounted'
  <2>1. \A i : Live(i)' = Live(i)
    BY DEF QuietLines
  <2>2. conn => \A i \in DOMAIN subs : Balanced(i)
    BY LiveAccountedEq DEF Accounted
  <2>3. conn' => \A i \in DOMAIN subs : Balanced(i)'
    BY <2>1, <2>2 DEF Balanced, SameAccount
  <2> QED
    BY <2>3 DEF LiveAccounted, Balanced
<1> QED
  BY <1>2, <1>3 DEF Accounted

\* Nothing is queued or taken.
LEMMA SameLines == ASSUME UNCHANGED <<out, got>> PROVE QuietLines
  BY DEF QuietLines, Lines, Live

\* A line that is not live is sent, or the connection is closed.
LEMMA SentQuietly ==
  ASSUME Typed, NEW line \in Line, Send(line), got' = got,
         line.type = "event" => line.via = "replay" /\ line.id \in DOMAIN subs
  PROVE  QuietLines /\ (conn' => conn)
<1>1. (out' = Append(out, line) \/ out' = out) /\ (conn' => conn)
  BY SendFacts DEF Typed
<1>2. CASE out' = out
  BY <1>1, <1>2, SameLines
<1>3. CASE out' = Append(out, line)
  <2>1. \A i : ~IsLive(line, i)
    BY DEF IsLive
  <2>2. Lines' = Append(Lines, line) /\ \A i : Live(i)' = Live(i)
    BY <1>3, <2>1, QueuedLine
  <2> QED
    BY <1>1, <2>2 DEF QuietLines
<1> QED
  BY <1>1, <1>2, <1>3

\* The counter is a number, as the quiet steps need it.
LEMMA SeqNat == ASSUME Typed PROVE seq \in Nat
  BY DEF Typed, TypeOK

\* A number is given: it is new to every subscription.
LEMMA NumberAccounted ==
  ASSUME Typed, Accounted, NEW p \in Publishers, NEW t \in Topics, Number(p, t) PROVE Accounted'
<1>1. seq' = seq + 1 /\ UNCHANGED <<subs, out, got, conn>>
  BY DEF Number
<1>2. \A q \in Publishers : \/ pub'[q] = pub[q]
                            \/ pub'[q].event.seq = seq + 1
  <2>1. pub' = [pub EXCEPT ![p] = [pc |-> "store", event |-> [seq |-> seq + 1, topic |-> t]]]
    BY DEF Number
  <2> QED
    BY <2>1 DEF Typed, TypeOK
<1> QED
  BY <1>1, <1>2, SeqNat, SameLines, QuietStep DEF SameAccount

\* An event that enters the ring stays what it was for its publisher, and no
\* subscription sees it yet.
LEMMA StoreAccounted ==
  ASSUME Typed, Accounted, NEW p \in Publishers, Store(p) PROVE Accounted'
<1>1. UNCHANGED <<seq, subs, out, got, conn>>
  BY DEF Store
<1>2. pub[p] \in [pc : {"store", "fan"}, event : Event] /\ pub[p].pc = "store"
  BY PubFacts DEF Store
<1>3. \A q \in Publishers : pub'[q].pc # "idle" => pub[q].pc # "idle" /\ pub'[q].event = pub[q].event
  <2>1. pub' = [pub EXCEPT ![p].pc = "fan"]
    BY DEF Store
  <2> QED
    BY <1>2, <2>1 DEF Typed, TypeOK
<1> QED
  BY <1>1, <1>3, SeqNat, SameLines, QuietStep DEF SameAccount

\* The fan-out offers an event that is new to every subscription, and each
\* channel that has room, or the count of those that had none, has one more.
LEMMA FanOutAccounted ==
  ASSUME Typed, Stream, Accounted, NEW p \in Publishers, FanOut(p) PROVE Accounted'
<1> DEFINE e == pub[p].event
<1>1. /\ UNCHANGED <<seq, out, got, conn>> /\ pub[p].pc = "fan"
      /\ pub' = [pub EXCEPT ![p] = [pc |-> "idle"]]
  BY DEF FanOut
<1>2. pub'[p].pc = "idle" /\ \A q \in Publishers : q # p => pub'[q] = pub[q]
  BY <1>1 DEF Typed, TypeOK
<1>3. /\ e \in Event /\ DOMAIN subs' = DOMAIN subs
      /\ \A i \in DOMAIN subs : subs[i] \in Subscriber /\ subs'[i] = Offer(subs[i], e)
  BY FanOutFacts
<1>4. /\ e.seq <= seq
      /\ \A q \in Publishers : q # p /\ pub[q].pc # "idle" => pub[q].event # e
  BY <1>1 DEF Stream, Numbered
<1> HIDE DEF e
<1>5. ASSUME NEW i \in DOMAIN subs
      PROVE  /\ IsFiniteSet(subs'[i].due) /\ \A d \in subs'[i].due : d.seq <= seq
             /\ \A q \in Publishers : pub'[q].pc # "idle" => pub'[q].event \notin subs'[i].due
             /\ Balanced(i) => Balanced(i)'
  <2>1. PICK o \in Subscriber :
          /\ o = subs'[i] /\ o.hand = subs[i].hand
          /\ \/ o.due = subs[i].due /\ o.dropped = subs[i].dropped /\ o.ch = subs[i].ch
             \/ /\ o.due = subs[i].due \cup {e}
                /\ o.dropped = subs[i].dropped /\ o.ch = Append(subs[i].ch, e)
             \/ /\ o.due = subs[i].due \cup {e}
                /\ o.dropped = subs[i].dropped + 1 /\ o.ch = subs[i].ch
    BY <1>3, <1>5, OfferFacts
  <2>2. /\ IsFiniteSet(subs[i].due) /\ \A d \in subs[i].due : d.seq <= seq
        /\ \A q \in Publishers : pub[q].pc # "idle" => pub[q].event \notin subs[i].due
        /\ e \notin subs[i].due
    BY <1>1, <1>5 DEF Accounted, Offered, e
  <2>3. /\ IsFiniteSet(subs[i].due \cup {e})
        /\ Cardinality(subs[i].due \cup {e}) = Cardinality(subs[i].due) + 1
        /\ Cardinality(subs[i].due) \in Nat
    BY <2>2, FS_AddElement, FS_CardinalityType
  <2>4. /\ subs[i].dropped \in Nat /\ subs[i].ch \in Seq(Event) /\ Len(subs[i].ch) \in Nat
        /\ Len(Append(subs[i].ch, e)) = Len(subs[i].ch) + 1
    BY <1>3, <1>5, SubscriberFields
  <2>5. Live(i)' = Live(i) /\ Cardinality(Live(i)) \in Nat
    BY <1>1, LiveFacts DEF Live, Lines
  <2>6. Balanced(i) => Balanced(i)'
    <3> DEFINE h == IF subs[i].hand = None THEN 0 ELSE 1
    <3>1. h \in Nat /\ h = IF subs'[i].hand = None THEN 0 ELSE 1
      BY <2>1
    <3>2. Cardinality(Live(i)') = Cardinality(Live(i))
      BY <2>5
    <3> HIDE DEF h
    <3>3. Balanced(i) <=> Cardinality(subs[i].due) = subs[i].dropped + Len(subs[i].ch) + Cardinality(Live(i)) + h
      BY DEF Balanced, h
    <3>4. Balanced(i)' <=> Cardinality(subs'[i].due) = subs'[i].dropped + Len(subs'[i].ch) + Cardinality(Live(i)) + h
      BY <3>1, <3>2 DEF Balanced
    <3> QED
      <4> DEFINE c == Cardinality(subs[i].due)
                 l == Len(subs[i].ch)
                 d == subs[i].dropped
      <4>1. \/ Cardinality(subs'[i].due) = c /\ subs'[i].dropped = d /\ Len(subs'[i].ch) = l
            \/ Cardinality(subs'[i].due) = c + 1 /\ subs'[i].dropped = d /\ Len(subs'[i].ch) = l + 1
            \/ Cardinality(subs'[i].due) = c + 1 /\ subs'[i].dropped = d + 1 /\ Len(subs'[i].ch) = l
        BY <2>1, <2>3, <2>4
      <4>2. c \in Nat /\ l \in Nat /\ d \in Nat /\ Cardinality(Live(i)) \in Nat
        BY <2>3, <2>4, <2>5
      <4> HIDE DEF c, l, d
      <4>3. Balanced(i) <=> c = d + l + Cardinality(Live(i)) + h
        BY <3>3 DEF c, l, d
      <4> QED
        BY <3>1, <3>4, <4>1, <4>2, <4>3
  <2>7. \A q \in Publishers : pub'[q].pc # "idle" => pub'[q].event \notin subs'[i].due
    BY <1>2, <1>4, <2>1, <2>2
  <2>8. IsFiniteSet(subs'[i].due) /\ \A d \in subs'[i].due : d.seq <= seq
    BY <1>4, <2>1, <2>2, <2>3
  <2> QED
    BY <2>6, <2>7, <2>8
<1>6. Offered'
  <2>1. \A k \in DOMAIN Lines' : Lines'[k].type = "event" => Lines'[k].id \in DOMAIN subs'
    BY <1>1, <1>3 DEF Accounted, Offered, Lines
  <2> QED
    BY <1>1, <1>3, <1>5, <2>1 DEF Offered
<1>7. LiveAccounted'
  <2>1. conn => \A i \in DOMAIN subs : Balanced(i)
    BY LiveAccountedEq DEF Accounted
  <2>2. conn' => \A i \in DOMAIN subs' : Balanced(i)'
    BY <1>1, <1>3, <1>5, <2>1
  <2> QED
    BY <2>2 DEF LiveAccounted, Balanced
<1> QED
  BY <1>6, <1>7 DEF Accounted

\* A subscription that ends keeps its account.
LEMMA UnlistedAccounted ==
  ASSUME Typed, Accounted, NEW id \in {None} \cup DOMAIN subs, subs' = Unlisted(id),
         UNCHANGED <<hub, out, got, conn>>
  PROVE  Accounted'
<1>1. DOMAIN subs' = DOMAIN subs
  BY UnlistedTyped
<1>2. \A i \in DOMAIN subs : SameAccount(i)
  BY UnlistedFacts DEF Typed, SameAccount
<1> QED
  BY <1>1, <1>2, SeqNat, SameLines, QuietStep DEF hub

\* A new subscription starts with an empty account: no line speaks of it yet.
LEMMA OpenAccounted == ASSUME Typed, Accounted, Open PROVE Accounted'
<1>0. PICK n : n = Len(subs) + 1
  OBVIOUS
<1>1. PICK new \in Subscriber :
        /\ new.ch = <<>> /\ new.hand = None /\ new.due = {} /\ new.dropped = 0
        /\ subs' \in Seq(Subscriber) /\ Len(subs') = Len(subs) + 1
        /\ subs'[n] = new /\ \A i \in DOMAIN subs : subs'[i] = subs[i]
  BY <1>0, OpenFacts
<1>2. DOMAIN subs' = DOMAIN subs \cup {n} /\ n \notin DOMAIN subs
  BY <1>0, <1>1, IdFacts
<1>3. UNCHANGED <<seq, pub, out, got, conn>>
  BY DEF Open, hub
<1>4. Lines' = Lines /\ \A i : Live(i)' = Live(i)
  BY <1>3 DEF Lines, Live
<1>5. Live(n) = {}
  BY <1>2, LiveFacts DEF Accounted, Offered, IsLive
<1>6. IsFiniteSet({}) /\ Cardinality({}) = 0
  BY FS_EmptySet
<1>7. Balanced(n)'
  <2>1. Len(new.ch) = 0
    BY <1>1
  <2> QED
    <3>1. Cardinality(Live(n)') = 0
      BY <1>4, <1>5, <1>6
    <3>2. Cardinality(subs'[n].due) = 0 /\ subs'[n].dropped = 0 /\ Len(subs'[n].ch) = 0 /\ subs'[n].hand = None
      BY <1>1, <1>6, <2>1
    <3> QED
      BY <3>1, <3>2 DEF Balanced
<1>8. Offered'
  BY <1>1, <1>2, <1>3, <1>4, <1>6 DEF Accounted, Offered
<1>9. LiveAccounted'
  <2>1. conn => \A i \in DOMAIN subs : Balanced(i)
    BY LiveAccountedEq DEF Accounted
  <2>2. \A i \in DOMAIN subs : Balanced(i) => Balanced(i)'
    BY <1>1, <1>4 DEF Balanced
  <2>3. conn' => \A i \in DOMAIN subs' : Balanced(i)'
    BY <1>2, <1>3, <1>7, <2>1, <2>2
  <2> QED
    BY <2>3 DEF LiveAccounted, Balanced
<1> QED
  BY <1>8, <1>9 DEF Accounted

\* What a replay returned is not part of the account.
LEMMA ReplayAccounted == ASSUME Typed, Accounted, Replay PROVE Accounted'
<1> DEFINE v == [subs[sess.sub] EXCEPT !.replayed = {ring[k] : k \in Latest(subs[sess.sub], sess.replay)}]
<1>1. /\ sess.sub \in DOMAIN subs /\ v \in Subscriber /\ subs[sess.sub] \in Subscriber
      /\ subs' = [subs EXCEPT ![sess.sub] = v]
  BY ReplayFacts
<1>2. /\ v.ch = subs[sess.sub].ch /\ v.due = subs[sess.sub].due /\ v.dropped = subs[sess.sub].dropped
      /\ v.hand = subs[sess.sub].hand
  BY <1>1 DEF Subscriber
<1> HIDE DEF v
<1>3. /\ DOMAIN subs' = DOMAIN subs
      /\ subs'[sess.sub] = v /\ \A j \in DOMAIN subs : j # sess.sub => subs'[j] = subs[j]
  BY <1>1, OneSubscriber DEF Typed, TypeOK
<1>4. \A i \in DOMAIN subs : SameAccount(i)
  BY <1>2, <1>3 DEF SameAccount
<1> QED
  BY <1>3, <1>4, SeqNat, SameLines, QuietStep DEF Replay, hub

\* A replayed line is no live line.
LEMMA FlushAccounted == ASSUME Typed, Accounted, Flush PROVE Accounted'
<1>1. QuietLines /\ (conn' => conn)
  <2>1. CASE sess.todo = <<>> /\ UNCHANGED <<out, conn>>
    BY <2>1, SameLines DEF Flush
  <2>2. CASE \E line \in Line : line.type = "event" /\ line.via = "replay" /\ line.id = sess.sub /\ Send(line)
    BY <2>2, SentQuietly DEF Flush, Typed, SessionTyped
  <2> QED
    BY <2>1, <2>2, FlushFacts
<1> QED
  BY <1>1, SeqNat, QuietStep DEF Flush, hub, SameAccount

\* A response is no live line.
LEMMA AnswerAccounted == ASSUME Typed, Accounted, Answer PROVE Accounted'
<1>1. QuietLines /\ (conn' => conn)
  BY AnswerFacts, SentQuietly DEF Answer
<1> QED
  BY <1>1, SeqNat, QuietStep DEF Answer, hub, SameAccount

\* A delivered line stays a line.
LEMMA DeliverAccounted == ASSUME Typed, Accounted, Deliver PROVE Accounted'
  BY DeliveredLine, SeqNat, QuietStep DEF Deliver, hub, SameAccount, QuietLines

\* Without a connection there is no account.
LEMMA HangupAccounted == ASSUME Typed, Accounted, Hangup PROVE Accounted'
  BY SameLines, SeqNat, QuietStep DEF Hangup, hub, SameAccount

\* The pump moves an event from the channel to its hand, ...
LEMMA PumpTakeAccounted ==
  ASSUME Typed, Accounted, NEW i \in DOMAIN subs, PumpTake(i) PROVE Accounted'
<1>1. PICK v \in Subscriber :
        /\ subs' = [subs EXCEPT ![i] = v] /\ subs[i] \in Subscriber
        /\ subs[i].hand = None /\ v.hand \in Event
        /\ v.ch \in Seq(Event) /\ Len(subs[i].ch) = Len(v.ch) + 1
        /\ v.due = subs[i].due /\ v.dropped = subs[i].dropped
  BY PumpTakeFacts
<1>2. /\ DOMAIN subs' = DOMAIN subs /\ subs'[i] = v /\ \A j \in DOMAIN subs : j # i => subs'[j] = subs[j]
  BY <1>1, OneSubscriber DEF Typed, TypeOK
<1>3. UNCHANGED <<seq, pub, out, got, conn>>
  BY DEF PumpTake, hub
<1>4. Lines' = Lines /\ \A j : Live(j)' = Live(j)
  BY <1>3 DEF Lines, Live
<1>5. Offered'
  BY <1>1, <1>2, <1>3, <1>4 DEF Accounted, Offered
<1>6. Balanced(i) => Balanced(i)'
  <2>1. Len(v.ch) \in Nat /\ v.hand # None
    BY <1>1
  <2>2. subs[i].dropped \in Nat /\ Cardinality(Live(i)) \in Nat
    BY <1>1, LiveFacts, SubscriberFields
  <2> QED
    BY <1>1, <1>2, <1>4, <2>1, <2>2 DEF Balanced
<1>7. LiveAccounted'
  <2>1. conn => \A j \in DOMAIN subs : Balanced(j)
    BY LiveAccountedEq DEF Accounted
  <2>2. \A j \in DOMAIN subs : j # i /\ Balanced(j) => Balanced(j)'
    BY <1>2, <1>4 DEF Balanced
  <2>3. conn' => \A j \in DOMAIN subs' : Balanced(j)'
    BY <1>2, <1>3, <1>6, <2>1, <2>2
  <2> QED
    BY <2>3 DEF LiveAccounted, Balanced
<1> QED
  BY <1>5, <1>7 DEF Accounted

\* ... and from there to the client's queue, or closes the connection.
LEMMA PumpSendAccounted ==
  ASSUME Typed, Accounted, NEW i \in DOMAIN subs, PumpSend(i) PROVE Accounted'
<1>1. PICK v \in Subscriber :
        /\ subs' = [subs EXCEPT ![i] = v] /\ subs[i] \in Subscriber
        /\ subs[i].hand # None /\ v.hand = None /\ v.ch = subs[i].ch
        /\ v.due = subs[i].due /\ v.dropped = subs[i].dropped
  BY PumpSendFacts
<1>2. PICK line \in Line : line.type = "event" /\ line.via = "live" /\ line.id = i /\ Send(line)
  BY PumpSendFacts
<1>3. /\ DOMAIN subs' = DOMAIN subs /\ subs'[i] = v /\ \A j \in DOMAIN subs : j # i => subs'[j] = subs[j]
  BY <1>1, OneSubscriber DEF Typed, TypeOK
<1>4. UNCHANGED <<seq, pub, got>>
  BY DEF PumpSend, hub
<1>5. /\ out' = Append(out, line) \/ out' = out
      /\ conn' => conn /\ out' = Append(out, line)
  BY <1>2, SendFacts DEF Typed
<1>6. out' = Append(out, line) =>
        /\ Lines' = Append(Lines, line)
        /\ Live(i)' = Live(i) \cup {Len(Lines) + 1} /\ \A j : j # i => Live(j)' = Live(j)
  BY <1>2, <1>4, QueuedLine DEF IsLive
<1>7. Lines \in Seq(Line) /\ DOMAIN Lines = 1 .. Len(Lines) /\ Len(Lines) \in Nat
  BY LiveFacts
<1>8. \A k \in DOMAIN Lines' : Lines'[k].type = "event" => Lines'[k].id \in DOMAIN subs'
  <2>1. \A k \in DOMAIN Lines : Lines[k].type = "event" => Lines[k].id \in DOMAIN subs
    BY DEF Accounted, Offered
  <2>2. CASE out' = out
    BY <1>3, <1>4, <2>1, <2>2 DEF Lines
  <2>3. CASE out' = Append(out, line)
    <3>1. /\ DOMAIN Append(Lines, line) = DOMAIN Lines \cup {Len(Lines) + 1}
          /\ Append(Lines, line)[Len(Lines) + 1] = line
          /\ \A k \in DOMAIN Lines : Append(Lines, line)[k] = Lines[k]
      BY <1>7
    <3> QED
      BY <1>2, <1>3, <1>6, <2>1, <2>3, <3>1
  <2> QED
    BY <1>5, <2>2, <2>3
<1>9. Offered'
  BY <1>1, <1>3, <1>4, <1>8 DEF Accounted, Offered
<1>10. conn' => (Balanced(i) => Balanced(i)')
  <2>1. IsFiniteSet(Live(i)) /\ Len(Lines) + 1 \notin Live(i) /\ Cardinality(Live(i)) \in Nat
    BY <1>7, LiveFacts
  <2>2. Cardinality(Live(i) \cup {Len(Lines) + 1}) = Cardinality(Live(i)) + 1
    BY <2>1, FS_AddElement
  <2>3. subs[i].dropped \in Nat /\ Len(subs[i].ch) \in Nat
    BY <1>1, SubscriberFields
  <2> QED
    <3>1. conn' => Cardinality(Live(i)') = Cardinality(Live(i)) + 1
      BY <1>5, <1>6, <2>2
    <3>2. Balanced(i) => Cardinality(subs[i].due) = subs[i].dropped + Len(subs[i].ch) + Cardinality(Live(i)) + 1
      BY <1>1 DEF Balanced
    <3>3. Cardinality(subs[i].due) = subs[i].dropped + Len(subs[i].ch) + Cardinality(Live(i)') + 0 => Balanced(i)'
      BY <1>1, <1>3 DEF Balanced
    <3> QED
      BY <2>1, <2>3, <3>1, <3>2, <3>3
<1>11. LiveAccounted'
  <2>1. conn => \A j \in DOMAIN subs : Balanced(j)
    BY LiveAccountedEq DEF Accounted
  <2>2. conn' => \A j \in DOMAIN subs : j # i /\ Balanced(j) => Balanced(j)'
    BY <1>3, <1>5, <1>6 DEF Balanced
  <2>3. conn' => \A j \in DOMAIN subs' : Balanced(j)'
    BY <1>3, <1>5, <1>10, <2>1, <2>2
  <2> QED
    BY <2>3 DEF LiveAccounted, Balanced
<1> QED
  BY <1>9, <1>11 DEF Accounted

\* The pump that ends changes no account.
LEMMA PumpEndAccounted ==
  ASSUME Typed, Accounted, NEW i \in DOMAIN subs, PumpEnd(i) PROVE Accounted'
<1>1. PICK v \in Subscriber :
        /\ subs' = [subs EXCEPT ![i] = v]
        /\ v.hand = subs[i].hand /\ v.ch = subs[i].ch
        /\ v.due = subs[i].due /\ v.dropped = subs[i].dropped
  BY PumpEndFacts
<1>2. /\ DOMAIN subs' = DOMAIN subs /\ subs'[i] = v /\ \A j \in DOMAIN subs : j # i => subs'[j] = subs[j]
  BY <1>1, OneSubscriber DEF Typed, TypeOK
<1>3. \A j \in DOMAIN subs : SameAccount(j)
  BY <1>1, <1>2 DEF SameAccount
<1> QED
  BY <1>2, <1>3, SameLines, SeqNat, QuietStep DEF PumpEnd, hub

-----------------------------------------------------------------------------
(* No gap between replay and live stream.                                  *)

\* A step that appends nothing to the log and replays nothing: what was
\* offered stays offered, and who stops being about to offer has done so.
LEMMA GapKept ==
  ASSUME NoGap, UNCHANGED log,
         \A i \in DOMAIN subs' : subs'[i].replayed # {} =>
           /\ i \in DOMAIN subs /\ subs'[i].replayed = subs[i].replayed
           /\ subs'[i].topics = subs[i].topics /\ (subs'[i].listed => subs[i].listed)
           /\ subs[i].due \subseteq subs'[i].due,
         \A p \in Publishers : pub[p].pc = "fan" =>
           \/ pub'[p] = pub[p]
           \/ \A i \in DOMAIN subs' :
                subs'[i].listed /\ Wanted(subs'[i], pub[p].event) => pub[p].event \in subs'[i].due
  PROVE  NoGap'
<1> SUFFICES ASSUME NEW i \in DOMAIN subs', subs'[i].listed, subs'[i].replayed # {},
                    NEW k \in DOMAIN log, NEW l \in DOMAIN log,
                    k < l, log[k] \in subs'[i].replayed, Wanted(subs'[i], log[l])
             PROVE  \/ log[l] \in subs'[i].replayed \cup subs'[i].due
                    \/ \E p \in Publishers : pub'[p].pc = "fan" /\ pub'[p].event = log[l]
  BY DEF NoGap, Wanted
<1>1. /\ i \in DOMAIN subs /\ subs[i].listed /\ subs[i].replayed = subs'[i].replayed
      /\ subs[i].due \subseteq subs'[i].due /\ Wanted(subs[i], log[l])
  BY DEF Wanted
<1>2. \/ log[l] \in subs[i].replayed \cup subs[i].due
      \/ \E p \in Publishers : pub[p].pc = "fan" /\ pub[p].event = log[l]
  BY <1>1 DEF NoGap
<1> QED
  BY <1>1, <1>2

\* The subscribers that are left alone.
LEMMA GapSame ==
  ASSUME NoGap, UNCHANGED <<log, subs>>, \A p \in Publishers : pub[p].pc = "fan" => pub'[p] = pub[p]
  PROVE  NoGap'
  BY GapKept

\* A number is given before the log has the event.
LEMMA NumberGap ==
  ASSUME Typed, NoGap, NEW p \in Publishers, NEW t \in Topics, Number(p, t) PROVE NoGap'
<1>1. UNCHANGED <<log, subs>> /\ pub[p].pc = "idle"
  BY DEF Number
<1>2. \A q \in Publishers : q # p => pub'[q] = pub[q]
  BY DEF Number, Typed, TypeOK
<1> QED
  BY <1>1, <1>2, GapSame

\* The new event of the log is in the hand of its publisher.
LEMMA StoreGap ==
  ASSUME Typed, NoGap, NEW p \in Publishers, Store(p) PROVE NoGap'
<1> DEFINE e == pub[p].event
<1>1. e \in Event /\ pub[p] \in [pc : {"store", "fan"}, event : Event] /\ pub[p].pc = "store" /\ log \in Seq(Event)
  BY PubFacts DEF Store, Typed, TypeOK
<1>2. pub'[p].pc = "fan" /\ pub'[p].event = e /\ \A q \in Publishers : q # p => pub'[q] = pub[q]
  BY <1>1 DEF Store, Typed, TypeOK
<1>3. log' = Append(log, e) /\ subs' = subs
  BY DEF Store
<1> HIDE DEF e
<1>4. /\ DOMAIN log' = DOMAIN log \cup {Len(log) + 1} /\ log'[Len(log) + 1] = e
      /\ \A k \in DOMAIN log : log'[k] = log[k] /\ k < Len(log) + 1
      /\ DOMAIN log = 1 .. Len(log) /\ Len(log) \in Nat
  BY <1>1, <1>3
<1> SUFFICES ASSUME NEW i \in DOMAIN subs, subs[i].listed, subs[i].replayed # {},
                    NEW k \in DOMAIN log', NEW l \in DOMAIN log',
                    k < l, log'[k] \in subs[i].replayed, Wanted(subs[i], log'[l])
             PROVE  \/ log'[l] \in subs[i].replayed \cup subs[i].due
                    \/ \E q \in Publishers : pub'[q].pc = "fan" /\ pub'[q].event = log'[l]
  BY <1>3 DEF NoGap, Wanted
<1>5. CASE l = Len(log) + 1
  BY <1>2, <1>4, <1>5
<1>6. CASE l \in DOMAIN log
  <2>1. k \in DOMAIN log
    BY <1>4, <1>6
  <2>2. \/ log[l] \in subs[i].replayed \cup subs[i].due
        \/ \E q \in Publishers : pub[q].pc = "fan" /\ pub[q].event = log[l]
    BY <1>4, <1>6, <2>1 DEF NoGap
  <2> QED
    BY <1>1, <1>2, <1>4, <1>6, <2>2
<1> QED
  BY <1>4, <1>5, <1>6

\* The publisher gives its event to every subscription that wants it.
LEMMA FanOutGap ==
  ASSUME Typed, NoGap, NEW p \in Publishers, FanOut(p) PROVE NoGap'
<1> DEFINE e == pub[p].event
<1>1. e \in Event /\ DOMAIN subs' = DOMAIN subs
  BY FanOutFacts
<1>2. ASSUME NEW i \in DOMAIN subs
      PROVE  /\ subs'[i].topics = subs[i].topics /\ subs'[i].listed = subs[i].listed
             /\ subs'[i].replayed = subs[i].replayed /\ subs[i].due \subseteq subs'[i].due
             /\ subs[i].listed /\ Wanted(subs[i], e) => e \in subs'[i].due
  <2>1. subs[i] \in Subscriber /\ subs'[i] = Offer(subs[i], e)
    BY <1>2, FanOutFacts
  <2> HIDE DEF e
  <2>2. PICK o \in Subscriber :
          /\ o = Offer(subs[i], e)
          /\ o.topics = subs[i].topics /\ o.listed = subs[i].listed /\ o.replayed = subs[i].replayed
          /\ \/ ~(subs[i].listed /\ Wanted(subs[i], e)) /\ o.due = subs[i].due
             \/ o.due = subs[i].due \cup {e}
    BY <1>1, <2>1, OfferFacts
  <2> QED
    BY <2>1, <2>2
<1>3. UNCHANGED log /\ \A q \in Publishers : q # p => pub'[q] = pub[q]
  BY DEF FanOut, Typed, TypeOK
<1> HIDE DEF e
<1>4. \A i \in DOMAIN subs' : subs'[i].listed /\ Wanted(subs'[i], e) => e \in subs'[i].due
  BY <1>1, <1>2 DEF Wanted
<1> QED
  BY <1>1, <1>2, <1>3, <1>4, GapKept DEF e

\* A subscription that ends.
LEMMA UnlistedGap ==
  ASSUME Typed, NoGap, NEW id \in {None} \cup DOMAIN subs, subs' = Unlisted(id), UNCHANGED hub PROVE NoGap'
<1>1. DOMAIN subs' = DOMAIN subs
  BY UnlistedTyped
<1>2. \A i \in DOMAIN subs :
        /\ subs'[i].topics = subs[i].topics /\ subs'[i].replayed = subs[i].replayed
        /\ subs'[i].due = subs[i].due /\ (subs'[i].listed => subs[i].listed)
  BY UnlistedFacts DEF Typed
<1> QED
  BY <1>1, <1>2, GapKept DEF hub

\* A new subscription has replayed nothing.
LEMMA OpenGap == ASSUME Typed, NoGap, Open PROVE NoGap'
<1>1. PICK new \in Subscriber :
        /\ new.replayed = {} /\ subs' \in Seq(Subscriber) /\ Len(subs') = Len(subs) + 1
        /\ subs'[Len(subs) + 1] = new /\ \A i \in DOMAIN subs : subs'[i] = subs[i]
  BY OpenFacts
<1>2. DOMAIN subs' = DOMAIN subs \cup {Len(subs) + 1}
  BY <1>1, IdFacts
<1> QED
  BY <1>1, <1>2, GapKept DEF Open, hub

\* The last n wanted events of the ring contain, with one of them, every
\* wanted event behind it in the log.
LEMMA LatestClosed ==
  ASSUME Typed, Logged, NEW s, NEW n \in Nat, NEW k \in DOMAIN log, NEW l \in DOMAIN log,
         k < l, log[k] \in {ring[q] : q \in Latest(s, n)}, Wanted(s, log[l])
  PROVE  log[l] \in {ring[q] : q \in Latest(s, n)}
<1>1. /\ ring \in Seq(Event) /\ log \in Seq(Event) /\ DOMAIN ring = 1 .. Len(ring) /\ Len(ring) \in Nat
      /\ DOMAIN log = 1 .. Len(log) /\ Len(log) \in Nat /\ Len(ring) <= Len(log)
  BY DEF Typed, TypeOK, Logged
<1>2. PICK q \in Latest(s, n) : log[k] = ring[q]
  OBVIOUS
<1>3. q \in DOMAIN ring
  BY LatestFacts
<1> DEFINE d == Len(log) - Len(ring)
           r == l - d
<1>4. d + q \in DOMAIN log /\ ring[q] = log[d + q]
  BY <1>1, <1>3 DEF Logged
<1>5. k = d + q
  BY <1>2, <1>4 DEF Logged
<1>6. r \in DOMAIN ring /\ d + r = l /\ q < r
  BY <1>1, <1>3, <1>5
<1>7. ring[r] = log[l]
  BY <1>6 DEF Logged
<1> HIDE DEF d, r
<1>8. r \in Wanting(s)
  BY <1>6, <1>7 DEF Wanting
<1> DEFINE A == {x \in Wanting(s) : x > r}
           B == {x \in Wanting(s) : x > q}
<1>9. IsFiniteSet(B) /\ A \subseteq B
  <2>1. IsFiniteSet(Wanting(s)) /\ Wanting(s) \subseteq DOMAIN ring
    BY LatestFacts
  <2>2. B \subseteq Wanting(s)
    OBVIOUS
  <2>3. IsFiniteSet(B)
    BY <2>1, <2>2, FS_Subset
  <2>4. \A x \in Wanting(s) : x > r => x > q
    BY <1>1, <1>3, <1>6, <2>1
  <2> QED
    BY <2>3, <2>4
<1>10. IsFiniteSet(A) /\ Cardinality(A) \in Nat /\ Cardinality(B) \in Nat /\ Cardinality(A) <= Cardinality(B)
  BY <1>9, FS_Subset, FS_CardinalityType
<1>11. Cardinality(B) < n
  BY <1>2 DEF Latest
<1>12. Cardinality(A) < n
  BY <1>10, <1>11
<1>13. r \in Latest(s, n)
  BY <1>8, <1>12 DEF Latest
<1> QED
  BY <1>7, <1>13

\* What is replayed is closed upwards in the ring, so no later event is
\* missing.
LEMMA ReplayGap == ASSUME Typed, Logged, NoGap, Replay PROVE NoGap'
<1> DEFINE s == subs[sess.sub]
           found == {ring[k] : k \in Latest(s, sess.replay)}
           v == [s EXCEPT !.replayed = found]
<1>1. /\ sess.sub \in DOMAIN subs /\ v \in Subscriber /\ s \in Subscriber /\ sess.replay \in Nat
      /\ subs' = [subs EXCEPT ![sess.sub] = v]
  BY ReplayFacts
<1>2. v.topics = s.topics /\ v.replayed = found
  BY <1>1 DEF Subscriber
<1> HIDE DEF v
<1>3. /\ DOMAIN subs' = DOMAIN subs
      /\ subs'[sess.sub] = v /\ \A j \in DOMAIN subs : j # sess.sub => subs'[j] = subs[j]
  BY <1>1, OneSubscriber DEF Typed, TypeOK
<1>4. UNCHANGED <<log, pub>>
  BY DEF Replay, hub
<1> SUFFICES ASSUME NEW i \in DOMAIN subs, subs'[i].listed, subs'[i].replayed # {},
                    NEW k \in DOMAIN log, NEW l \in DOMAIN log,
                    k < l, log[k] \in subs'[i].replayed, Wanted(subs'[i], log[l])
             PROVE  \/ log[l] \in subs'[i].replayed \cup subs'[i].due
                    \/ \E p \in Publishers : pub[p].pc = "fan" /\ pub[p].event = log[l]
  BY <1>3, <1>4 DEF NoGap, Wanted
<1>5. CASE i = sess.sub
  <2>1. log[k] \in found /\ Wanted(s, log[l])
    BY <1>2, <1>3, <1>5 DEF Wanted
  <2>2. log[l] \in found
    BY <1>1, <2>1, LatestClosed
  <2> QED
    BY <1>2, <1>3, <1>5, <2>2
<1>6. CASE i # sess.sub
  BY <1>3, <1>6 DEF NoGap
<1> QED
  BY <1>5, <1>6

\* Pumps change neither what was replayed nor what was offered.
LEMMA PumpGap == ASSUME Typed, NoGap, NEW i \in DOMAIN subs, Pump(i) PROVE NoGap'
<1>1. PICK v \in Subscriber :
        /\ subs' = [subs EXCEPT ![i] = v]
        /\ v.topics = subs[i].topics /\ v.listed = subs[i].listed /\ v.due = subs[i].due
        /\ v.replayed = subs[i].replayed
  BY PumpTakeFacts, PumpSendFacts, PumpEndFacts DEF Pump
<1>2. DOMAIN subs' = DOMAIN subs /\ subs'[i] = v /\ \A j \in DOMAIN subs : j # i => subs'[j] = subs[j]
  BY <1>1, OneSubscriber DEF Typed, TypeOK
<1>3. UNCHANGED <<log, pub>>
  BY DEF Pump, PumpTake, PumpSend, PumpEnd, hub
<1>4. \A j \in DOMAIN subs :
        /\ subs'[j].topics = subs[j].topics /\ subs'[j].listed = subs[j].listed
        /\ subs'[j].due = subs[j].due /\ subs'[j].replayed = subs[j].replayed
  BY <1>1, <1>2
<1> QED
  BY <1>2, <1>3, <1>4, GapKept

-----------------------------------------------------------------------------
(* The theorems.                                                           *)

IInv == Typed /\ Stream /\ Accounted /\ NoGap

\* Nothing is published, subscribed or sent.
LEMMA InitInv == Init => IInv
<1> SUFFICES ASSUME Init PROVE IInv
  OBVIOUS
<1>1. <<>> \in Seq(Event) /\ <<>> \in Seq(Line) /\ <<>> \in Seq(Subscriber) /\ Len(<<>>) = 0 /\ DOMAIN <<>> = {}
  OBVIOUS
<1>2. Ready \in Sessions
  BY <1>1 DEF Ready, Sessions
<1>3. Typed
  BY <1>1, <1>2 DEF Init, Typed, TypeOK, SessionTyped, Sessions, Ready
<1>4. Stream
  BY <1>1 DEF Init, Stream, Numbered, Logged
<1>5. Accounted
  <2>1. DOMAIN Lines = {}
    BY <1>1 DEF Init, Lines
  <2> QED
    BY <1>1, <2>1 DEF Init, Accounted, Offered, LiveAccounted
<1>6. NoGap
  BY <1>1 DEF Init, NoGap
<1> QED
  BY <1>3, <1>4, <1>5, <1>6 DEF IInv

\* Every step keeps the invariant.
LEMMA NextInv == IInv /\ [Next]_vars => IInv'
<1> SUFFICES ASSUME IInv, [Next]_vars PROVE IInv'
  OBVIOUS
<1> USE DEF IInv
<1>1. CASE \E p \in Publishers : Store(p) \/ FanOut(p) \/ \E t \in Topics : Number(p, t)
  <2> PICK p \in Publishers : Store(p) \/ FanOut(p) \/ \E t \in Topics : Number(p, t)
    BY <1>1
  <2>1. CASE Store(p)
    BY <2>1, StoreTyped, StoreStream, StoreAccounted, StoreGap
  <2>2. CASE FanOut(p)
    BY <2>2, FanOutTyped, FanOutStream, FanOutAccounted, FanOutGap
  <2>3. CASE \E t \in Topics : Number(p, t)
    BY <2>3, NumberTyped, NumberStream, NumberAccounted, NumberGap
  <2> QED
    BY <2>1, <2>2, <2>3
<1>2. CASE \E f \in Filters, n \in Replays : Subscribe(f, n)
  <2> PICK f \in Filters, n \in Replays : Subscribe(f, n)
    BY <1>2
  <2>1. sess.sub \in {None} \cup DOMAIN subs /\ subs' = Unlisted(sess.sub) /\ UNCHANGED <<hub, out, got, conn>>
    BY DEF Subscribe, Typed, SessionTyped, Sessions
  <2> QED
    BY <2>1, SubscribeTyped, HubStream, UnlistedAccounted, UnlistedGap
<1>3. CASE Unsubscribe \/ Close
  <2>1. sess.sub \in {None} \cup DOMAIN subs /\ subs' = Unlisted(sess.sub) /\ UNCHANGED <<hub, out, got, conn>>
    BY <1>3 DEF Unsubscribe, Close, Typed, SessionTyped, Sessions
  <2> QED
    BY <1>3, <2>1, UnsubscribeTyped, CloseTyped, HubStream, UnlistedAccounted, UnlistedGap
<1>4. CASE Open
  BY <1>4, OpenTyped, HubStream, OpenAccounted, OpenGap DEF Open
<1>5. CASE Replay
  BY <1>5, ReplayTyped, HubStream, ReplayAccounted, ReplayGap DEF Replay, Stream
<1>6. CASE Flush
  BY <1>6, FlushTyped, HubStream, FlushAccounted, GapSame DEF Flush, hub
<1>7. CASE Answer
  BY <1>7, AnswerTyped, HubStream, AnswerAccounted, GapSame DEF Answer, hub
<1>8. CASE Deliver
  BY <1>8, DeliverTyped, HubStream, DeliverAccounted, GapSame DEF Deliver, hub
<1>9. CASE Hangup
  BY <1>9, HangupTyped, HubStream, HangupAccounted, GapSame DEF Hangup, hub
<1>10. CASE \E i \in DOMAIN subs : Pump(i)
  <2> PICK i \in DOMAIN subs : Pump(i)
    BY <1>10
  <2>1. UNCHANGED hub
    BY DEF Pump, PumpTake, PumpSend, PumpEnd
  <2>2. Accounted'
    BY PumpTakeAccounted, PumpSendAccounted, PumpEndAccounted DEF Pump
  <2> QED
    BY <2>1, <2>2, PumpTyped, HubStream, PumpGap
<1>11. CASE UNCHANGED vars
  <2>1. UNCHANGED <<seq, pub, ring, log, subs, sess, asked, out, got, conn>>
    BY <1>11 DEF vars, hub
  <2>2. Typed' /\ Stream' /\ NoGap'
    BY <2>1, HubStream, GapSame DEF hub, Typed, TypeOK, SessionTyped, Sessions
  <2>3. Accounted'
    BY <2>1, SameLines, SeqNat, QuietStep DEF SameAccount
  <2> QED
    BY <2>2, <2>3
<1> QED
  BY <1>1, <1>2, <1>3, <1>4, <1>5, <1>6, <1>7, <1>8, <1>9, <1>10, <1>11 DEF Next, Handler

\* The types of the event stream: the ring, the channels and the outbound queue
\* stay within their sizes (events.go:55-61, 78-96, session.go:41-60).
THEOREM TypeCorrect == Spec => []TypeOK
<1>1. IInv => TypeOK
  BY DEF IInv, Typed
<1> QED
  BY InitInv, NextInv, <1>1, PTL DEF Spec

\* No event is lost to a subscription without being counted (events.go:63-76,
\* session.go:87-97), whatever the filters, the sizes of the queues and the
\* number of publishers.
THEOREM LiveAccountedHolds == Spec => []LiveAccounted
<1>1. IInv => LiveAccounted
  BY DEF IInv, Accounted
<1> QED
  BY InitInv, NextInv, <1>1, PTL DEF Spec

\* The switch from replay to live stream leaves no gap (handlers_events.go,
\* events.go:108-136), for any number of publishers and any size of the ring.
THEOREM NoGapHolds == Spec => []NoGap
<1>1. IInv => NoGap
  BY DEF IInv
<1> QED
  BY InitInv, NextInv, <1>1, PTL DEF Spec
=============================================================================
