------------------------------- MODULE EventHub -------------------------------
(***************************************************************************)
(* The event stream of the panel API: EventHub with its ring buffer and    *)
(* subscribers (internal/api/events.go), and a session that subscribes,    *)
(* replays and unsubscribes (session.go, handlers_events.go).              *)
(*                                                                         *)
(* Publishers are the goroutines of the bots' callbacks and of the API     *)
(* handlers.  Publish takes its three steps under no common lock; a        *)
(* subscription has a pump goroutine that copies its channel to the        *)
(* session's outbound queue, which the handler itself writes to as well.   *)
(* The fan-out to all subscribers is one step: Subscribe and Unsubscribe   *)
(* wait for it on subMu, and the channels do not depend on one another.    *)
(***************************************************************************)
EXTENDS Integers, Sequences, FiniteSets

CONSTANTS
  Publishers,   \* goroutines that publish
  Topics,       \* event names
  Filters,      \* the sets of topics a client may ask for
  Replays,      \* the values of replay_last a client may ask for, capped
  RingSize,     \* capacity of the ring buffer
  ChanSize,     \* capacity of a subscriber's channel
  OutSize,      \* capacity of the session's outbound queue
  MaxEvents,    \* bound: events in all
  MaxRequests,  \* bound: requests of the client
  None          \* no event, no subscription

ASSUME HubAssumption ==
  /\ \A f \in Filters : f \subseteq Topics
  /\ Replays \subseteq Nat
  /\ RingSize \in Nat \ {0} /\ ChanSize \in Nat \ {0} /\ OutSize \in Nat \ {0}
  /\ MaxEvents \in Nat /\ MaxRequests \in Nat

VARIABLES
  seq,    \* h.seq
  pub,    \* Publish in every publisher: its next step and its event
  ring,   \* h.buf
  log,    \* all events that ever entered the ring, in that order
  subs,   \* the subscribers created so far, by id
  sess,   \* the session's handler: its step, subscription, replay in hand
  asked,  \* requests so far
  out,    \* s.out
  got,    \* what the client has received
  conn    \* whether the connection is open

hub == <<seq, pub, ring, log>>
vars == <<hub, subs, sess, asked, out, got, conn>>

Event == [seq : 1 .. MaxEvents, topic : Topics]

\* Nothing is no event.
ASSUME NoneAssumption == None \notin Event

Ids == 1 .. MaxRequests

\* listed: in h.subs; running: its pump has not ended.  due holds the events
\* that Publish offered to it, dropped those its channel had no room for,
\* replayed those that Replay returned for it.
Subscriber ==
  [topics : SUBSET Topics, ch : Seq(Event), listed : BOOLEAN, running : BOOLEAN,
   hand : {None} \cup Event, due : SUBSET Event, dropped : Nat, replayed : SUBSET Event]
Line == [type : {"event"}, event : Event, via : {"live", "replay"}, id : Ids]
   \cup [type : {"done"}, id : Ids \cup {None}]

TypeOK ==
  /\ seq \in 0 .. MaxEvents
  /\ pub \in [Publishers -> [pc : {"idle"}] \cup [pc : {"store", "fan"}, event : Event]]
  /\ ring \in Seq(Event) /\ Len(ring) <= RingSize
  /\ log \in Seq(Event)
  /\ subs \in Seq(Subscriber)
  /\ \A i \in DOMAIN subs : Len(subs[i].ch) <= ChanSize
  /\ sess.pc \in {"ready", "open", "replay", "flush", "answer", "gone"}
  /\ sess.sub \in {None} \cup DOMAIN subs
  /\ sess.todo \in Seq(Event)
  /\ asked \in 0 .. MaxRequests
  /\ out \in Seq(Line) /\ Len(out) <= OutSize
  /\ got \in Seq(Line)
  /\ conn \in BOOLEAN

Ready == [pc |-> "ready", sub |-> None, topics |-> {}, replay |-> 0, todo |-> <<>>]

Init ==
  /\ seq = 0
  /\ pub = [p \in Publishers |-> [pc |-> "idle"]]
  /\ ring = <<>> /\ log = <<>>
  /\ subs = <<>>
  /\ sess = Ready
  /\ asked = 0
  /\ out = <<>> /\ got = <<>>
  /\ conn = TRUE

-----------------------------------------------------------------------------
(* Publish.                                                                *)

Number(p, t) ==
  /\ pub[p].pc = "idle" /\ seq < MaxEvents
  /\ seq' = seq + 1
  /\ pub' = [pub EXCEPT ![p] = [pc |-> "store", event |-> [seq |-> seq + 1, topic |-> t]]]
  /\ UNCHANGED <<ring, log, subs, sess, asked, out, got, conn>>

\* Mutant: a full ring is not shortened first.
StoreGrowing(p) ==
  /\ pub[p].pc = "store"
  /\ ring' = Append(ring, pub[p].event)
  /\ log' = Append(log, pub[p].event)
  /\ pub' = [pub EXCEPT ![p].pc = "fan"]
  /\ UNCHANGED <<seq, subs, sess, asked, out, got, conn>>

Store(p) ==
  /\ pub[p].pc = "store"
  /\ ring' = Append(IF Len(ring) = RingSize THEN Tail(ring) ELSE ring, pub[p].event)
  /\ log' = Append(log, pub[p].event)
  /\ pub' = [pub EXCEPT ![p].pc = "fan"]
  /\ UNCHANGED <<seq, subs, sess, asked, out, got, conn>>

Wanted(s, e) == e.topic \in s.topics

\* Mutant: an event for a full channel is dropped without being counted.
OfferSilently(s, e) ==
  IF ~s.listed \/ ~Wanted(s, e) THEN s
  ELSE IF Len(s.ch) < ChanSize THEN [s EXCEPT !.due = @ \cup {e}, !.ch = Append(@, e)]
  ELSE [s EXCEPT !.due = @ \cup {e}]

Offer(s, e) ==
  IF ~s.listed \/ ~Wanted(s, e) THEN s
  ELSE IF Len(s.ch) < ChanSize THEN [s EXCEPT !.due = @ \cup {e}, !.ch = Append(@, e)]
  ELSE [s EXCEPT !.due = @ \cup {e}, !.dropped = @ + 1]

FanOut(p) ==
  /\ pub[p].pc = "fan"
  /\ subs' = [i \in DOMAIN subs |-> Offer(subs[i], pub[p].event)]
  /\ pub' = [pub EXCEPT ![p] = [pc |-> "idle"]]
  /\ UNCHANGED <<seq, ring, log, sess, asked, out, got, conn>>

-----------------------------------------------------------------------------
(* The session.                                                            *)

\* Session.send: when the queue is full the connection is closed instead.
Send(line) ==
  IF Len(out) < OutSize
  THEN out' = Append(out, line) /\ UNCHANGED conn
  ELSE conn' = FALSE /\ UNCHANGED out

\* hub.Unsubscribe of the session's subscription, if it has one.
Unlisted(id) == IF id = None THEN subs ELSE [subs EXCEPT ![id].listed = FALSE]

\* events.subscribe: the previous subscription is closed, ...
Subscribe(topics, n) ==
  /\ conn /\ sess.pc = "ready" /\ asked < MaxRequests
  /\ asked' = asked + 1
  /\ subs' = Unlisted(sess.sub)
  /\ sess' = [sess EXCEPT !.pc = "open", !.sub = None, !.topics = topics, !.replay = n]
  /\ UNCHANGED <<hub, out, got, conn>>

\* ... a new one is listed and its pump started, ...
Open ==
  /\ sess.pc = "open"
  /\ subs' = Append(subs, [topics |-> sess.topics, ch |-> <<>>, listed |-> TRUE,
                           running |-> TRUE, hand |-> None, due |-> {}, dropped |-> 0,
                           replayed |-> {}])
  /\ sess' = [sess EXCEPT !.pc = "replay", !.sub = Len(subs) + 1]
  /\ UNCHANGED <<hub, asked, out, got, conn>>

\* ... Replay reads the last matching events of the ring, ...
Wanting(s) == {k \in DOMAIN ring : Wanted(s, ring[k])}
\* Mutant: the oldest matching events instead of the newest.
LatestOldest(s, n) == {k \in Wanting(s) : Cardinality({l \in Wanting(s) : l < k}) < n}

Latest(s, n) == {k \in Wanting(s) : Cardinality({l \in Wanting(s) : l > k}) < n}
InOrder(S) == CHOOSE f \in [1 .. Cardinality(S) -> S] :
                \A i, j \in 1 .. Cardinality(S) : i < j => f[i] < f[j]

Replay ==
  /\ sess.pc = "replay"
  /\ LET at == Latest(subs[sess.sub], sess.replay)
     IN  /\ sess' = [sess EXCEPT !.pc = "flush", !.todo = [j \in 1 .. Cardinality(at) |-> ring[InOrder(at)[j]]]]
         /\ subs' = [subs EXCEPT ![sess.sub].replayed = {ring[k] : k \in at}]
  /\ UNCHANGED <<hub, asked, out, got, conn>>

\* ... they are sent one by one, ...
Flush ==
  /\ sess.pc = "flush"
  /\ IF sess.todo = <<>>
     THEN /\ sess' = [sess EXCEPT !.pc = "answer"]
          /\ UNCHANGED <<out, conn>>
     ELSE /\ Send([type |-> "event", event |-> Head(sess.todo), via |-> "replay", id |-> sess.sub])
          /\ sess' = [sess EXCEPT !.todo = Tail(@)]
  /\ UNCHANGED <<hub, subs, asked, got>>

\* ... and the response follows.
Answer ==
  /\ sess.pc = "answer"
  /\ Send([type |-> "done", id |-> sess.sub])
  /\ sess' = [Ready EXCEPT !.sub = sess.sub]
  /\ UNCHANGED <<hub, subs, asked, got>>

Unsubscribe ==
  /\ conn /\ sess.pc = "ready" /\ asked < MaxRequests
  /\ asked' = asked + 1
  /\ subs' = Unlisted(sess.sub)
  /\ sess' = [sess EXCEPT !.pc = "answer", !.sub = None]
  /\ UNCHANGED <<hub, out, got, conn>>

\* Mutant: the session ends without unsubscribing.
CloseSubscribed ==
  /\ ~conn /\ sess.pc = "ready"
  /\ sess' = [Ready EXCEPT !.pc = "gone"]
  /\ UNCHANGED <<hub, subs, asked, out, got, conn>>

\* The reader loop ends with the connection: Session.close.
Close ==
  /\ ~conn /\ sess.pc = "ready"
  /\ subs' = Unlisted(sess.sub)
  /\ sess' = [Ready EXCEPT !.pc = "gone"]
  /\ UNCHANGED <<hub, asked, out, got, conn>>

\* startSubPump: for msg := range sub.Ch() { s.send(msg) }
PumpTake(i) ==
  /\ subs[i].hand = None /\ subs[i].ch # <<>>
  /\ subs' = [subs EXCEPT ![i].hand = Head(subs[i].ch), ![i].ch = Tail(@)]
  /\ UNCHANGED <<hub, sess, asked, out, got, conn>>

PumpSend(i) ==
  /\ subs[i].hand # None
  /\ Send([type |-> "event", event |-> subs[i].hand, via |-> "live", id |-> i])
  /\ subs' = [subs EXCEPT ![i].hand = None]
  /\ UNCHANGED <<hub, sess, asked, got>>

PumpEnd(i) ==
  /\ subs[i].running /\ ~subs[i].listed /\ subs[i].ch = <<>> /\ subs[i].hand = None
  /\ subs' = [subs EXCEPT ![i].running = FALSE]
  /\ UNCHANGED <<hub, sess, asked, out, got, conn>>

\* writerLoop.
Deliver ==
  /\ conn /\ out # <<>>
  /\ got' = Append(got, Head(out))
  /\ out' = Tail(out)
  /\ UNCHANGED <<hub, subs, sess, asked, conn>>

\* The client goes away.
Hangup ==
  /\ conn
  /\ conn' = FALSE
  /\ UNCHANGED <<hub, subs, sess, asked, out, got>>

Handler == Open \/ Replay \/ Flush \/ Answer \/ Close
Pump(i) == PumpTake(i) \/ PumpSend(i) \/ PumpEnd(i)

Next ==
  \/ \E p \in Publishers : Store(p) \/ FanOut(p) \/ \E t \in Topics : Number(p, t)
  \/ \E f \in Filters, n \in Replays : Subscribe(f, n)
  \/ Unsubscribe \/ Handler \/ Deliver \/ Hangup
  \/ \E i \in DOMAIN subs : Pump(i)

Spec == Init /\ [][Next]_vars

\* The goroutines of a session and a publication under way run on.
Fairness ==
  /\ WF_vars(Handler)
  /\ \A i \in Ids : WF_vars(i \in DOMAIN subs /\ Pump(i))
  /\ \A p \in Publishers : WF_vars(Store(p) \/ FanOut(p))
FairSpec == Spec /\ Fairness

-----------------------------------------------------------------------------
(* Properties.                                                             *)

Lines == got \o out
Live(i) == {k \in DOMAIN Lines : Lines[k].type = "event" /\ Lines[k].via = "live" /\ Lines[k].id = i}

\* Every event offered to a subscription is at each moment in one place: still
\* in its channel, in the hand of its pump, sent to the client, or counted as
\* dropped; none is lost without being counted while the connection lasts.
LiveAccounted ==
  conn => \A i \in DOMAIN subs :
    Cardinality(subs[i].due) = subs[i].dropped + Len(subs[i].ch) + Cardinality(Live(i))
                                 + (IF subs[i].hand = None THEN 0 ELSE 1)

\* The switch from replay to live stream leaves no gap: an event that entered
\* the ring after a replayed one was replayed too, or was offered live, or its
\* publisher is about to offer it.
NoGap ==
  \A i \in DOMAIN subs : subs[i].listed /\ subs[i].replayed # {} =>
    \A k, l \in DOMAIN log :
      k < l /\ log[k] \in subs[i].replayed /\ Wanted(subs[i], log[l])
      => \/ log[l] \in subs[i].replayed \cup subs[i].due
         \/ \E p \in Publishers : pub[p].pc = "fan" /\ pub[p].event = log[l]

\* When the session is over, every pump it started ends: no goroutine is left
\* behind for a subscription.
PumpsEnd == (sess.pc = "gone") ~> \A i \in DOMAIN subs : ~subs[i].running

\* events.go:111-112: Replay returns events "in order of increasing seq".
ReplayInOrder ==
  \A k, l \in DOMAIN sess.todo : k < l => sess.todo[k].seq < sess.todo[l].seq

\* A second events.subscribe "replaces the previous subscription": after its
\* response the client is sent no event of the old one.
Replaced ==
  \A k, l \in DOMAIN got :
    k < l /\ got[k].type = "done" /\ got[k].id # None /\ got[l].type = "event"
    => got[l].id >= got[k].id
=============================================================================
