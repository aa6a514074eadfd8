---------------------------- MODULE ServerProofs ----------------------------
(***************************************************************************)
(* Proofs about the two parts of the server that share nothing with the    *)
(* parties.                                                                *)
(*                                                                         *)
(* Live thread streams (HubFeed), for any number of instances, threads and *)
(* readers and any buffer size: a channel a room still holds is open, what *)
(* a reader is shown is a LossyFeed, and a gap or a wrong count in it has  *)
(* a cause.                                                                *)
(*                                                                         *)
(* List imports (ImportJobs), for any jobs, users, workers and requests,   *)
(* any number of retries and worker deaths: the types, one live import per *)
(* user, rows applied at most once, and that the whole implements          *)
(* ImportOutcome.  All but the types assume, as the runs do, that a worker *)
(* can read and claim its job's row.                                       *)
(***************************************************************************)
EXTENDS HubFeed, ImportJobs, FiniteSetTheorems, TLAPS

(* A stream handler runs exactly while its channel is open, and the        *)
(* registry holds the reader in the handler's thread and nowhere else.     *)
Streams ==
    \A c \in Subs :
        /\ where[c] # NoRoom <=> chan[c].state = "open"
        /\ \A i \in Instances, r \in Rooms :
              c \in rooms[i][r] <=> i = InstanceOf[c] /\ where[c] = r

(* Offering an event keeps a buffer a bounded sequence of events.          *)
LEMMA OfferTyped ==
    ASSUME NEW buf \in Seq(Event), NEW ev \in Event, Len(buf) <= BufferCap
    PROVE  Offer(buf, ev) \in Seq(Event) /\ Len(Offer(buf, ev)) <= BufferCap
  BY HubAssumption DEF Offer

(* Dispatching to some readers keeps every channel well formed and leaves  *)
(* every channel's state as it was.                                        *)
LEMMA DispatchTyped ==
    ASSUME NEW chans \in [Subs -> Channel],
           NEW cs, NEW ev \in Event,
           \A c \in Subs : Len(chans[c].buf) <= BufferCap
    PROVE  /\ Dispatch(chans, cs, ev)
                \in [Subs -> Channel]
           /\ \A c \in Subs : Len(Dispatch(chans, cs, ev)[c].buf) <= BufferCap
           /\ \A c \in Subs : Dispatch(chans, cs, ev)[c].state = chans[c].state
  <1>1. \A c \in Subs : /\ Offer(chans[c].buf, ev) \in Seq(Event)
                        /\ Len(Offer(chans[c].buf, ev)) <= BufferCap
    BY OfferTyped DEF Channel
  <1>2. QED
    BY <1>1 DEF Dispatch, Channel

LEMMA PresenceEventTyped ==
    ASSUME NEW cs \in SUBSET Subs
    PROVE  PresenceEvent(cs) \in Event
  <1>1. IsFiniteSet(cs)
    BY HubAssumption, FS_Subset
  <1>2. Cardinality(cs) \in Nat
    BY <1>1, FS_CardinalityType
  <1>3. QED
    BY <1>2 DEF PresenceEvent, Event

(* TypeOK in the next state holds after each action of the specification.  *)
LEMMA TypeStep == TypeOK /\ [Next]_vars => TypeOK'
  <1> SUFFICES ASSUME TypeOK, [Next]_vars PROVE TypeOK'
    OBVIOUS
  <1> USE HubAssumption, FeedAssumption
  <1>1. ASSUME NEW r \in Rooms, Announce(r) PROVE TypeOK'
    <2>1. Message(r, Comment(sent[r] + 1)) \in Envelope
      BY DEF TypeOK, Message, Comment, Event, Envelope
    <2>2. wire' \in [Instances -> Seq(Envelope)]
      BY <1>1, <2>1 DEF TypeOK, Announce, Publish
    <2>3. QED
      BY <1>1, <2>2 DEF TypeOK, Announce, Publish
  <1>2. ASSUME NEW i \in Instances, Deliver(i) PROVE TypeOK'
    <2> DEFINE m == Head(wire[i])
    <2>1. m \in Envelope /\ Tail(wire[i]) \in Seq(Envelope)
      BY <1>2 DEF TypeOK, Deliver, Receive
    <2>2. wire' \in [Instances -> Seq(Envelope)]
      BY <1>2, <2>1 DEF TypeOK, Deliver, Receive
    <2>3. chan' = Dispatch(chan, rooms[i][m.room], m.ev)
      BY <1>2 DEF Deliver, Receive
    <2>4. /\ chan' \in [Subs -> Channel]
          /\ \A c \in Subs : Len(chan'[c].buf) <= BufferCap
      BY <2>1, <2>3, DispatchTyped DEF TypeOK, Envelope
    <2>5. missed' \in [Subs -> SUBSET {"event", "presence"}]
      BY <1>2, <2>1 DEF TypeOK, Deliver, Missed, Event, Envelope
    <2>6. QED
      BY <1>2, <2>2, <2>4, <2>5 DEF TypeOK, Deliver, Receive
  <1>3. ASSUME NEW i \in Instances, LoseConnection(i) PROVE TypeOK'
    <2>1. /\ Head(wire[i]) \in Envelope
          /\ Tail(wire[i]) \in Seq(Envelope)
      BY <1>3 DEF TypeOK, LoseConnection, Lose
    <2>2. missed' \in [Subs -> SUBSET {"event", "presence"}]
      BY <1>3, <2>1 DEF TypeOK, LoseConnection, Event, Envelope
    <2>3. QED
      BY <1>3, <2>1, <2>2 DEF TypeOK, LoseConnection, Lose
  <1>4. ASSUME NEW c \in Subs, NEW r \in Rooms, OpenStream(c, r) PROVE TypeOK'
    <2> DEFINE members == rooms[InstanceOf[c]][r] \cup {c}
               opened == [chan EXCEPT ![c] = [state |-> "open", buf |-> <<>>]]
    <2>1. members \in SUBSET Subs /\ rooms' = [rooms EXCEPT ![InstanceOf[c]][r] = members]
      BY <1>4 DEF TypeOK, OpenStream, Subscribe
    <2>2. /\ opened \in [Subs -> Channel]
          /\ \A d \in Subs : Len(opened[d].buf) <= BufferCap
      BY DEF TypeOK, Channel
    <2>3. /\ Dispatch(opened, members, PresenceEvent(members))
                \in [Subs -> Channel]
          /\ \A d \in Subs : Len(Dispatch(opened, members, PresenceEvent(members))[d].buf) <= BufferCap
      BY <2>1, <2>2, PresenceEventTyped, DispatchTyped
    <2>4. /\ chan' \in [Subs -> Channel]
          /\ \A d \in Subs : Len(chan'[d].buf) <= BufferCap
      BY <1>4, <2>2, <2>3 DEF OpenStream, Subscribe
    <2>5. missed' \in [Subs -> SUBSET {"event", "presence"}]
      BY <1>4 DEF TypeOK, OpenStream, Missed, PresenceEvent
    <2>6. rooms' \in [Instances -> [Rooms -> SUBSET Subs]]
      BY <2>1 DEF TypeOK
    <2>7. QED
      BY <1>4, <2>4, <2>5, <2>6 DEF TypeOK, OpenStream, Subscribe
  <1>5. ASSUME NEW c \in Subs, ReadEvent(c) PROVE TypeOK'
    <2>1. /\ Head(chan[c].buf) \in Event
          /\ Tail(chan[c].buf) \in Seq(Event)
          /\ Len(Tail(chan[c].buf)) <= BufferCap
      BY <1>5 DEF TypeOK, ReadEvent, Take, Channel
    <2>2. chan' = [chan EXCEPT ![c].buf = Tail(chan[c].buf)]
      BY <1>5 DEF ReadEvent, Take
    <2>3. chan' \in [Subs -> Channel]
      BY <2>1, <2>2 DEF TypeOK, Channel
    <2>4. \A d \in Subs : Len(chan'[d].buf) <= BufferCap
      BY <2>1, <2>2 DEF TypeOK, Channel
    <2>5. QED
      BY <1>5, <2>1, <2>3, <2>4 DEF TypeOK, ReadEvent, Take, Event
  <1>6. ASSUME NEW c \in Subs, CloseStream(c) PROVE TypeOK'
    <2> DEFINE r == where[c]
               rest == rooms[InstanceOf[c]][r] \ {c}
               told == Dispatch(chan, rest, PresenceEvent(rest))
    <2>1. r \in Rooms /\ rest \in SUBSET Subs
      BY <1>6 DEF TypeOK, CloseStream
    <2>2. /\ told \in [Subs -> Channel]
          /\ \A d \in Subs : Len(told[d].buf) <= BufferCap
      BY <2>1, PresenceEventTyped, DispatchTyped DEF TypeOK
    <2>3. chan' = [(IF Presence THEN told ELSE chan) EXCEPT ![c].state = "closed"]
      BY <1>6 DEF CloseStream, Cleanup
    <2>4. /\ chan' \in [Subs -> Channel]
          /\ \A d \in Subs : Len(chan'[d].buf) <= BufferCap
      <3>1. CASE Presence
        BY <2>2, <2>3, <3>1, ZenonT(60) DEF Channel
      <3>2. CASE ~Presence
        BY <2>3, <3>2, ZenonT(60) DEF TypeOK, Channel
      <3>3. QED
        BY <3>1, <3>2
    <2>5. rooms' \in [Instances -> [Rooms -> SUBSET Subs]]
      BY <1>6, <2>1 DEF TypeOK, CloseStream, Cleanup
    <2>6. missed' \in [Subs -> SUBSET {"event", "presence"}]
      BY <1>6 DEF TypeOK, CloseStream, Missed, PresenceEvent
    <2>7. QED
      BY <1>6, <2>4, <2>5, <2>6 DEF TypeOK, CloseStream, Cleanup
  <1>7. ASSUME NEW c \in Subs, Forget(c) PROVE TypeOK'
    BY <1>7 DEF TypeOK, Forget, Release, FreeChan, Channel
  <1>8. CASE UNCHANGED vars
    BY <1>8 DEF TypeOK, vars
  <1>9. QED
    BY <1>1, <1>2, <1>3, <1>4, <1>5, <1>6, <1>7, <1>8 DEF Next

(* The variables stay in their types, and no buffer outgrows its bound.    *)
THEOREM FeedTypeCorrect == Spec => []TypeOK
  <1>1. Init => TypeOK
    BY HubAssumption, FeedAssumption DEF Init, HubInit, TypeOK, FreeChan, Channel, Event
  <1>2. QED
    BY <1>1, TypeStep, PTL DEF Spec
----------------------------------------------------------------------------
(* Streams is inductive on top of the types.                               *)
LEMMA StreamsStep == TypeOK /\ Streams /\ [Next]_vars => Streams'
  <1> SUFFICES ASSUME TypeOK, Streams, [Next]_vars PROVE Streams'
    OBVIOUS
  <1> USE HubAssumption, FeedAssumption
  <1>1. ASSUME NEW r \in Rooms, Announce(r) PROVE Streams'
    BY <1>1 DEF Streams, Announce, Publish
  <1>2. ASSUME NEW i \in Instances, Deliver(i) PROVE Streams'
    <2>1. \A c \in Subs : chan'[c].state = chan[c].state
      BY <1>2 DEF Deliver, Receive, Dispatch, TypeOK, Channel
    <2>2. rooms' = rooms /\ where' = where
      BY <1>2 DEF Deliver, Receive
    <2>3. QED
      BY <2>1, <2>2 DEF Streams
  <1>3. ASSUME NEW i \in Instances, LoseConnection(i) PROVE Streams'
    BY <1>3 DEF Streams, LoseConnection, Lose
  <1>4. ASSUME NEW c \in Subs, NEW r \in Rooms, OpenStream(c, r) PROVE Streams'
    <2>1. /\ chan'[c].state = "open"
          /\ \A d \in Subs \ {c} : chan'[d].state = chan[d].state
      BY <1>4 DEF OpenStream, Subscribe, Dispatch, TypeOK, Channel
    <2>2. /\ rooms' = [rooms EXCEPT ![InstanceOf[c]][r] = rooms[InstanceOf[c]][r] \cup {c}]
          /\ where' = [where EXCEPT ![c] = r]
          /\ where[c] = NoRoom
      BY <1>4 DEF OpenStream, Subscribe
    <2>3. ASSUME NEW d \in Subs, NEW i \in Instances, NEW q \in Rooms
          PROVE  d \in rooms'[i][q] <=> i = InstanceOf[d] /\ where'[d] = q
      <3>1. d \in rooms'[i][q] <=> d \in rooms[i][q] \/ (d = c /\ i = InstanceOf[c] /\ q = r)
        BY <2>2 DEF TypeOK
      <3>2. CASE d = c
        BY <2>2, <3>1, <3>2 DEF TypeOK, Streams
      <3>3. CASE d # c
        BY <2>2, <3>1, <3>3 DEF TypeOK, Streams
      <3>4. QED
        BY <3>2, <3>3
    <2>4. ASSUME NEW d \in Subs
          PROVE  where'[d] # NoRoom <=> chan'[d].state = "open"
      <3>1. CASE d = c
        BY <2>1, <2>2, <3>1 DEF TypeOK
      <3>2. CASE d # c
        <4>1. where'[d] = where[d]
          BY <2>2, <3>2 DEF TypeOK
        <4>2. QED
          BY <2>1, <3>2, <4>1 DEF Streams
      <3>3. QED
        BY <3>1, <3>2
    <2>5. QED
      BY <2>3, <2>4 DEF Streams
  <1>5. ASSUME NEW c \in Subs, ReadEvent(c) PROVE Streams'
    <2>1. \A d \in Subs : chan'[d].state = chan[d].state
      BY <1>5 DEF ReadEvent, Take, TypeOK, Channel
    <2>2. QED
      BY <1>5, <2>1 DEF Streams, ReadEvent, Take
  <1>6. ASSUME NEW c \in Subs, CloseStream(c) PROVE Streams'
    <2>1. /\ chan'[c].state = "closed"
          /\ \A d \in Subs \ {c} : chan'[d].state = chan[d].state
      BY <1>6 DEF CloseStream, Cleanup, Dispatch, TypeOK, Channel
    <2>2. /\ rooms' = [rooms EXCEPT ![InstanceOf[c]][where[c]] =
                          rooms[InstanceOf[c]][where[c]] \ {c}]
          /\ where' = [where EXCEPT ![c] = NoRoom]
          /\ where[c] \in Rooms
      BY <1>6 DEF CloseStream, Cleanup, TypeOK
    <2>3. ASSUME NEW d \in Subs, NEW i \in Instances, NEW q \in Rooms
          PROVE  d \in rooms'[i][q] <=> i = InstanceOf[d] /\ where'[d] = q
      <3>1. d \in rooms'[i][q] <=>
              d \in rooms[i][q] /\ ~(d = c /\ i = InstanceOf[c] /\ q = where[c])
        BY <2>2 DEF TypeOK
      <3>2. CASE d = c
        BY <2>2, <3>1, <3>2 DEF TypeOK, Streams
      <3>3. CASE d # c
        BY <2>2, <3>1, <3>3 DEF TypeOK, Streams
      <3>4. QED
        BY <3>2, <3>3
    <2>4. ASSUME NEW d \in Subs
          PROVE  where'[d] # NoRoom <=> chan'[d].state = "open"
      <3>1. CASE d = c
        BY <2>1, <2>2, <3>1 DEF TypeOK
      <3>2. CASE d # c
        <4>1. where'[d] = where[d]
          BY <2>2, <3>2 DEF TypeOK
        <4>2. QED
          BY <2>1, <3>2, <4>1 DEF Streams
      <3>3. QED
        BY <3>1, <3>2
    <2>5. QED
      BY <2>3, <2>4 DEF Streams
  <1>7. ASSUME NEW c \in Subs, Forget(c) PROVE Streams'
    <2>1. /\ chan[c].state = "closed" /\ chan'[c].state = "free"
          /\ \A d \in Subs \ {c} : chan'[d].state = chan[d].state
      BY <1>7 DEF Forget, Release, FreeChan, TypeOK
    <2>2. QED
      BY <1>7, <2>1 DEF Streams, Forget, Release
  <1>8. CASE UNCHANGED vars
    BY <1>8 DEF Streams, vars
  <1>9. QED
    BY <1>1, <1>2, <1>3, <1>4, <1>5, <1>6, <1>7, <1>8 DEF Next

LEMMA StreamsAlways == Spec => []Streams
  <1>1. Init => Streams
    BY HubAssumption, FeedAssumption DEF Init, HubInit, FreeChan, Streams
  <1>2. QED
    BY <1>1, StreamsStep, FeedTypeCorrect, PTL DEF Spec

(* The registry never holds a reader whose channel is closed, so no        *)
(* dispatch sends on a closed channel, whatever the interleaving of        *)
(* Subscribe, cleanup and the receive goroutine.                           *)
THEOREM FeedNeverSendsOnClosed == Spec => []NoSendOnClosed
  <1>1. TypeOK /\ Streams => NoSendOnClosed
    BY HubAssumption, FeedAssumption
       DEF TypeOK, Streams, NoSendOnClosed, Registered
  <1>2. QED
    BY <1>1, StreamsAlways, FeedTypeCorrect, PTL
----------------------------------------------------------------------------
(* Comment numbers along a buffer: strictly increasing, and all above or   *)
(* all below a bound.  Presence events are not numbered and do not count.  *)
Increasing(buf) ==
    \A k, l \in 1..Len(buf) :
        k < l /\ buf[k].name = "event" /\ buf[l].name = "event" => buf[k].n < buf[l].n
Above(buf, n) == \A k \in 1..Len(buf) : buf[k].name = "event" => n < buf[k].n
Below(buf, n) == \A k \in 1..Len(buf) : buf[k].name = "event" => buf[k].n < n
AtMost(buf, n) == \A k \in 1..Len(buf) : buf[k].name = "event" => buf[k].n <= n

(* One instance's wire: comments only, numbered in publication order.      *)
WireOrder(w) ==
    /\ \A k \in 1..Len(w) : w[k].ev.name = "event" /\ w[k].ev.n \in 1..sent[w[k].room]
    /\ \A k, l \in 1..Len(w) : k < l /\ w[k].room = w[l].room => w[k].ev.n < w[l].ev.n

(* Everything still on the wire for a reader's thread is newer than what   *)
(* the reader was shown or holds in its buffer.                            *)
Ahead(w, r, n, buf) ==
    \A k \in 1..Len(w) : w[k].room = r => n < w[k].ev.n /\ Below(buf, w[k].ev.n)

StreamOrder(r, n, buf, w) ==
    /\ n <= sent[r]
    /\ Increasing(buf)
    /\ Above(buf, n)
    /\ AtMost(buf, sent[r])
    /\ Ahead(w, r, n, buf)

(* The inductive invariant behind FeedSpec: order along the whole path.    *)
Order ==
    /\ \A i \in Instances : WireOrder(wire[i])
    /\ \A c \in Subs :
          /\ where[c] = NoRoom => last[c] = 0
          /\ where[c] \in Rooms =>
                StreamOrder(where[c], last[c], chan[c].buf, wire[InstanceOf[c]])

LEMMA TailOrder ==
    ASSUME NEW buf \in Seq(Event), buf # <<>>, NEW m \in Nat
    PROVE  /\ Increasing(buf) => Increasing(Tail(buf))
           /\ Increasing(buf) /\ Head(buf).name = "event" => Above(Tail(buf), Head(buf).n)
           /\ Above(buf, m) => Above(Tail(buf), m)
           /\ AtMost(buf, m) => AtMost(Tail(buf), m)
           /\ Below(buf, m) => Below(Tail(buf), m)
  <1>1. /\ Len(Tail(buf)) = Len(buf) - 1
        /\ \A k \in 1..Len(Tail(buf)) : k + 1 \in 1..Len(buf) /\ Tail(buf)[k] = buf[k + 1]
        /\ Head(buf) = buf[1]
        /\ 1 \in 1..Len(buf)
        /\ Len(buf) \in Nat
    OBVIOUS
  <1>2. Increasing(buf) => Increasing(Tail(buf))
    BY <1>1 DEF Increasing
  <1>3. Increasing(buf) /\ Head(buf).name = "event" => Above(Tail(buf), Head(buf).n)
    BY <1>1 DEF Increasing, Above
  <1>4. /\ Above(buf, m) => Above(Tail(buf), m)
        /\ AtMost(buf, m) => AtMost(Tail(buf), m)
        /\ Below(buf, m) => Below(Tail(buf), m)
    BY <1>1 DEF Above, AtMost, Below
  <1>5. QED
    BY <1>2, <1>3, <1>4

LEMMA OfferOrder ==
    ASSUME NEW buf \in Seq(Event), NEW ev \in Event, NEW m \in Nat,
           ev.name = "event" => Below(buf, ev.n)
    PROVE  /\ Increasing(buf) => Increasing(Offer(buf, ev))
           /\ Above(buf, m) /\ (ev.name = "event" => m < ev.n) => Above(Offer(buf, ev), m)
           /\ AtMost(buf, m) /\ (ev.name = "event" => ev.n <= m) => AtMost(Offer(buf, ev), m)
           /\ Below(buf, m) /\ (ev.name = "event" => ev.n < m) => Below(Offer(buf, ev), m)
  <1>1. CASE Offer(buf, ev) = buf
    BY <1>1
  <1>2. CASE Offer(buf, ev) = Append(buf, ev)
    <2> DEFINE b == Append(buf, ev)
    <2>1. /\ Len(b) = Len(buf) + 1
          /\ \A k \in 1..Len(b) : (k \in 1..Len(buf) /\ b[k] = buf[k]) \/ (k = Len(buf) + 1 /\ b[k] = ev)
          /\ Len(buf) \in Nat
      OBVIOUS
    <2> HIDE DEF b
    <2>2. Increasing(buf) => Increasing(b)
      BY <2>1 DEF Increasing, Below
    <2>3. /\ Above(buf, m) /\ (ev.name = "event" => m < ev.n) => Above(b, m)
          /\ AtMost(buf, m) /\ (ev.name = "event" => ev.n <= m) => AtMost(b, m)
          /\ Below(buf, m) /\ (ev.name = "event" => ev.n < m) => Below(b, m)
      BY <2>1 DEF Above, AtMost, Below
    <2>4. QED
      BY <1>2, <2>2, <2>3 DEF b
  <1>3. QED
    BY <1>1, <1>2 DEF Offer

(* A presence event disturbs no stream's order.                            *)
LEMMA PresenceKeepsOrder ==
    ASSUME NEW r \in Rooms, NEW n \in Nat, NEW buf \in Seq(Event), NEW w \in Seq(Envelope),
           NEW ev \in Event, ev.name = "presence", sent \in [Rooms -> Nat],
           StreamOrder(r, n, buf, w)
    PROVE  StreamOrder(r, n, Offer(buf, ev), w)
  <1>1. \A m \in Nat : /\ Increasing(buf) => Increasing(Offer(buf, ev))
                       /\ Above(buf, m) => Above(Offer(buf, ev), m)
                       /\ AtMost(buf, m) => AtMost(Offer(buf, ev), m)
                       /\ Below(buf, m) => Below(Offer(buf, ev), m)
    BY OfferOrder
  <1>2. \A k \in 1..Len(w) : w[k].ev.n \in Nat
    <2>1. \A k \in 1..Len(w) : w[k] \in Envelope
      OBVIOUS
    <2>2. QED
      BY <2>1 DEF Envelope, Event
  <1>3. QED
    BY <1>1, <1>2 DEF StreamOrder, Ahead

(* Taking the oldest message off a wire keeps what is left in order, and   *)
(* everything left for its room is newer.                                  *)
LEMMA TailWire ==
    ASSUME NEW w \in Seq(Envelope), w # <<>>
    PROVE  /\ WireOrder(w) => WireOrder(Tail(w))
           /\ WireOrder(w) => \A k \in 1..Len(Tail(w)) :
                 Tail(w)[k].room = Head(w).room => Head(w).ev.n < Tail(w)[k].ev.n
           /\ \A r, n, buf : Ahead(w, r, n, buf) => Ahead(Tail(w), r, n, buf)
  <1>1. /\ Len(Tail(w)) = Len(w) - 1
        /\ \A k \in 1..Len(Tail(w)) : k + 1 \in 1..Len(w) /\ Tail(w)[k] = w[k + 1]
        /\ Head(w) = w[1]
        /\ 1 \in 1..Len(w)
        /\ Len(w) \in Nat
    OBVIOUS
  <1>2. WireOrder(w) => WireOrder(Tail(w))
    BY <1>1 DEF WireOrder
  <1>3. WireOrder(w) => \A k \in 1..Len(Tail(w)) :
           Tail(w)[k].room = Head(w).room => Head(w).ev.n < Tail(w)[k].ev.n
    BY <1>1 DEF WireOrder
  <1>4. \A r, n, buf : Ahead(w, r, n, buf) => Ahead(Tail(w), r, n, buf)
    BY <1>1 DEF Ahead
  <1>5. QED
    BY <1>2, <1>3, <1>4

(* A new comment goes to the end of a wire.                                *)
LEMMA AppendWire ==
    ASSUME NEW w \in Seq(Envelope), NEW r \in Rooms, NEW ev \in Event,
           sent \in [Rooms -> Nat],
           ev.name = "event", ev.n = sent[r] + 1, WireOrder(w),
           sent' = [sent EXCEPT ![r] = sent[r] + 1]
    PROVE  WireOrder(Append(w, Message(r, ev)))'
  <1> DEFINE x == Append(w, Message(r, ev))
  <1>1. /\ Len(x) = Len(w) + 1
        /\ \A k \in 1..Len(x) : \/ k \in 1..Len(w) /\ x[k] = w[k]
                                \/ k = Len(w) + 1 /\ x[k] = Message(r, ev)
        /\ Len(w) \in Nat
    BY DEF Message
  <1>2. \A k \in 1..Len(w) : w[k] \in Envelope
    OBVIOUS
  <1>3. \A k \in 1..Len(w) : w[k].room \in Rooms /\ w[k].ev.n \in Nat
    BY <1>2 DEF Envelope, Event
  <1>4. Message(r, ev).room = r /\ Message(r, ev).ev = ev
    BY DEF Message
  <1> HIDE DEF x
  <1>5. ASSUME NEW k \in 1..Len(x)
        PROVE  x[k].ev.name = "event" /\ x[k].ev.n \in 1..sent'[x[k].room]
    BY <1>1, <1>3, <1>4 DEF WireOrder, Event
  <1>6. ASSUME NEW k \in 1..Len(x), NEW l \in 1..Len(x), k < l, x[k].room = x[l].room
        PROVE  x[k].ev.n < x[l].ev.n
    BY <1>1, <1>3, <1>4, <1>6, SMTT(40) DEF WireOrder, Event
  <1>7. QED
    BY <1>5, <1>6 DEF WireOrder, x

(* Order is inductive on top of TypeOK and Streams.                        *)
LEMMA OrderStep == TypeOK /\ Streams /\ Order /\ [Next]_vars => Order'
  <1> SUFFICES ASSUME TypeOK, Streams, Order, [Next]_vars PROVE Order'
    OBVIOUS
  <1> USE HubAssumption, FeedAssumption
  <1>a. \A c \in Subs : chan[c].buf \in Seq(Event) /\ last[c] \in Nat
    BY DEF TypeOK, Channel
  <1>1. ASSUME NEW r \in Rooms, Announce(r) PROVE Order'
    <2>1. /\ sent' = [sent EXCEPT ![r] = sent[r] + 1]
          /\ wire' = [i \in Instances |-> Append(wire[i], Message(r, Comment(sent[r] + 1)))]
          /\ UNCHANGED <<where, last, chan>>
      BY <1>1 DEF Announce, Publish
    <2>2. Comment(sent[r] + 1) \in Event /\ Comment(sent[r] + 1).name = "event"
            /\ Comment(sent[r] + 1).n = sent[r] + 1
      BY DEF Comment, Event, TypeOK
    <2>3. ASSUME NEW i \in Instances PROVE WireOrder(wire[i])'
      BY <2>1, <2>2, AppendWire DEF TypeOK, Order
    <2>4. ASSUME NEW c \in Subs, where[c] \in Rooms
          PROVE  StreamOrder(where[c], last[c], chan[c].buf, wire[InstanceOf[c]])'
      <3> DEFINE w == wire[InstanceOf[c]]
                 x == wire'[InstanceOf[c]]
                 buf == chan[c].buf
      <3>1. StreamOrder(where[c], last[c], buf, w)
        BY <2>4 DEF Order
      <3>2. x = Append(w, Message(r, Comment(sent[r] + 1))) /\ w \in Seq(Envelope)
        BY <2>1 DEF TypeOK
      <3>3. \A k \in 1..Len(x) : \/ k \in 1..Len(w) /\ x[k] = w[k]
                                 \/ k = Len(w) + 1 /\ x[k] = Message(r, Comment(sent[r] + 1))
        BY <3>2
      <3>4. sent'[where[c]] \in Nat /\ sent[where[c]] \in Nat /\ sent[where[c]] <= sent'[where[c]]
        BY <2>1, <2>4 DEF TypeOK
      <3>5. \A k \in 1..Len(buf) : buf[k] \in Event
        BY <1>a
      <3>6. AtMost(buf, sent'[where[c]])
        BY <3>1, <3>4, <3>5 DEF StreamOrder, AtMost, Event
      <3>7. Message(r, Comment(sent[r] + 1)).room = r /\ Message(r, Comment(sent[r] + 1)).ev.n = sent[r] + 1
        BY DEF Message, Comment
      <3>8. where[c] = r => last[c] < sent[r] + 1 /\ Below(buf, sent[r] + 1)
        BY <3>1, <3>4, <3>5, <1>a, SMTT(40) DEF StreamOrder, AtMost, Below, Event
      <3>9. Ahead(x, where[c], last[c], buf)
        BY <3>1, <3>3, <3>7, <3>8 DEF StreamOrder, Ahead
      <3>10. last[c] <= sent'[where[c]]
        BY <3>1, <3>4, <1>a DEF StreamOrder
      <3>11. QED
        BY <2>1, <3>1, <3>6, <3>9, <3>10 DEF StreamOrder
    <2>5. QED
      BY <2>1, <2>3, <2>4 DEF Order
  <1>2. ASSUME NEW i \in Instances, Deliver(i) PROVE Order'
    <2> DEFINE m == Head(wire[i])
    <2>1. /\ wire[i] # <<>>
          /\ wire' = [wire EXCEPT ![i] = Tail(wire[i])]
          /\ chan' = Dispatch(chan, rooms[i][m.room], m.ev)
          /\ UNCHANGED <<sent, where, last, rooms>>
      BY <1>2 DEF Deliver, Receive
    <2>2. wire[i] \in Seq(Envelope) /\ m \in Envelope
      BY <2>1 DEF TypeOK
    <2>3. /\ WireOrder(Tail(wire[i]))
          /\ \A k \in 1..Len(Tail(wire[i])) :
                Tail(wire[i])[k].room = m.room => m.ev.n < Tail(wire[i])[k].ev.n
          /\ \A r, n, buf : Ahead(wire[i], r, n, buf) => Ahead(Tail(wire[i]), r, n, buf)
      BY <2>1, <2>2, TailWire DEF Order
    <2>4. ASSUME NEW j \in Instances PROVE WireOrder(wire[j])'
      <3>1. WireOrder(wire'[j])
        BY <2>1, <2>3 DEF TypeOK, Order
      <3>2. QED
        BY <3>1, <2>1 DEF WireOrder
    <2>5. ASSUME NEW c \in Subs, where[c] \in Rooms
          PROVE  StreamOrder(where[c], last[c], chan'[c].buf, wire'[InstanceOf[c]])
      <3> DEFINE buf == chan[c].buf
                 w == wire[InstanceOf[c]]
                 x == wire'[InstanceOf[c]]
      <3>1. StreamOrder(where[c], last[c], buf, w)
        BY <2>5 DEF Order
      <3>2. Ahead(x, where[c], last[c], buf)
        BY <3>1, <2>1, <2>3 DEF StreamOrder, TypeOK
      <3>3. CASE c \notin rooms[i][m.room]
        <4>1. chan'[c] = chan[c]
          BY <2>1, <3>3 DEF Dispatch
        <4>2. QED
          BY <3>1, <3>2, <4>1 DEF StreamOrder
      <3>4. CASE c \in rooms[i][m.room]
        <4>1. InstanceOf[c] = i /\ where[c] = m.room
          BY <3>4, <2>2 DEF Streams, Envelope
        <4>2. chan'[c].buf = Offer(buf, m.ev)
          BY <2>1, <3>4 DEF Dispatch, TypeOK, Channel
        <4>3. m = wire[i][1] /\ 1 \in 1..Len(wire[i])
          BY <2>1, <2>2
        <4>4. last[c] < m.ev.n /\ Below(buf, m.ev.n)
          BY <3>1, <4>1, <4>3 DEF StreamOrder, Ahead
        <4>5. m.ev \in Event /\ m.ev.n \in Nat /\ sent[where[c]] \in Nat
                /\ m.ev.n <= sent[where[c]]
          <5>1. m.ev \in Event /\ m.ev.n \in Nat /\ sent[where[c]] \in Nat
            BY <2>2, <2>5 DEF Envelope, Event, TypeOK
          <5>2. m.ev.n \in 1..sent[m.room]
            BY <4>3 DEF Order, WireOrder
          <5>3. QED
            BY <4>1, <5>1, <5>2
        <4>6. /\ Increasing(Offer(buf, m.ev))
              /\ Above(Offer(buf, m.ev), last[c])
              /\ AtMost(Offer(buf, m.ev), sent[where[c]])
          BY <3>1, <4>4, <4>5, <1>a, OfferOrder DEF StreamOrder
        <4>7. x = Tail(wire[i]) /\ \A k \in 1..Len(x) : x[k].ev.n \in Nat
          <5>1. x = Tail(wire[i])
            BY <2>1, <4>1 DEF TypeOK
          <5>2. x \in Seq(Envelope)
            BY <5>1, <2>1, <2>2
          <5>3. \A k \in 1..Len(x) : x[k] \in Envelope
            BY <5>2
          <5>4. QED
            BY <5>1, <5>3 DEF Envelope, Event
        <4>8. ASSUME NEW k \in 1..Len(x), x[k].room = where[c]
              PROVE  last[c] < x[k].ev.n /\ Below(Offer(buf, m.ev), x[k].ev.n)
          <5>1. last[c] < x[k].ev.n /\ Below(buf, x[k].ev.n)
            BY <3>2, <4>8 DEF Ahead
          <5>2. m.ev.n < x[k].ev.n
            BY <2>3, <4>1, <4>7, <4>8
          <5>3. QED
            BY <5>1, <5>2, <4>4, <4>5, <4>7, <1>a, OfferOrder
        <4>9. QED
          BY <3>1, <4>2, <4>6, <4>8 DEF StreamOrder, Ahead
      <3>5. QED
        BY <3>3, <3>4
    <2>6. ASSUME NEW c \in Subs, where'[c] \in Rooms
          PROVE StreamOrder(where[c], last[c], chan[c].buf, wire[InstanceOf[c]])'
      BY <2>1, <2>5, <2>6 DEF StreamOrder
    <2>7. QED
      BY <2>1, <2>4, <2>6 DEF Order
  <1>3. ASSUME NEW i \in Instances, LoseConnection(i) PROVE Order'
    <2>1. /\ wire[i] # <<>>
          /\ wire' = [wire EXCEPT ![i] = Tail(wire[i])]
          /\ UNCHANGED <<sent, where, last, chan>>
      BY <1>3 DEF LoseConnection, Lose
    <2>2. /\ WireOrder(Tail(wire[i]))
          /\ \A r, n, buf : Ahead(wire[i], r, n, buf) => Ahead(Tail(wire[i]), r, n, buf)
      BY <2>1, TailWire DEF Order, TypeOK
    <2>3. ASSUME NEW j \in Instances PROVE WireOrder(wire[j])'
      <3>1. WireOrder(wire'[j])
        BY <2>1, <2>2 DEF TypeOK, Order
      <3>2. QED
        BY <3>1, <2>1 DEF WireOrder
    <2>4. ASSUME NEW c \in Subs, where'[c] \in Rooms
          PROVE  StreamOrder(where[c], last[c], chan[c].buf, wire[InstanceOf[c]])'
      <3>1. StreamOrder(where[c], last[c], chan[c].buf, wire[InstanceOf[c]])
        BY <2>1, <2>4 DEF Order
      <3>2. Ahead(wire'[InstanceOf[c]], where[c], last[c], chan[c].buf)
        BY <3>1, <2>1, <2>2 DEF StreamOrder, TypeOK
      <3>3. QED
        BY <2>1, <3>1, <3>2 DEF StreamOrder
    <2>5. QED
      BY <2>1, <2>3, <2>4 DEF Order
  <1>4. ASSUME NEW c \in Subs, NEW r \in Rooms, OpenStream(c, r) PROVE Order'
    <2> DEFINE members == rooms[InstanceOf[c]][r] \cup {c}
               told == PresenceEvent(members)
    <2>1. /\ where[c] = NoRoom
          /\ where' = [where EXCEPT ![c] = r]
          /\ UNCHANGED <<wire, sent, last>>
      BY <1>4 DEF OpenStream, Subscribe
    <2>2. told \in Event /\ told.name = "presence"
      <3>1. members \in SUBSET Subs
        BY DEF TypeOK
      <3>2. QED
        BY <3>1, PresenceEventTyped DEF PresenceEvent
    <2>3. \A d \in Subs \ {c} : chan'[d].buf \in {chan[d].buf, Offer(chan[d].buf, told)}
      BY <1>4 DEF OpenStream, Subscribe, Dispatch, TypeOK, Channel
    <2>4. chan'[c].buf \in {<<>>, Offer(<<>>, told)}
      BY <1>4 DEF OpenStream, Subscribe, Dispatch, TypeOK, Channel
    <2>5. ASSUME NEW d \in Subs, where'[d] \in Rooms
          PROVE  StreamOrder(where[d], last[d], chan[d].buf, wire[InstanceOf[d]])'
      <3>1. wire[InstanceOf[d]] \in Seq(Envelope) /\ sent \in [Rooms -> Nat]
        BY DEF TypeOK
      <3>2. CASE d # c
        <4>1. where'[d] = where[d]
          BY <2>1, <3>2 DEF TypeOK
        <4>2. StreamOrder(where[d], last[d], chan[d].buf, wire[InstanceOf[d]])
          BY <2>5, <4>1 DEF Order
        <4>3. StreamOrder(where[d], last[d], Offer(chan[d].buf, told), wire[InstanceOf[d]])
          BY <2>2, <2>5, <3>1, <4>1, <4>2, <1>a, PresenceKeepsOrder
        <4>4. StreamOrder(where[d], last[d], chan'[d].buf, wire[InstanceOf[d]])
          BY <2>3, <3>2, <4>2, <4>3
        <4>5. QED
          BY <2>1, <4>1, <4>4 DEF StreamOrder
      <3>3. CASE d = c
        <4>1. where'[d] = r /\ last[d] = 0
          BY <2>1, <3>3 DEF TypeOK, Order
        <4>2. wire[InstanceOf[d]] = wire[InstanceOf[c]] /\ WireOrder(wire[InstanceOf[d]])
          BY <3>3 DEF Order
        <4>3. \A k \in 1..Len(wire[InstanceOf[d]]) :
                 wire[InstanceOf[d]][k].room = r => 0 < wire[InstanceOf[d]][k].ev.n
          BY <3>1, <4>2 DEF WireOrder
        <4>4. StreamOrder(r, 0, <<>>, wire[InstanceOf[d]])
          BY <3>1, <4>3 DEF StreamOrder, Increasing, Above, AtMost, Below, Ahead
        <4>5. StreamOrder(r, 0, Offer(<<>>, told), wire[InstanceOf[d]])
          <5>1. <<>> \in Seq(Event) /\ 0 \in Nat
            OBVIOUS
          <5> HIDE DEF told
          <5>2. QED
            BY <2>2, <3>1, <4>4, <5>1, PresenceKeepsOrder
        <4>6. StreamOrder(r, 0, chan'[d].buf, wire[InstanceOf[d]])
          BY <2>4, <3>3, <4>4, <4>5
        <4>7. QED
          BY <2>1, <4>1, <4>6 DEF StreamOrder
      <3>4. QED
        BY <3>2, <3>3
    <2>6. \A i \in Instances : WireOrder(wire[i])'
      BY <2>1 DEF Order, WireOrder
    <2>7. \A d \in Subs : where'[d] = NoRoom => last'[d] = 0
      <3>1. \A d \in Subs : where'[d] = NoRoom => where[d] = NoRoom
        BY <2>1 DEF TypeOK
      <3>2. QED
        BY <2>1, <3>1 DEF Order
    <2>8. QED
      BY <2>5, <2>6, <2>7 DEF Order
  <1>5. ASSUME NEW c \in Subs, ReadEvent(c) PROVE Order'
    <2> DEFINE ev == Head(chan[c].buf)
    <2>1. /\ chan[c].buf # <<>>
          /\ chan[c].state = "open"
          /\ chan' = [chan EXCEPT ![c].buf = Tail(chan[c].buf)]
          /\ UNCHANGED <<wire, sent, where>>
      BY <1>5 DEF ReadEvent, Take
    <2>2. last' = IF ev.name = "event" THEN [last EXCEPT ![c] = ev.n] ELSE last
      BY <1>5 DEF ReadEvent
    <2>3. where[c] \in Rooms
      BY <2>1 DEF Streams, TypeOK
    <2>4. ASSUME NEW d \in Subs, where[d] \in Rooms
          PROVE  StreamOrder(where[d], last'[d], chan'[d].buf, wire[InstanceOf[d]])
      <3>1. StreamOrder(where[d], last[d], chan[d].buf, wire[InstanceOf[d]])
        BY <2>4 DEF Order
      <3>2. CASE d # c
        BY <2>1, <2>2, <3>1, <3>2 DEF TypeOK
      <3>3. CASE d = c
        <4> DEFINE buf == chan[c].buf
                   w == wire[InstanceOf[c]]
        <4>1. buf \in Seq(Event) /\ buf # <<>> /\ chan'[c].buf = Tail(buf)
          BY <2>1, <1>a DEF TypeOK, Channel
        <4>2. 1 \in 1..Len(buf) /\ ev = buf[1] /\ ev \in Event
          BY <4>1
        <4>3. ev.n \in Nat /\ last[c] \in Nat /\ sent[where[c]] \in Nat
          BY <4>2, <2>3, <1>a DEF Event, TypeOK
        <4>4. \A k \in 1..Len(w) : w[k].ev.n \in Nat
          <5>1. w \in Seq(Envelope)
            BY DEF TypeOK
          <5>2. \A k \in 1..Len(w) : w[k] \in Envelope
            BY <5>1
          <5>3. QED
            BY <5>2 DEF Envelope, Event
        <4>5. /\ Increasing(Tail(buf))
              /\ AtMost(Tail(buf), sent[where[c]])
              /\ Above(Tail(buf), last[c])
              /\ ev.name = "event" => Above(Tail(buf), ev.n)
          BY <3>1, <3>3, <4>1, <4>3, TailOrder DEF StreamOrder
        <4>6. \A k \in 1..Len(w) : w[k].room = where[c] =>
                 last[c] < w[k].ev.n /\ Below(buf, w[k].ev.n) /\ Below(Tail(buf), w[k].ev.n)
          BY <3>1, <3>3, <4>1, <4>4, TailOrder DEF StreamOrder, Ahead
        <4>7. CASE ev.name = "event"
          <5>1. last'[c] = ev.n
            BY <2>2, <4>7 DEF TypeOK
          <5>2. ev.n <= sent[where[c]]
            BY <3>1, <3>3, <4>2, <4>7 DEF StreamOrder, AtMost
          <5>3. \A k \in 1..Len(w) : w[k].room = where[c] => ev.n < w[k].ev.n
            BY <4>2, <4>6, <4>7 DEF Below
          <5>4. QED
            BY <3>3, <4>1, <4>5, <4>6, <4>7, <5>1, <5>2, <5>3 DEF StreamOrder, Ahead
        <4>8. CASE ev.name # "event"
          <5>1. last'[c] = last[c]
            BY <2>2, <4>8
          <5>2. QED
            BY <3>1, <3>3, <4>1, <4>5, <4>6, <5>1 DEF StreamOrder, Ahead
        <4>9. QED
          BY <4>7, <4>8
      <3>4. QED
        BY <3>2, <3>3
    <2>5. ASSUME NEW d \in Subs, where'[d] \in Rooms
          PROVE  StreamOrder(where[d], last[d], chan[d].buf, wire[InstanceOf[d]])'
      BY <2>1, <2>4, <2>5 DEF StreamOrder
    <2>6. \A i \in Instances : WireOrder(wire[i])'
      BY <2>1 DEF Order, WireOrder
    <2>7. ASSUME NEW d \in Subs, where'[d] = NoRoom PROVE last'[d] = 0
      <3>1. d # c /\ where[d] = NoRoom
        BY <2>1, <2>3, <2>7
      <3>2. last'[d] = last[d]
        BY <2>2, <3>1 DEF TypeOK
      <3>3. QED
        BY <3>1, <3>2 DEF Order
    <2>8. QED
      BY <2>5, <2>6, <2>7 DEF Order
  <1>6. ASSUME NEW c \in Subs, CloseStream(c) PROVE Order'
    <2> DEFINE rest == rooms[InstanceOf[c]][where[c]] \ {c}
               told == PresenceEvent(rest)
    <2>1. /\ where[c] \in Rooms
          /\ where' = [where EXCEPT ![c] = NoRoom]
          /\ last' = [last EXCEPT ![c] = 0]
          /\ UNCHANGED <<wire, sent>>
      BY <1>6 DEF CloseStream, Cleanup, TypeOK
    <2>2. told \in Event /\ told.name = "presence"
      <3>1. rest \in SUBSET Subs
        BY <2>1 DEF TypeOK
      <3>2. QED
        BY <3>1, PresenceEventTyped DEF PresenceEvent
    <2>3. \A d \in Subs \ {c} : chan'[d].buf \in {chan[d].buf, Offer(chan[d].buf, told)}
      BY <1>6, ZenonT(60) DEF CloseStream, Cleanup, Dispatch, TypeOK, Channel
    <2>4. ASSUME NEW d \in Subs, where'[d] \in Rooms
          PROVE  StreamOrder(where[d], last[d], chan[d].buf, wire[InstanceOf[d]])'
      <3>1. wire[InstanceOf[d]] \in Seq(Envelope) /\ sent \in [Rooms -> Nat]
        BY DEF TypeOK
      <3>2. d # c /\ where'[d] = where[d] /\ last'[d] = last[d]
        BY <2>1, <2>4 DEF TypeOK
      <3>3. StreamOrder(where[d], last[d], chan[d].buf, wire[InstanceOf[d]])
        BY <2>4, <3>2 DEF Order
      <3>4. StreamOrder(where[d], last[d], Offer(chan[d].buf, told), wire[InstanceOf[d]])
        BY <2>2, <2>4, <3>1, <3>2, <3>3, <1>a, PresenceKeepsOrder
      <3>5. StreamOrder(where[d], last[d], chan'[d].buf, wire[InstanceOf[d]])
        BY <2>3, <3>2, <3>3, <3>4
      <3>6. QED
        BY <2>1, <3>2, <3>5 DEF StreamOrder
    <2>5. \A i \in Instances : WireOrder(wire[i])'
      BY <2>1 DEF Order, WireOrder
    <2>6. \A d \in Subs : where'[d] = NoRoom => last'[d] = 0
      <3>1. ASSUME NEW d \in Subs, where'[d] = NoRoom, d # c PROVE last'[d] = 0
        BY <2>1, <3>1 DEF TypeOK, Order
      <3>2. last'[c] = 0
        BY <2>1 DEF TypeOK
      <3>3. QED
        BY <3>1, <3>2
    <2>7. QED
      BY <2>4, <2>5, <2>6 DEF Order
  <1>7. ASSUME NEW c \in Subs, Forget(c) PROVE Order'
    <2>1. /\ chan[c].state = "closed"
          /\ chan' = [chan EXCEPT ![c] = FreeChan]
          /\ UNCHANGED <<wire, sent, where, last>>
      BY <1>7 DEF Forget, Release
    <2>2. ASSUME NEW d \in Subs, where[d] \in Rooms PROVE chan'[d] = chan[d]
      <3>1. chan[d].state = "open"
        BY <2>2 DEF Streams
      <3>2. QED
        BY <2>1, <3>1 DEF TypeOK
    <2>3. QED
      BY <2>1, <2>2 DEF Order, WireOrder, StreamOrder
  <1>8. CASE UNCHANGED vars
    BY <1>8 DEF Order, WireOrder, StreamOrder, vars
  <1>9. QED
    BY <1>1, <1>2, <1>3, <1>4, <1>5, <1>6, <1>7, <1>8 DEF Next

LEMMA OrderAlways == Spec => []Order
  <1>1. Init => Order
    BY FeedAssumption DEF Init, HubInit, Order, WireOrder
  <1>2. QED
    BY <1>1, OrderStep, StreamsAlways, FeedTypeCorrect, PTL DEF Spec
----------------------------------------------------------------------------
(* Every step of the streams is a step of the lossy feed or a stutter:     *)
(* what a reader is shown is in publication order, of its own thread and   *)
(* without repetition, for any number of instances, readers and threads.   *)
THEOREM FeedRefinesLossyFeed == Spec => FeedSpec
  <1> USE HubAssumption, FeedAssumption
  <1>1. Init => Feed!Init
    BY DEF Init, Feed!Init
  <1>2. ASSUME TypeOK, Streams, Order, [Next]_vars
        PROVE  [Feed!Next]_Feed!feedVars
    <2>1. ASSUME NEW r \in Rooms, Announce(r) PROVE Feed!Announce(r)
      BY <2>1 DEF Announce, Feed!Announce
    <2>2. ASSUME NEW i \in Instances, Deliver(i) PROVE UNCHANGED Feed!feedVars
      BY <2>2 DEF Deliver, Feed!feedVars
    <2>3. ASSUME NEW i \in Instances, LoseConnection(i) PROVE UNCHANGED Feed!feedVars
      BY <2>3 DEF LoseConnection, Feed!feedVars
    <2>4. ASSUME NEW c \in Subs, NEW r \in Rooms, OpenStream(c, r) PROVE Feed!Follow(c, r)
      BY <2>4 DEF OpenStream, Feed!Follow
    <2>5. ASSUME NEW c \in Subs, ReadEvent(c)
          PROVE  Feed!Show(c) \/ UNCHANGED Feed!feedVars
      <3> DEFINE ev == Head(chan[c].buf)
      <3>1. /\ chan[c].buf # <<>> /\ chan[c].state = "open"
            /\ UNCHANGED <<sent, where>>
        BY <2>5 DEF ReadEvent, Take
      <3>2. where[c] \in Rooms
        BY <1>2, <3>1 DEF Streams, TypeOK
      <3>3. CASE ev.name = "event"
        <4>1. last' = [last EXCEPT ![c] = ev.n]
          BY <2>5, <3>3 DEF ReadEvent
        <4>2. chan[c].buf \in Seq(Event) /\ last[c] \in Nat /\ sent[where[c]] \in Nat
          BY <1>2, <3>2 DEF TypeOK, Channel
        <4>3. 1 \in 1..Len(chan[c].buf) /\ ev = chan[c].buf[1] /\ ev \in Event
          BY <3>1, <4>2
        <4>4. last[c] < ev.n /\ ev.n <= sent[where[c]] /\ ev.n \in Nat
          BY <1>2, <3>2, <3>3, <4>3 DEF Order, StreamOrder, Above, AtMost, Event
        <4>5. ev.n \in (last[c] + 1) .. sent[where[c]]
          BY <4>2, <4>4
        <4>6. QED
          BY <3>1, <3>2, <4>1, <4>5 DEF Feed!Show
      <3>4. CASE ev.name # "event"
        BY <2>5, <3>1, <3>4 DEF ReadEvent, Feed!feedVars
      <3>5. QED
        BY <3>3, <3>4
    <2>6. ASSUME NEW c \in Subs, CloseStream(c) PROVE Feed!Unfollow(c)
      BY <1>2, <2>6 DEF CloseStream, Feed!Unfollow, TypeOK
    <2>7. ASSUME NEW c \in Subs, Forget(c) PROVE UNCHANGED Feed!feedVars
      BY <2>7 DEF Forget, Feed!feedVars
    <2>8. CASE UNCHANGED vars
      BY <2>8 DEF vars, Feed!feedVars
    <2>9. QED
      BY <1>2, <2>1, <2>2, <2>3, <2>4, <2>5, <2>6, <2>7, <2>8 DEF Next, Feed!Next
  <1>3. QED
    BY <1>1, <1>2, FeedTypeCorrect, StreamsAlways, OrderAlways, PTL
       DEF Spec, FeedSpec, Feed!Spec
----------------------------------------------------------------------------
(* What a wire still holds for a room runs up to the room's newest comment *)
(* without a gap: messages leave a wire only at its front.                 *)
WireRuns == \A i \in Instances, r \in Rooms : RunsUpTo(OnWire(wire[i], r), r, 0)

(* The history of a stream's losses starts with the stream.                *)
MissedSinceOpen == \A c \in Subs : where[c] = NoRoom => missed[c] = {}

(* The inductive invariant behind NoGapUnlessMissed.                       *)
NoGap == WireRuns /\ MissedSinceOpen /\ NoGapUnlessMissed

(* The number of an event, if it is a comment.                             *)
NumberOf(ev) == IF ev.name = "event" THEN {ev.n} ELSE {}

(* A buffered event adds its number, a dropped one nothing.                *)
LEMMA OfferNumbers ==
    ASSUME NEW buf \in Seq(Event), NEW ev \in Event
    PROVE  /\ Len(buf) < BufferCap => Numbers(Offer(buf, ev)) = Numbers(buf) \cup NumberOf(ev)
           /\ ev.name # "event" => Numbers(Offer(buf, ev)) = Numbers(buf)
  <1>1. Numbers(Append(buf, ev)) = Numbers(buf) \cup NumberOf(ev)
    <2> DEFINE b == Append(buf, ev)
    <2>1. /\ Len(b) = Len(buf) + 1
          /\ \A k \in 1..Len(buf) : k \in 1..Len(b) /\ b[k] = buf[k]
          /\ \A k \in 1..Len(b) : k \in 1..Len(buf) \/ k = Len(buf) + 1
          /\ Len(buf) + 1 \in 1..Len(b)
          /\ b[Len(buf) + 1] = ev
      OBVIOUS
    <2> HIDE DEF b
    <2>2. ASSUME NEW n \in Numbers(b) PROVE n \in Numbers(buf) \cup NumberOf(ev)
      BY <2>1 DEF Numbers, NumberOf
    <2>3. ASSUME NEW n \in Numbers(buf) \cup NumberOf(ev) PROVE n \in Numbers(b)
      BY <2>1 DEF Numbers, NumberOf
    <2>4. QED
      BY <2>2, <2>3 DEF b
  <1>2. QED
    BY <1>1 DEF Offer, NumberOf

(* Reading takes the oldest event's number and no other.                   *)
LEMMA TailNumbers ==
    ASSUME NEW buf \in Seq(Event), buf # <<>>
    PROVE  Numbers(buf) = Numbers(Tail(buf)) \cup NumberOf(Head(buf))
  <1>1. /\ Len(Tail(buf)) = Len(buf) - 1
        /\ \A k \in 1..Len(Tail(buf)) : k + 1 \in 1..Len(buf) /\ Tail(buf)[k] = buf[k + 1]
        /\ \A k \in 1..Len(buf) : k = 1 \/ (k - 1 \in 1..Len(Tail(buf)) /\ Tail(buf)[k - 1] = buf[k])
        /\ Head(buf) = buf[1] /\ 1 \in 1..Len(buf)
    OBVIOUS
  <1>2. ASSUME NEW n \in Numbers(buf) PROVE n \in Numbers(Tail(buf)) \cup NumberOf(Head(buf))
    BY <1>1 DEF Numbers, NumberOf
  <1>3. ASSUME NEW n \in Numbers(Tail(buf)) \cup NumberOf(Head(buf)) PROVE n \in Numbers(buf)
    BY <1>1 DEF Numbers, NumberOf
  <1>4. QED
    BY <1>2, <1>3

(* The same for a wire, seen from one room.                                *)
LEMMA TailOnWire ==
    ASSUME NEW w \in Seq(Envelope), w # <<>>, NEW r
    PROVE  /\ Head(w).room = r => OnWire(w, r) = OnWire(Tail(w), r) \cup {Head(w).ev.n}
           /\ Head(w).room # r => OnWire(w, r) = OnWire(Tail(w), r)
  <1>1. /\ Len(Tail(w)) = Len(w) - 1
        /\ \A k \in 1..Len(Tail(w)) : k + 1 \in 1..Len(w) /\ Tail(w)[k] = w[k + 1]
        /\ \A k \in 1..Len(w) : k = 1 \/ (k - 1 \in 1..Len(Tail(w)) /\ Tail(w)[k - 1] = w[k])
        /\ Head(w) = w[1] /\ 1 \in 1..Len(w)
    OBVIOUS
  <1> DEFINE head == IF Head(w).room = r THEN {Head(w).ev.n} ELSE {}
  <1>2. ASSUME NEW n \in OnWire(w, r) PROVE n \in OnWire(Tail(w), r) \cup head
    BY <1>1 DEF OnWire
  <1>3. ASSUME NEW n \in OnWire(Tail(w), r) \cup head PROVE n \in OnWire(w, r)
    BY <1>1 DEF OnWire
  <1>4. QED
    BY <1>2, <1>3

LEMMA AppendOnWire ==
    ASSUME NEW w \in Seq(Envelope), NEW m \in Envelope, NEW r
    PROVE  /\ m.room = r => OnWire(Append(w, m), r) = OnWire(w, r) \cup {m.ev.n}
           /\ m.room # r => OnWire(Append(w, m), r) = OnWire(w, r)
  <1> DEFINE x == Append(w, m)
             new == IF m.room = r THEN {m.ev.n} ELSE {}
  <1>1. /\ \A k \in 1..Len(w) : k \in 1..Len(x) /\ x[k] = w[k]
        /\ \A k \in 1..Len(x) : k \in 1..Len(w) \/ k = Len(w) + 1
        /\ Len(w) + 1 \in 1..Len(x)
        /\ x[Len(w) + 1] = m
    OBVIOUS
  <1> HIDE DEF x
  <1>2. ASSUME NEW n \in OnWire(x, r) PROVE n \in OnWire(w, r) \cup new
    BY <1>1 DEF OnWire
  <1>3. ASSUME NEW n \in OnWire(w, r) \cup new PROVE n \in OnWire(x, r)
    BY <1>1 DEF OnWire
  <1>4. QED
    BY <1>2, <1>3 DEF x

(* A run of numbers, and the run left without its smallest number.         *)
Run(S, a, b) == a \in 1..b + 1 /\ S = a..b

LEMMA RunLosesFirst ==
    ASSUME NEW a, NEW b \in Nat, NEW x \in Nat, NEW T \in SUBSET Nat,
           Run(T \cup {x}, a, b), \A y \in T : x < y
    PROVE  x = a /\ Run(T, x + 1, b)
  <1>1. x \in a..b /\ a \in Nat /\ a..b = T \cup {x}
    BY DEF Run
  <1>2. a \in T \cup {x}
    BY <1>1
  <1>3. x = a
    BY <1>1, <1>2
  <1>4. T = x + 1..b
    <2>1. \A y \in T : y \in x + 1..b
      BY <1>1
    <2>2. \A y \in x + 1..b : y \in T
      BY <1>1, <1>3
    <2>3. QED
      BY <2>1, <2>2
  <1>5. QED
    BY <1>1, <1>3, <1>4 DEF Run

(* The next number prolongs a run.                                         *)
LEMMA RunGrows ==
    ASSUME NEW b \in Nat, NEW a \in 1..b + 1
    PROVE  (a..b) \cup {b + 1} = a..b + 1
  OBVIOUS

LEMMA NumbersTyped ==
    /\ \A buf \in Seq(Event) : Numbers(buf) \in SUBSET Nat
    /\ \A w \in Seq(Envelope), r \in Rooms : OnWire(w, r) \in SUBSET Nat
  <1>1. ASSUME NEW buf \in Seq(Event) PROVE Numbers(buf) \in SUBSET Nat
    <2>1. \A k \in 1..Len(buf) : buf[k] \in Event
      OBVIOUS
    <2>2. QED
      BY <2>1 DEF Numbers, Event
  <1>2. ASSUME NEW w \in Seq(Envelope), NEW r \in Rooms PROVE OnWire(w, r) \in SUBSET Nat
    <2>1. \A k \in 1..Len(w) : w[k] \in Envelope
      OBVIOUS
    <2>2. QED
      BY <2>1 DEF OnWire, Envelope, Event
  <1>3. QED
    BY <1>1, <1>2

(* A message leaves a wire at the front, so what is left is still a run.   *)
LEMMA TailRuns ==
    ASSUME NEW w \in Seq(Envelope), w # <<>>, WireOrder(w), sent \in [Rooms -> Nat],
           NEW r \in Rooms, RunsUpTo(OnWire(w, r), r, 0)
    PROVE  RunsUpTo(OnWire(Tail(w), r), r, 0)
  <1> DEFINE T == OnWire(Tail(w), r)
             x == Head(w).ev.n
  <1>1. Tail(w) \in Seq(Envelope) /\ Head(w) \in Envelope
    OBVIOUS
  <1>2. T \in SUBSET Nat /\ x \in Nat
    BY <1>1, NumbersTyped DEF Envelope, Event
  <1>3. CASE Head(w).room # r
    <2>1. OnWire(w, r) = T
      BY <1>3, TailOnWire
    <2>2. QED
      BY <2>1
  <1>4. CASE Head(w).room = r
    <2>1. OnWire(w, r) = T \cup {x}
      BY <1>4, TailOnWire
    <2>2. \A y \in T : x < y
      BY <1>4, TailWire DEF OnWire
    <2>3. PICK a \in 1..sent[r] + 1 : OnWire(w, r) = a..sent[r]
      BY DEF RunsUpTo
    <2>4. Run(T \cup {x}, a, sent[r])
      BY <2>1, <2>3 DEF Run
    <2> HIDE DEF T, x
    <2>5. Run(T, x + 1, sent[r])
      BY <1>2, <2>2, <2>4, RunLosesFirst
    <2>6. QED
      BY <2>5 DEF Run, RunsUpTo, T
  <1>5. QED
    BY <1>3, <1>4

LEMMA WireRunsStep == TypeOK /\ Order /\ WireRuns /\ [Next]_vars => WireRuns'
  <1> SUFFICES ASSUME TypeOK, Order, WireRuns, [Next]_vars,
                      NEW i \in Instances, NEW r \in Rooms
               PROVE  RunsUpTo(OnWire(wire[i], r), r, 0)'
    BY DEF WireRuns
  <1>1. /\ wire[i] \in Seq(Envelope) /\ WireOrder(wire[i]) /\ sent \in [Rooms -> Nat]
        /\ RunsUpTo(OnWire(wire[i], r), r, 0)
    BY DEF TypeOK, Order, WireRuns
  <1>2. ASSUME NEW q \in Rooms, Announce(q) PROVE RunsUpTo(OnWire(wire[i], r), r, 0)'
    <2> DEFINE m == Message(q, Comment(sent[q] + 1))
    <2>1. wire'[i] = Append(wire[i], m) /\ sent' = [sent EXCEPT ![q] = sent[q] + 1]
      BY <1>2 DEF Announce, Publish
    <2>2. m \in Envelope /\ m.room = q /\ m.ev.n = sent[q] + 1
      BY <1>1 DEF Message, Comment, Envelope, Event
    <2> HIDE DEF m
    <2>3. /\ q = r => OnWire(wire'[i], r) = OnWire(wire[i], r) \cup {sent[q] + 1}
          /\ q # r => OnWire(wire'[i], r) = OnWire(wire[i], r)
      <3>1. /\ m.room = r => OnWire(Append(wire[i], m), r) = OnWire(wire[i], r) \cup {m.ev.n}
            /\ m.room # r => OnWire(Append(wire[i], m), r) = OnWire(wire[i], r)
        BY <1>1, <2>2, AppendOnWire, Zenon
      <3>2. QED
        BY <2>1, <2>2, <3>1, Zenon
    <2>4. PICK a \in 1..sent[r] + 1 : OnWire(wire[i], r) = a..sent[r]
      BY <1>1 DEF RunsUpTo
    <2>5. CASE q # r
      BY <1>1, <2>1, <2>3, <2>4, <2>5 DEF RunsUpTo
    <2>6. CASE q = r
      <3>1. sent'[r] = sent[r] + 1 /\ sent[r] \in Nat
        BY <1>1, <2>1, <2>6
      <3>2. (a..sent[r]) \cup {sent[r] + 1} = a..sent[r] + 1
        BY <3>1, RunGrows
      <3>3. OnWire(wire'[i], r) = a..sent[r] + 1
        BY <2>3, <2>4, <2>6, <3>2, Zenon
      <3>4. QED
        BY <3>1, <3>3 DEF RunsUpTo
    <2>7. QED
      BY <2>5, <2>6
  <1>3. ASSUME NEW j \in Instances, Deliver(j) \/ LoseConnection(j)
        PROVE  RunsUpTo(OnWire(wire[i], r), r, 0)'
    <2>1. wire[j] # <<>> /\ wire' = [wire EXCEPT ![j] = Tail(wire[j])] /\ sent' = sent
      BY <1>3 DEF Deliver, LoseConnection, Receive, Lose
    <2>2. CASE i = j
      <3>1. wire'[i] = Tail(wire[i])
        BY <2>1, <2>2 DEF TypeOK
      <3>2. RunsUpTo(OnWire(Tail(wire[i]), r), r, 0)
        BY <1>1, <2>1, <2>2, TailRuns
      <3>3. QED
        BY <2>1, <3>1, <3>2 DEF RunsUpTo
    <2>3. CASE i # j
      BY <1>1, <2>1, <2>3 DEF RunsUpTo, TypeOK
    <2>4. QED
      BY <2>2, <2>3
  <1>4. CASE UNCHANGED <<wire, sent>>
    BY <1>1, <1>4 DEF RunsUpTo
  <1>5. QED
    <2>1. ASSUME NEW c \in Subs, NEW q \in Rooms, OpenStream(c, q) PROVE UNCHANGED <<wire, sent>>
      BY <2>1 DEF OpenStream, Subscribe
    <2>2. ASSUME NEW c \in Subs, ReadEvent(c) \/ CloseStream(c) \/ Forget(c)
          PROVE  UNCHANGED <<wire, sent>>
      BY <2>2 DEF ReadEvent, Take, CloseStream, Cleanup, Forget, Release
    <2>3. QED
      BY <1>2, <1>3, <1>4, <2>1, <2>2 DEF Next, vars

(* Only a close clears what a stream missed, and it ends the stream.       *)
LEMMA MissedStep == TypeOK /\ Streams /\ MissedSinceOpen /\ [Next]_vars => MissedSinceOpen'
  <1> SUFFICES ASSUME TypeOK, Streams, MissedSinceOpen, [Next]_vars,
                      NEW d \in Subs, where'[d] = NoRoom
               PROVE  missed'[d] = {}
    BY DEF MissedSinceOpen
  <1> USE HubAssumption, FeedAssumption
  <1>1. where[d] = NoRoom => missed[d] = {} /\ \A i \in Instances, r \in Rooms : d \notin rooms[i][r]
    BY DEF MissedSinceOpen, Streams
  <1>2. ASSUME NEW i \in Instances, Deliver(i) \/ LoseConnection(i) PROVE missed'[d] = {}
    <2>1. wire[i] # <<>> /\ wire[i] \in Seq(Envelope) /\ where' = where
      BY <1>2 DEF Deliver, Receive, LoseConnection, Lose, TypeOK
    <2>2. Head(wire[i]).room \in Rooms
      <3>1. Head(wire[i]) \in Envelope
        BY <2>1
      <3>2. QED
        BY <3>1 DEF Envelope
    <2>3. d \notin rooms[i][Head(wire[i]).room] /\ missed[d] = {}
      BY <1>1, <2>1, <2>2
    <2>4. QED
      BY <1>2, <2>3 DEF Deliver, LoseConnection, Missed
  <1>3. ASSUME NEW c \in Subs, NEW r \in Rooms, OpenStream(c, r) PROVE missed'[d] = {}
    <2>1. d # c /\ where[d] = NoRoom
      BY <1>3 DEF OpenStream, TypeOK
    <2>2. QED
      BY <1>1, <1>3, <2>1 DEF OpenStream, Missed
  <1>4. ASSUME NEW c \in Subs, CloseStream(c) PROVE missed'[d] = {}
    <2>1. CASE d = c
      BY <1>4, <2>1 DEF CloseStream, Missed, TypeOK
    <2>2. CASE d # c
      <3>1. where[d] = NoRoom /\ where[c] \in Rooms
        BY <1>4, <2>2 DEF CloseStream, TypeOK
      <3>2. QED
        BY <1>1, <1>4, <2>2, <3>1 DEF CloseStream, Missed, TypeOK
    <2>3. QED
      BY <2>1, <2>2
  <1>5. ASSUME UNCHANGED <<where, missed>> PROVE missed'[d] = {}
    BY <1>1, <1>5
  <1>6. QED
    BY <1>2, <1>3, <1>4, <1>5 DEF Next, vars, Announce, ReadEvent, Forget

(* A stream that missed no comment keeps its run of pending comments.      *)
LEMMA GapStep == TypeOK /\ Streams /\ Order /\ NoGap /\ [Next]_vars => NoGapUnlessMissed'
  <1> SUFFICES ASSUME TypeOK, Streams, Order, NoGap, [Next]_vars,
                      NEW d \in Subs, where'[d] # NoRoom, "event" \notin missed'[d]
               PROVE  RunsUpTo(Pending(d), where[d], last[d])'
    BY DEF NoGapUnlessMissed
  <1> USE HubAssumption, FeedAssumption
  <1> DEFINE buf == chan[d].buf
             w == wire[InstanceOf[d]]
  <1>a. /\ buf \in Seq(Event) /\ Len(buf) <= BufferCap /\ last[d] \in Nat
        /\ w \in Seq(Envelope) /\ InstanceOf[d] \in Instances /\ WireOrder(w)
        /\ sent \in [Rooms -> Nat]
    BY DEF TypeOK, Channel, Order
  <1>b. where[d] # NoRoom /\ "event" \notin missed[d] =>
           where[d] \in Rooms /\ RunsUpTo(Numbers(buf) \cup OnWire(w, where[d]), where[d], last[d])
    BY DEF NoGap, NoGapUnlessMissed, Pending, TypeOK
  <1>c. ASSUME where'[d] = where[d], last'[d] = last[d], sent' = sent,
               "event" \notin missed[d],
               Numbers(chan'[d].buf) \cup OnWire(wire'[InstanceOf[d]], where[d])
                  = Numbers(buf) \cup OnWire(w, where[d])
        PROVE  RunsUpTo(Pending(d), where[d], last[d])'
    BY <1>b, <1>c DEF RunsUpTo, Pending
  <1>1. ASSUME NEW q \in Rooms, Announce(q) PROVE RunsUpTo(Pending(d), where[d], last[d])'
    <2> DEFINE m == Message(q, Comment(sent[q] + 1))
               P == Numbers(buf) \cup OnWire(w, where[d])
    <2>1. /\ wire'[InstanceOf[d]] = Append(w, m)
          /\ sent' = [sent EXCEPT ![q] = sent[q] + 1]
          /\ UNCHANGED <<where, last, missed, chan>>
      BY <1>1, <1>a DEF Announce, Publish
    <2>2. m \in Envelope /\ m.room = q /\ m.ev.n = sent[q] + 1
      BY <1>a DEF Message, Comment, Envelope, Event
    <2>3. where[d] \in Rooms /\ RunsUpTo(P, where[d], last[d])
      BY <1>b, <2>1
    <2> HIDE DEF m
    <2>4. /\ q = where[d] => OnWire(Append(w, m), where[d]) = OnWire(w, where[d]) \cup {sent[q] + 1}
          /\ q # where[d] => OnWire(Append(w, m), where[d]) = OnWire(w, where[d])
      <3>1. /\ m.room = where[d] => OnWire(Append(w, m), where[d]) = OnWire(w, where[d]) \cup {m.ev.n}
            /\ m.room # where[d] => OnWire(Append(w, m), where[d]) = OnWire(w, where[d])
        BY <1>a, <2>2, <2>3, AppendOnWire, ZenonT(60)
      <3>2. QED
        BY <2>2, <3>1, Zenon
    <2>5. Pending(d)' = Numbers(buf) \cup OnWire(Append(w, m), where[d])
      BY <2>1 DEF Pending
    <2>6. CASE q # where[d]
      <3>1. Pending(d)' = P /\ sent'[where[d]] = sent[where[d]]
        BY <1>a, <2>1, <2>3, <2>4, <2>5, <2>6
      <3>2. QED
        BY <2>1, <2>3, <3>1 DEF RunsUpTo
    <2>7. CASE q = where[d]
      <3>1. Pending(d)' = P \cup {sent[q] + 1}
        BY <2>4, <2>5, <2>7
      <3>2. PICK a \in 1..sent[q] + 1 : P = a..sent[q] /\ (last[d] # 0 => a = last[d] + 1)
        BY <2>3, <2>7 DEF RunsUpTo
      <3>3. sent'[q] = sent[q] + 1 /\ sent[q] \in Nat
        BY <1>a, <2>1
      <3>4. (a..sent[q]) \cup {sent[q] + 1} = a..sent[q] + 1
        BY <3>3, RunGrows
      <3>5. Pending(d)' = a..sent'[q] /\ a \in 1..sent'[q] + 1
        BY <3>1, <3>2, <3>3, <3>4
      <3>6. QED
        BY <2>1, <2>7, <3>2, <3>5 DEF RunsUpTo
    <2>8. QED
      BY <2>6, <2>7
  <1>2. ASSUME NEW i \in Instances, Deliver(i) PROVE RunsUpTo(Pending(d), where[d], last[d])'
    <2> DEFINE m == Head(wire[i])
    <2>1. /\ wire[i] # <<>>
          /\ wire' = [wire EXCEPT ![i] = Tail(wire[i])]
          /\ chan' = Dispatch(chan, rooms[i][m.room], m.ev)
          /\ missed' = Missed(chan, rooms[i][m.room], m.ev)
          /\ UNCHANGED <<sent, where, last, rooms>>
      BY <1>2 DEF Deliver, Receive
    <2>2. wire[i] \in Seq(Envelope) /\ m \in Envelope
      BY <2>1 DEF TypeOK
    <2>3. m.room \in Rooms /\ m.ev \in Event
      BY <2>2 DEF Envelope
    <2>4. m.ev.name = "event"
      <3>1. WireOrder(wire[i])
        BY DEF Order
      <3>2. 1 \in 1 .. Len(wire[i]) /\ m = wire[i][1]
        BY <2>1, <2>2
      <3>3. QED
        BY <3>1, <3>2 DEF WireOrder
    <2>5. d \in rooms[i][m.room] <=> i = InstanceOf[d] /\ where[d] = m.room
      BY <2>3 DEF Streams
    <2>6. CASE d \notin rooms[i][m.room]
      <3>1. chan'[d] = chan[d] /\ missed'[d] = missed[d]
        BY <2>1, <2>6 DEF Dispatch, Missed
      <3>2. OnWire(wire'[InstanceOf[d]], where[d]) = OnWire(w, where[d])
        <4>1. CASE i # InstanceOf[d]
          BY <2>1, <4>1 DEF TypeOK
        <4>2. CASE i = InstanceOf[d]
          <5>1. wire'[InstanceOf[d]] = Tail(w) /\ w # <<>> /\ Head(w).room # where[d]
            BY <2>1, <2>5, <2>6, <4>2 DEF TypeOK
          <5>2. OnWire(w, where[d]) = OnWire(Tail(w), where[d])
            BY <1>a, <5>1, TailOnWire, Zenon
          <5>3. QED
            BY <5>1, <5>2
        <4>3. QED
          BY <4>1, <4>2
      <3>3. QED
        BY <1>c, <2>1, <3>1, <3>2
    <2>7. CASE d \in rooms[i][m.room]
      <3>1. i = InstanceOf[d] /\ where[d] = m.room
        BY <2>5, <2>7
      <3>2. Len(buf) < BufferCap /\ "event" \notin missed[d]
        BY <1>a, <2>1, <2>4, <2>7 DEF Missed
      <3>3. chan'[d].buf = Offer(buf, m.ev)
        BY <2>1, <2>7 DEF Dispatch, TypeOK, Channel
      <3>4. Numbers(chan'[d].buf) = Numbers(buf) \cup {m.ev.n}
        <4>1. Numbers(Offer(buf, m.ev)) = Numbers(buf) \cup NumberOf(m.ev)
          BY <1>a, <2>3, <3>2, OfferNumbers
        <4>2. QED
          BY <2>4, <3>3, <4>1 DEF NumberOf
      <3>5. wire'[InstanceOf[d]] = Tail(w) /\ w # <<>> /\ Head(w).room = where[d] /\ Head(w) = m
        BY <2>1, <3>1 DEF TypeOK
      <3>6. OnWire(w, where[d]) = OnWire(Tail(w), where[d]) \cup {m.ev.n}
        <4>1. OnWire(w, where[d]) = OnWire(Tail(w), where[d]) \cup {Head(w).ev.n}
          BY <1>a, <3>5, TailOnWire, Zenon
        <4>2. QED
          BY <3>5, <4>1
      <3>7. Numbers(chan'[d].buf) \cup OnWire(wire'[InstanceOf[d]], where[d])
               = Numbers(buf) \cup OnWire(w, where[d])
        BY <3>4, <3>5, <3>6
      <3>8. QED
        BY <1>c, <2>1, <3>2, <3>7
    <2>8. QED
      BY <2>6, <2>7
  <1>3. ASSUME NEW i \in Instances, LoseConnection(i)
        PROVE  RunsUpTo(Pending(d), where[d], last[d])'
    <2> DEFINE m == Head(wire[i])
    <2>1. /\ wire[i] # <<>>
          /\ wire' = [wire EXCEPT ![i] = Tail(wire[i])]
          /\ missed' = [c \in Subs |-> IF c \in rooms[i][m.room]
                                       THEN missed[c] \cup {m.ev.name} ELSE missed[c]]
          /\ UNCHANGED <<chan, sent, where, last>>
      BY <1>3 DEF LoseConnection, Lose
    <2>2. wire[i] \in Seq(Envelope) /\ m \in Envelope
      BY <2>1 DEF TypeOK
    <2>3. m.room \in Rooms /\ m.ev.name = "event"
      BY <2>1, <2>2 DEF Envelope, Order, WireOrder
    <2>4. d \notin rooms[i][m.room] /\ "event" \notin missed[d]
      BY <2>1, <2>3
    <2>5. ~(i = InstanceOf[d] /\ where[d] = m.room)
      BY <2>3, <2>4 DEF Streams
    <2>6. OnWire(wire'[InstanceOf[d]], where[d]) = OnWire(w, where[d])
      <3>1. CASE i # InstanceOf[d]
        BY <2>1, <3>1 DEF TypeOK
      <3>2. CASE i = InstanceOf[d]
        <4>1. wire'[InstanceOf[d]] = Tail(w) /\ w # <<>> /\ Head(w).room # where[d]
          BY <2>1, <2>5, <3>2 DEF TypeOK
        <4>2. OnWire(w, where[d]) = OnWire(Tail(w), where[d])
          BY <1>a, <4>1, TailOnWire, Zenon
        <4>3. QED
          BY <4>1, <4>2
      <3>3. QED
        BY <3>1, <3>2
    <2>7. QED
      BY <1>c, <2>1, <2>4, <2>6
  <1>4. ASSUME NEW c \in Subs, NEW r \in Rooms, OpenStream(c, r)
        PROVE  RunsUpTo(Pending(d), where[d], last[d])'
    <2> DEFINE members == rooms[InstanceOf[c]][r] \cup {c}
               told == PresenceEvent(members)
    <2>1. /\ where[c] = NoRoom
          /\ where' = [where EXCEPT ![c] = r]
          /\ UNCHANGED <<wire, sent, last>>
      BY <1>4 DEF OpenStream, Subscribe
    <2>2. told \in Event /\ told.name # "event"
      <3>1. members \in SUBSET Subs
        BY DEF TypeOK
      <3>2. QED
        BY <3>1, PresenceEventTyped DEF PresenceEvent
    <2>3. CASE d # c
      <3>1. where'[d] = where[d] /\ "event" \notin missed[d]
        BY <1>4, <2>1, <2>3 DEF TypeOK, OpenStream, Missed, PresenceEvent
      <3>2. chan'[d].buf \in {buf, Offer(buf, told)}
        BY <1>4, <2>3 DEF OpenStream, Subscribe, Dispatch, TypeOK, Channel
      <3> HIDE DEF told
      <3>3. Numbers(chan'[d].buf) = Numbers(buf)
        BY <1>a, <2>2, <3>2, OfferNumbers
      <3>4. QED
        BY <1>c, <2>1, <3>1, <3>3
    <2>4. CASE d = c
      <3>1. chan'[d].buf \in {<<>>, Offer(<<>>, told)}
        BY <1>4, <2>4 DEF OpenStream, Subscribe, Dispatch, TypeOK, Channel
      <3> HIDE DEF told
      <3>2. Numbers(chan'[d].buf) = {}
        <4>1. <<>> \in Seq(Event) /\ Numbers(<<>>) = {}
          BY DEF Numbers
        <4>2. Numbers(Offer(<<>>, told)) = {}
          BY <2>2, <4>1, OfferNumbers
        <4>3. QED
          BY <3>1, <4>1, <4>2
      <3>3. where'[d] = r /\ last'[d] = 0
        BY <2>1, <2>4 DEF TypeOK, Order
      <3>4. RunsUpTo(OnWire(w, r), r, 0)
        BY <1>a DEF NoGap, WireRuns
      <3>5. QED
        BY <2>1, <3>2, <3>3, <3>4 DEF RunsUpTo, Pending
    <2>5. QED
      BY <2>3, <2>4
  <1>5. ASSUME NEW c \in Subs, ReadEvent(c) PROVE RunsUpTo(Pending(d), where[d], last[d])'
    <2> DEFINE ev == Head(chan[c].buf)
    <2>1. /\ chan[c].buf # <<>>
          /\ chan' = [chan EXCEPT ![c].buf = Tail(chan[c].buf)]
          /\ last' = IF ev.name = "event" THEN [last EXCEPT ![c] = ev.n] ELSE last
          /\ UNCHANGED <<wire, sent, where, missed>>
      BY <1>5 DEF ReadEvent, Take
    <2>2. CASE d # c
      <3>1. chan'[d] = chan[d] /\ last'[d] = last[d]
        BY <2>1, <2>2 DEF TypeOK
      <3>2. QED
        BY <1>c, <2>1, <3>1
    <2>3. CASE d = c
      <3>1. chan'[d].buf = Tail(buf) /\ buf # <<>> /\ ev = buf[1] /\ ev \in Event
        BY <1>a, <2>1, <2>3 DEF TypeOK, Channel
      <3>2. Numbers(buf) = Numbers(Tail(buf)) \cup NumberOf(ev)
        BY <1>a, <2>3, <3>1, TailNumbers
      <3>3. CASE ev.name # "event"
        BY <1>c, <2>1, <3>1, <3>2, <3>3 DEF NumberOf
      <3>4. CASE ev.name = "event"
        <4> DEFINE T == Numbers(Tail(buf)) \cup OnWire(w, where[d])
                   x == ev.n
        <4>1. where[d] \in Rooms /\ RunsUpTo(T \cup {x}, where[d], last[d])
          BY <1>b, <2>1, <3>2, <3>4 DEF NumberOf
        <4>2. StreamOrder(where[d], last[d], buf, w)
          BY <4>1 DEF Order
        <4>3. x \in Nat /\ T \in SUBSET Nat /\ sent[where[d]] \in Nat
          <5>1. Tail(buf) \in Seq(Event)
            BY <1>a, <3>1
          <5>2. QED
            BY <1>a, <3>1, <4>1, <5>1, NumbersTyped DEF Event
        <4>4. \A y \in T : x < y
          <5>1. ASSUME NEW y \in Numbers(Tail(buf)) PROVE x < y
            <6>1. Above(Tail(buf), x)
              BY <1>a, <2>3, <3>1, <3>4, <4>2, TailOrder DEF StreamOrder
            <6>2. QED
              BY <6>1 DEF Numbers, Above
          <5>2. ASSUME NEW y \in OnWire(w, where[d]) PROVE x < y
            <6>1. 1 \in 1..Len(buf)
              BY <1>a, <3>1
            <6>2. QED
              BY <3>1, <3>4, <4>2, <6>1 DEF OnWire, StreamOrder, Ahead, Below
          <5>3. QED
            BY <5>1, <5>2
        <4>5. PICK a \in 1..sent[where[d]] + 1 : T \cup {x} = a..sent[where[d]]
          BY <4>1 DEF RunsUpTo
        <4>6. Run(T \cup {x}, a, sent[where[d]])
          BY <4>5 DEF Run
        <4>7. last'[d] = x /\ Pending(d)' = T
          BY <2>1, <2>3, <3>1, <3>4 DEF Pending, TypeOK
        <4> HIDE DEF T, x
        <4>8. Run(T, x + 1, sent[where[d]])
          BY <4>3, <4>4, <4>6, RunLosesFirst
        <4>9. QED
          BY <2>1, <4>7, <4>8 DEF RunsUpTo, Run
      <3>5. QED
        BY <3>3, <3>4
    <2>4. QED
      BY <2>2, <2>3
  <1>6. ASSUME NEW c \in Subs, CloseStream(c) PROVE RunsUpTo(Pending(d), where[d], last[d])'
    <2> DEFINE rest == rooms[InstanceOf[c]][where[c]] \ {c}
               told == PresenceEvent(rest)
    <2>1. /\ where[c] \in Rooms
          /\ where' = [where EXCEPT ![c] = NoRoom]
          /\ last' = [last EXCEPT ![c] = 0]
          /\ UNCHANGED <<wire, sent>>
      BY <1>6 DEF CloseStream, Cleanup, TypeOK
    <2>2. told \in Event /\ told.name # "event"
      <3>1. rest \in SUBSET Subs
        BY <2>1 DEF TypeOK
      <3>2. QED
        BY <3>1, PresenceEventTyped DEF PresenceEvent
    <2>3. d # c /\ where'[d] = where[d] /\ last'[d] = last[d]
      BY <2>1 DEF TypeOK
    <2>4. "event" \notin missed[d]
      BY <1>6, <2>3 DEF CloseStream, Missed, PresenceEvent
    <2>5. chan'[d].buf \in {buf, Offer(buf, told)}
      <3>1. chan' = [(IF Presence THEN Dispatch(chan, rest, told) ELSE chan)
                        EXCEPT ![c].state = "closed"]
        BY <1>6 DEF CloseStream, Cleanup
      <3> HIDE DEF told, rest
      <3>2. chan'[d] = (IF Presence THEN Dispatch(chan, rest, told) ELSE chan)[d]
        BY <2>3, <3>1 DEF Dispatch, TypeOK
      <3>3. QED
        BY <3>2 DEF Dispatch, TypeOK, Channel
    <2> HIDE DEF told
    <2>6. Numbers(chan'[d].buf) = Numbers(buf)
      BY <1>a, <2>2, <2>5, OfferNumbers
    <2>7. QED
      BY <1>c, <2>1, <2>3, <2>4, <2>6
  <1>7. ASSUME NEW c \in Subs, Forget(c) PROVE RunsUpTo(Pending(d), where[d], last[d])'
    <2>1. /\ chan[c].state = "closed"
          /\ chan' = [chan EXCEPT ![c] = FreeChan]
          /\ UNCHANGED <<wire, sent, where, last, missed>>
      BY <1>7 DEF Forget, Release
    <2>2. chan[d].state = "open"
      BY <2>1 DEF Streams
    <2>3. chan'[d] = chan[d]
      BY <2>1, <2>2 DEF TypeOK
    <2>4. QED
      BY <1>c, <2>1, <2>3
  <1>8. CASE UNCHANGED vars
    BY <1>8, <1>c DEF vars
  <1>9. QED
    BY <1>1, <1>2, <1>3, <1>4, <1>5, <1>6, <1>7, <1>8 DEF Next

LEMMA NoGapAlways == Spec => []NoGap
  <1>1. Init => NoGap
    <2> SUFFICES ASSUME Init PROVE NoGap
      OBVIOUS
    <2>1. ASSUME NEW i \in Instances, NEW r \in Rooms PROVE RunsUpTo(OnWire(wire[i], r), r, 0)
      <3>1. wire[i] = <<>> /\ sent[r] = 0
        BY DEF Init, HubInit
      <3>2. OnWire(<<>>, r) = 1..0
        BY DEF OnWire
      <3>3. QED
        BY <3>1, <3>2 DEF RunsUpTo
    <2>2. QED
      BY <2>1 DEF Init, NoGap, WireRuns, MissedSinceOpen, NoGapUnlessMissed
  <1>2. TypeOK /\ Streams /\ Order /\ NoGap /\ [Next]_vars => NoGap'
    BY WireRunsStep, MissedStep, GapStep DEF NoGap
  <1>3. QED
    BY <1>1, <1>2, FeedTypeCorrect, StreamsAlways, OrderAlways, PTL DEF Spec
----------------------------------------------------------------------------
(* A count that fits is the one the reader comes to show, and a comment    *)
(* leaves that as it was.                                                  *)
LEMMA OfferShows ==
    ASSUME NEW buf \in Seq(Event), NEW ev \in Event, NEW now, NEW n
    PROVE  /\ ev.name # "presence" /\ ComesToShow(buf, now, n) => ComesToShow(Offer(buf, ev), now, n)
           /\ ev.name = "presence" /\ Len(buf) < BufferCap => ComesToShow(Offer(buf, ev), now, ev.n)
  <1> DEFINE b == Append(buf, ev)
  <1>1. /\ Len(b) = Len(buf) + 1 /\ Len(buf) \in Nat
        /\ \A k \in 1..Len(buf) : k \in 1..Len(b) /\ b[k] = buf[k]
        /\ \A k \in 1..Len(b) : k \in 1..Len(buf) \/ k = Len(buf) + 1
        /\ Len(buf) + 1 \in 1..Len(b)
        /\ b[Len(buf) + 1] = ev
    OBVIOUS
  <1> HIDE DEF b
  <1>2. ASSUME ev.name # "presence" PROVE Counts(b) = Counts(buf)
    <2>1. \A k : k \in Counts(b) <=> k \in Counts(buf)
      BY <1>1, <1>2 DEF Counts
    <2>2. QED
      BY <2>1
  <1>3. ASSUME ev.name # "presence", ComesToShow(buf, now, n) PROVE ComesToShow(b, now, n)
    <2>1. CASE Counts(buf) = {}
      BY <1>2, <1>3, <2>1 DEF ComesToShow
    <2>2. CASE Counts(buf) # {}
      <3>1. PICK k \in Counts(buf) : buf[k].n = n /\ \A l \in Counts(buf) : l <= k
        BY <1>3, <2>2 DEF ComesToShow
      <3>2. b[k] = buf[k]
        BY <1>1 DEF Counts
      <3>3. QED
        BY <1>2, <1>3, <2>2, <3>1, <3>2 DEF ComesToShow
    <2>3. QED
      BY <2>1, <2>2
  <1>4. ASSUME ev.name = "presence" PROVE ComesToShow(b, now, ev.n)
    <2>1. Len(buf) + 1 \in Counts(b) /\ b[Len(buf) + 1].n = ev.n
      BY <1>1, <1>4 DEF Counts
    <2>2. \A l \in Counts(b) : l <= Len(buf) + 1
      BY <1>1 DEF Counts
    <2>3. QED
      BY <2>1, <2>2 DEF ComesToShow
  <1>5. QED
    BY <1>3, <1>4 DEF Offer, b

(* Reading an event brings the reader nearer to the newest count.          *)
LEMMA TailShows ==
    ASSUME NEW buf \in Seq(Event), buf # <<>>, NEW now, NEW n, ComesToShow(buf, now, n)
    PROVE  ComesToShow(Tail(buf), IF Head(buf).name = "presence" THEN Head(buf).n ELSE now, n)
  <1> DEFINE t == Tail(buf)
             then == IF Head(buf).name = "presence" THEN Head(buf).n ELSE now
  <1>1. /\ Len(t) = Len(buf) - 1 /\ Len(buf) \in Nat
        /\ \A k \in 1..Len(t) : k + 1 \in 1..Len(buf) /\ t[k] = buf[k + 1]
        /\ \A k \in 1..Len(buf) : k = 1 \/ (k - 1 \in 1..Len(t) /\ t[k - 1] = buf[k])
        /\ Head(buf) = buf[1] /\ 1 \in 1..Len(buf)
    OBVIOUS
  <1> HIDE DEF t
  <1>2. \A k \in Counts(t) : k + 1 \in Counts(buf) /\ t[k] = buf[k + 1]
    BY <1>1 DEF Counts
  <1>3. \A k \in Counts(buf) : k = 1 \/ (k - 1 \in Counts(t) /\ t[k - 1] = buf[k])
    BY <1>1 DEF Counts
  <1>4. 1 \in Counts(buf) <=> Head(buf).name = "presence"
    BY <1>1 DEF Counts
  <1>5. Counts(buf) \subseteq Nat /\ Counts(t) \subseteq Nat
    BY <1>1 DEF Counts
  <1>6. CASE Counts(t) = {}
    <2>1. then = n
      <3>1. CASE Counts(buf) = {}
        BY <1>4, <3>1 DEF ComesToShow
      <3>2. CASE Counts(buf) # {}
        <4>1. PICK k \in Counts(buf) : buf[k].n = n
          BY <3>2 DEF ComesToShow
        <4>2. k = 1
          BY <1>3, <1>6
        <4>3. QED
          BY <1>1, <1>4, <4>1, <4>2
      <3>3. QED
        BY <3>1, <3>2
    <2>2. QED
      BY <1>6, <2>1 DEF ComesToShow, t
  <1>7. CASE Counts(t) # {}
    <2>1. Counts(buf) # {}
      BY <1>2, <1>7
    <2>2. PICK k \in Counts(buf) : buf[k].n = n /\ \A l \in Counts(buf) : l <= k
      BY <2>1 DEF ComesToShow
    <2>3. k - 1 \in Counts(t) /\ t[k - 1] = buf[k]
      <3>1. PICK j \in Counts(t) : TRUE
        BY <1>7
      <3>2. j + 1 <= k /\ j \in Nat /\ j # 0
        BY <1>2, <2>2, <1>5 DEF Counts
      <3>3. QED
        BY <1>3, <1>5, <3>2
    <2>4. \A l \in Counts(t) : l <= k - 1
      BY <1>2, <1>5, <2>2
    <2>5. QED
      BY <1>7, <2>2, <2>3, <2>4 DEF ComesToShow, t
  <1>8. QED
    BY <1>6, <1>7

(* The inductive invariant behind PresenceAccurate is PresenceAccurate.    *)
LEMMA PresenceStep ==
    TypeOK /\ Streams /\ Order /\ MissedSinceOpen /\ PresenceAccurate /\ [Next]_vars
        => PresenceAccurate'
  <1> DEFINE buf(d) == chan[d].buf
             count(d) == Cardinality(rooms[InstanceOf[d]][where[d]])
  <1> SUFFICES ASSUME TypeOK, Streams, Order, MissedSinceOpen, PresenceAccurate, [Next]_vars,
                      NEW d \in Subs, Presence, where'[d] # NoRoom, "presence" \notin missed'[d]
               PROVE  ComesToShow(buf(d), shown[d], count(d))'
    BY DEF PresenceAccurate
  <1> USE HubAssumption, FeedAssumption
  <1>a. buf(d) \in Seq(Event) /\ Len(buf(d)) <= BufferCap /\ InstanceOf[d] \in Instances
    BY DEF TypeOK, Channel
  <1>b. where[d] # NoRoom /\ "presence" \notin missed[d] => ComesToShow(buf(d), shown[d], count(d))
    BY DEF PresenceAccurate
  <1>c. ASSUME UNCHANGED <<where, shown, rooms>>, "presence" \notin missed[d], chan'[d] = chan[d]
        PROVE  ComesToShow(buf(d), shown[d], count(d))'
    BY <1>b, <1>c DEF ComesToShow, Counts
  <1>1. ASSUME NEW q \in Rooms, Announce(q) PROVE ComesToShow(buf(d), shown[d], count(d))'
    BY <1>1, <1>c DEF Announce, Publish
  <1>2. ASSUME NEW i \in Instances, Deliver(i) PROVE ComesToShow(buf(d), shown[d], count(d))'
    <2> DEFINE m == Head(wire[i])
    <2>1. /\ wire[i] # <<>>
          /\ chan' = Dispatch(chan, rooms[i][m.room], m.ev)
          /\ missed' = Missed(chan, rooms[i][m.room], m.ev)
          /\ UNCHANGED <<where, shown, rooms>>
      BY <1>2 DEF Deliver, Receive
    <2>2. m \in Envelope /\ m.ev.name = "event"
      BY <2>1 DEF TypeOK, Order, WireOrder
    <2>3. m.ev \in Event
      BY <2>2 DEF Envelope
    <2>4. "presence" \notin missed[d]
      BY <2>1, <2>2 DEF Missed
    <2>5. CASE d \notin rooms[i][m.room]
      BY <1>c, <2>1, <2>4, <2>5 DEF Dispatch
    <2>6. CASE d \in rooms[i][m.room]
      <3>1. chan'[d].buf = Offer(buf(d), m.ev)
        BY <2>1, <2>6 DEF Dispatch, TypeOK, Channel
      <3>2. ComesToShow(Offer(buf(d), m.ev), shown[d], count(d))
        BY <1>a, <1>b, <2>1, <2>2, <2>3, <2>4, OfferShows
      <3>3. QED
        BY <2>1, <3>1, <3>2
    <2>7. QED
      BY <2>5, <2>6
  <1>3. ASSUME NEW i \in Instances, LoseConnection(i)
        PROVE  ComesToShow(buf(d), shown[d], count(d))'
    BY <1>3, <1>c DEF LoseConnection, Lose
  <1>4. ASSUME NEW c \in Subs, NEW r \in Rooms, OpenStream(c, r)
        PROVE  ComesToShow(buf(d), shown[d], count(d))'
    <2> DEFINE others == rooms[InstanceOf[c]][r]
               members == others \cup {c}
               told == PresenceEvent(members)
    <2>1. /\ where[c] = NoRoom
          /\ where' = [where EXCEPT ![c] = r]
          /\ rooms' = [rooms EXCEPT ![InstanceOf[c]][r] = members]
          /\ missed' = Missed(chan, others, PresenceEvent(others))
          /\ shown' = shown
      BY <1>4 DEF OpenStream, Subscribe
    <2>2. \A e \in Subs :
             chan'[e].buf = IF e = c THEN Offer(<<>>, told)
                            ELSE IF e \in others THEN Offer(chan[e].buf, told) ELSE chan[e].buf
      BY <1>4, SMTT(40) DEF OpenStream, Subscribe, Dispatch, TypeOK, Channel
    <2>3. told \in Event /\ told.name = "presence" /\ told.n = Cardinality(members)
      <3>1. members \in SUBSET Subs
        BY DEF TypeOK
      <3>2. QED
        BY <3>1, PresenceEventTyped DEF PresenceEvent
    <2>4. c \notin others
      BY <2>1 DEF Streams
    <2>5. CASE d \in members
      <3>1. count(d)' = told.n
        <4>1. InstanceOf[d] = InstanceOf[c] /\ where'[d] = r
          BY <2>1, <2>5 DEF Streams, TypeOK
        <4>2. rooms'[InstanceOf[d]][where'[d]] = members
          BY <2>1, <4>1 DEF TypeOK
        <4>3. QED
          BY <2>3, <4>2
      <3>2. CASE d = c
        <4>1. chan'[d].buf = Offer(<<>>, told)
          BY <2>2, <3>2
        <4> HIDE DEF told
        <4>2. <<>> \in Seq(Event) /\ Len(<<>>) < BufferCap
          OBVIOUS
        <4>3. ComesToShow(Offer(<<>>, told), shown[d], told.n)
          BY <2>3, <4>2, OfferShows
        <4>4. QED
          BY <2>1, <3>1, <4>1, <4>3
      <3>3. CASE d # c
        <4>1. d \in others
          BY <2>5, <3>3
        <4>2. Len(buf(d)) < BufferCap
          BY <1>a, <2>1, <4>1 DEF Missed, PresenceEvent
        <4>3. chan'[d].buf = Offer(buf(d), told)
          BY <2>2, <3>3, <4>1
        <4> HIDE DEF told
        <4>4. ComesToShow(Offer(buf(d), told), shown[d], told.n)
          BY <1>a, <2>3, <4>2, OfferShows
        <4>5. QED
          BY <2>1, <3>1, <4>3, <4>4
      <3>4. QED
        BY <3>2, <3>3
    <2>6. CASE d \notin members
      <3>1. chan'[d].buf = buf(d) /\ where'[d] = where[d] /\ "presence" \notin missed[d]
        BY <2>1, <2>2, <2>6 DEF TypeOK, Missed
      <3>2. rooms'[InstanceOf[d]][where[d]] = rooms[InstanceOf[d]][where[d]]
        <4>1. ~(InstanceOf[d] = InstanceOf[c] /\ where[d] = r)
          BY <2>6 DEF Streams
        <4>2. QED
          BY <2>1, <4>1 DEF TypeOK
      <3>3. QED
        BY <1>b, <2>1, <3>1, <3>2
    <2>7. QED
      BY <2>5, <2>6
  <1>5. ASSUME NEW c \in Subs, ReadEvent(c) PROVE ComesToShow(buf(d), shown[d], count(d))'
    <2> DEFINE ev == Head(chan[c].buf)
    <2>1. /\ chan[c].buf # <<>>
          /\ chan' = [chan EXCEPT ![c].buf = Tail(chan[c].buf)]
          /\ shown' = IF ev.name = "event" THEN shown ELSE [shown EXCEPT ![c] = ev.n]
          /\ UNCHANGED <<rooms, where, missed>>
      BY <1>5 DEF ReadEvent, Take
    <2>2. CASE d # c
      <3>1. chan'[d] = chan[d] /\ shown'[d] = shown[d]
        BY <2>1, <2>2 DEF TypeOK
      <3>2. QED
        BY <1>b, <2>1, <3>1
    <2>3. CASE d = c
      <3>1. chan'[d].buf = Tail(buf(d)) /\ buf(d) # <<>> /\ ev = Head(buf(d)) /\ ev \in Event
        BY <1>a, <2>1, <2>3 DEF TypeOK, Channel
      <3>2. shown'[d] = IF ev.name = "presence" THEN ev.n ELSE shown[d]
        BY <2>1, <2>3, <3>1 DEF Event, TypeOK
      <3>3. ComesToShow(Tail(buf(d)), IF ev.name = "presence" THEN ev.n ELSE shown[d], count(d))
        BY <1>a, <1>b, <2>1, <3>1, TailShows
      <3>4. QED
        BY <2>1, <3>1, <3>2, <3>3
    <2>4. QED
      BY <2>2, <2>3
  <1>6. ASSUME NEW c \in Subs, CloseStream(c) PROVE ComesToShow(buf(d), shown[d], count(d))'
    <2> DEFINE rest == rooms[InstanceOf[c]][where[c]] \ {c}
               told == PresenceEvent(rest)
    <2>1. /\ where[c] \in Rooms
          /\ where' = [where EXCEPT ![c] = NoRoom]
          /\ rooms' = [rooms EXCEPT ![InstanceOf[c]][where[c]] = rest]
          /\ shown' = [shown EXCEPT ![c] = 0]
          /\ missed' = [Missed(chan, rest, told) EXCEPT ![c] = {}]
          /\ chan' = [Dispatch(chan, rest, told) EXCEPT ![c].state = "closed"]
      BY <1>6 DEF CloseStream, Cleanup, TypeOK
    <2>2. told \in Event /\ told.name = "presence" /\ told.n = Cardinality(rest)
      <3>1. rest \in SUBSET Subs
        BY <2>1, SMTT(40) DEF TypeOK
      <3>2. QED
        BY <3>1, PresenceEventTyped DEF PresenceEvent
    <2> HIDE DEF told
    <2>3. d # c /\ where'[d] = where[d] /\ shown'[d] = shown[d]
      BY <2>1 DEF TypeOK
    <2>4. chan'[d] = Dispatch(chan, rest, told)[d] /\ missed'[d] = Missed(chan, rest, told)[d]
      BY <2>1, <2>3 DEF Dispatch, Missed, TypeOK
    <2>5. CASE d \in rest
      <3>1. count(d)' = told.n
        <4>1. InstanceOf[d] = InstanceOf[c] /\ where'[d] = where[c]
          BY <2>1, <2>3, <2>5 DEF Streams
        <4>2. rooms'[InstanceOf[d]][where'[d]] = rest
          BY <2>1, <4>1 DEF TypeOK
        <4>3. QED
          BY <2>2, <4>2
      <3>2. Len(buf(d)) < BufferCap
        BY <1>a, <2>2, <2>4, <2>5 DEF Missed
      <3>3. chan'[d].buf = Offer(buf(d), told)
        BY <2>4, <2>5 DEF Dispatch, TypeOK, Channel
      <3>4. ComesToShow(Offer(buf(d), told), shown[d], told.n)
        BY <1>a, <2>2, <3>2, OfferShows
      <3>5. QED
        BY <2>3, <3>1, <3>3, <3>4
    <2>6. CASE d \notin rest
      <3>1. chan'[d] = chan[d] /\ missed'[d] = missed[d]
        BY <2>4, <2>6 DEF Dispatch, Missed
      <3>2. rooms'[InstanceOf[d]][where[d]] = rooms[InstanceOf[d]][where[d]]
        <4>1. ~(InstanceOf[d] = InstanceOf[c] /\ where[d] = where[c])
          BY <2>1, <2>3, <2>6 DEF Streams
        <4>2. QED
          BY <2>1, <4>1 DEF TypeOK
      <3>3. QED
        BY <1>b, <2>3, <3>1, <3>2
    <2>7. QED
      BY <2>5, <2>6
  <1>7. ASSUME NEW c \in Subs, Forget(c) PROVE ComesToShow(buf(d), shown[d], count(d))'
    <2>1. /\ chan[c].state = "closed"
          /\ chan' = [chan EXCEPT ![c] = FreeChan]
          /\ UNCHANGED <<rooms, where, shown, missed>>
      BY <1>7 DEF Forget, Release
    <2>2. chan[d].state = "open"
      BY <2>1 DEF Streams
    <2>3. QED
      BY <1>c, <2>1, <2>2 DEF TypeOK
  <1>8. CASE UNCHANGED vars
    BY <1>8, <1>c DEF vars
  <1>9. QED
    BY <1>1, <1>2, <1>3, <1>4, <1>5, <1>6, <1>7, <1>8 DEF Next

(* Whatever the interleaving of publishers, readers and the receive        *)
(* goroutine, a gap in a stream means an event its buffer or connection    *)
(* lost, and a wrong count means a count its buffer lost.                  *)
THEOREM FeedStreamHonest == Spec => []StreamHonest
  <1>1. Init => PresenceAccurate
    BY DEF Init, PresenceAccurate
  <1>2. NoGap => MissedSinceOpen /\ NoGapUnlessMissed
    BY DEF NoGap
  <1>3. Spec => []PresenceAccurate
    BY <1>1, <1>2, PresenceStep, FeedTypeCorrect, StreamsAlways, OrderAlways, NoGapAlways, PTL
       DEF Spec
  <1>4. QED
    BY <1>2, <1>3, NoGapAlways, PTL DEF StreamHonest

----------------------------------------------------------------------------
(* List imports.                                                           *)

(* An attempt runs a task nobody else runs, and works on a job it claimed. *)
RunsOwnTasks ==
    \A w \in Workers : run[w] # NoRun =>
        /\ task[run[w].job].state = "active"
        /\ \A v \in Workers : run[v] # NoRun /\ run[v].job = run[w].job => v = w
        /\ run[w].at = "work" => status[run[w].job] = "processing"

(* A job has a row from the insert on, and a task only after it.           *)
CreatesFresh ==
    \A j \in Jobs :
        /\ create[j].at \in {"none", "insert"} <=> status[j] = "none"
        /\ create[j].at = "enqueue" => status[j] = "pending"
        /\ create[j].at # "done" => task[j].state = "none"

(* A Create's lock holds the previews it will supersede as they are, and   *)
(* no other Create holds them too.                                         *)
PreviewsHeld ==
    \A j \in Jobs : \A k \in create[j].mine :
        /\ status[k] = "ready" /\ Owner[k] = Owner[j]
        /\ create[j].at = "insert"
        /\ \A i \in Jobs : k \in create[i].mine => i = j

(* A commit that claimed its job is the only one that did.                 *)
Late(q) == commit[q] # NoCommit /\ commit[q].at \in {"apply", "complete", "reopen"}
CommitsHold ==
    \A q \in Requests : Late(q) =>
        /\ status[commit[q].job] = "committing"
        /\ \A p \in Requests : Late(p) /\ commit[p].job = commit[q].job => p = q

(* The rows are in the list from Apply on, and nothing is offered again.   *)
AppliedWhen ==
    /\ \A j \in Jobs :
          /\ status[j] \notin {"committing", "done"} => applied[j] = 0
          /\ status[j] = "committing" => applied[j] \in {0, 1}
          /\ status[j] = "done" => applied[j] = 1
    /\ \A q \in Requests : Late(q) =>
          applied[commit[q].job] = IF commit[q].at = "complete" THEN 1 ELSE 0

OneActive == \A j, k \in Jobs : Active(j) /\ Active(k) /\ Owner[j] = Owner[k] => j = k

JobsInv ==
    /\ RunsOwnTasks /\ CreatesFresh /\ PreviewsHeld
    /\ CommitsHold /\ AppliedWhen /\ OneActive
----------------------------------------------------------------------------
(* What a step of a worker or a request does to the types.                 *)
RunType == {NoRun} \cup [at : {"claim", "work", "ack"}, job : Jobs]
CommitType ==
    {NoCommit} \cup [at : {"claim", "apply", "complete", "reopen"}, job : Jobs, ctx : BOOLEAN]
TaskType == [state : {"none", "queued", "active", "done", "archived"}, retried : 0..MaxRetry]

(* A run that goes on is a run of its job, and so is a commit.             *)
LEMMA RunMoves ==
    ASSUME ImportTypeOK, NEW w \in Workers, run[w] # NoRun, NEW s \in {"claim", "work", "ack"}
    PROVE  /\ run[w].job \in Jobs
           /\ [run EXCEPT ![w].at = s] \in [Workers -> RunType]
  BY DEF ImportTypeOK, RunType

LEMMA CommitMoves ==
    ASSUME ImportTypeOK, NEW q \in Requests, commit[q] # NoCommit
    PROVE  /\ commit[q].job \in Jobs /\ commit[q].ctx \in BOOLEAN
           /\ \A s \in {"claim", "apply", "complete", "reopen"} :
                 [commit EXCEPT ![q].at = s] \in [Requests -> CommitType]
           /\ [commit EXCEPT ![q].ctx = FALSE] \in [Requests -> CommitType]
           /\ [commit EXCEPT ![q] = NoCommit] \in [Requests -> CommitType]
  <1>1. commit \in [Requests -> CommitType]
    BY DEF ImportTypeOK, CommitType
  <1>2. commit[q] \in [at : {"claim", "apply", "complete", "reopen"}, job : Jobs, ctx : BOOLEAN]
    BY <1>1 DEF CommitType
  <1>3. \A s \in {"claim", "apply", "complete", "reopen"} :
           [commit[q] EXCEPT !.at = s] \in CommitType
    BY <1>2 DEF CommitType
  <1>4. [commit[q] EXCEPT !.ctx = FALSE] \in CommitType
    BY <1>2 DEF CommitType
  <1>5. NoCommit \in CommitType
    BY DEF CommitType
  <1>6. QED
    BY <1>1, <1>2, <1>3, <1>4, <1>5

LEMMA RedeliveryTyped ==
    ASSUME ImportTypeOK, NEW j \in Jobs, RedeliverOrArchive(j)
    PROVE  /\ task' \in [Jobs -> TaskType]
           /\ task'[j].state \in {"queued", "archived"}
           /\ \A i \in Jobs \ {j} : task'[i] = task[i]
  <1>1. CASE task[j].retried < MaxRetry
    <2>1. [state |-> "queued", retried |-> task[j].retried + 1] \in TaskType
      BY <1>1, ImportAssumption DEF ImportTypeOK, TaskType
    <2>2. QED
      BY <1>1, <2>1, SMTT(40) DEF ImportTypeOK, RedeliverOrArchive, Redeliver, TaskType
  <1>2. CASE ~(task[j].retried < MaxRetry)
    BY <1>2, SMTT(40) DEF ImportTypeOK, RedeliverOrArchive, TaskType
  <1>3. QED
    BY <1>1, <1>2

(* The types after a step of a create, of a worker, of a commit.           *)
LEMMA CreateTyped ==
    ASSUME ImportTypeOK, NEW j \in Jobs, Create(j)
    PROVE  ImportTypeOK'
  <1> USE DEF ImportTypeOK
  <1>1. CASE CreateSupersede(j)
    BY <1>1 DEF CreateSupersede
  <1>2. CASE CreateInsert(j)
    BY <1>2 DEF CreateInsert
  <1>3. CASE CreateRollback(j)
    BY <1>3 DEF CreateRollback, NoCreate
  <1>4. CASE Enqueue(j)
    BY <1>4 DEF Enqueue
  <1>5. CASE EnqueueFails(j)
    BY <1>5 DEF EnqueueFails, Set
  <1>6. CASE CreateDies(j)
    BY <1>6 DEF CreateDies
  <1>7. QED
    BY <1>1, <1>2, <1>3, <1>4, <1>5, <1>6 DEF Create

LEMMA WorkTyped ==
    ASSUME ImportTypeOK, NEW w \in Workers, Process(w) \/ WorkerDies(w)
    PROVE  ImportTypeOK'
  <1>0. run[w] # NoRun
    BY DEF Process, Claim, Finish, Ack, Retry, WorkerDies, NoRun
  <1>1. run[w].job \in Jobs
    BY <1>0, RunMoves
  <1>2. CASE Claim(w)
    <2>1. run' \in [Workers -> RunType]
      <3>1. run' = [run EXCEPT ![w].at = "work"] \/ run' = [run EXCEPT ![w] = NoRun]
        BY <1>2 DEF Claim, EndRun
      <3>2. [run EXCEPT ![w] = NoRun] \in [Workers -> RunType]
        BY DEF RunType, ImportTypeOK
      <3>3. QED
        BY <1>0, <3>1, <3>2, RunMoves
    <2>2. status' \in [Jobs -> {"none", "pending", "processing", "ready", "committing",
                                "done", "failed", "superseded"}]
      BY <1>1, <1>2 DEF Claim, Set, ImportTypeOK
    <2>3. task' \in [Jobs -> TaskType]
      BY <1>1, <1>2 DEF Claim, EndRun, ImportTypeOK, TaskType
    <2>4. QED
      BY <1>2, <2>1, <2>2, <2>3 DEF Claim, ImportTypeOK, RunType, TaskType
  <1>3. CASE Finish(w)
    <2>1. run' \in [Workers -> RunType]
      BY <1>0, <1>3, RunMoves DEF Finish
    <2>2. status' \in [Jobs -> {"none", "pending", "processing", "ready", "committing",
                               "done", "failed", "superseded"}]
      BY <1>1, <1>3 DEF Finish, Set, ImportTypeOK
    <2>3. UNCHANGED <<applied, create, task, commit, deaths>>
      BY <1>3 DEF Finish
    <2>4. QED
      BY <2>1, <2>2, <2>3 DEF ImportTypeOK, RunType
  <1>4. CASE Ack(w)
    BY <1>1, <1>4 DEF Ack, EndRun, ImportTypeOK
  <1>5. CASE Retry(w)
    <2>1. task' \in [Jobs -> TaskType]
      BY <1>1, <1>5, RedeliveryTyped DEF Retry
    <2>2. run' \in [Workers -> RunType]
      BY <1>5 DEF Retry, ImportTypeOK, RunType
    <2>3. status' \in [Jobs -> {"none", "pending", "processing", "ready", "committing",
                                "done", "failed", "superseded"}]
      BY <1>1, <1>5 DEF Retry, Set, ImportTypeOK
    <2>4. QED
      BY <1>5, <2>1, <2>2, <2>3 DEF Retry, ImportTypeOK, RunType, TaskType
  <1>6. CASE WorkerDies(w)
    <2>1. task' \in [Jobs -> TaskType]
      BY <1>1, <1>6, RedeliveryTyped DEF WorkerDies
    <2>2. deaths' \in 0..MaxDeaths
      BY <1>6, ImportAssumption DEF WorkerDies, ImportTypeOK
    <2>3. QED
      BY <1>6, <2>1, <2>2 DEF WorkerDies, ImportTypeOK, TaskType
  <1>7. QED
    BY <1>2, <1>3, <1>4, <1>5, <1>6 DEF Process

LEMMA CommitTyped ==
    ASSUME ImportTypeOK, NEW q \in Requests, CommitStep(q)
    PROVE  ImportTypeOK'
  <1>0. commit[q] # NoCommit
    BY DEF CommitStep, CommitClaim, Apply, ApplyFails, Reopen, Complete, ClientGone,
           CommitDies, NoCommit
  <1>1. commit[q].job \in Jobs
    BY <1>0, CommitMoves
  <1>2. commit' \in [Requests -> CommitType]
    <2>1. \/ \E s \in {"claim", "apply", "complete", "reopen"} :
                commit' = [commit EXCEPT ![q].at = s]
          \/ commit' = [commit EXCEPT ![q].ctx = FALSE]
          \/ commit' = [commit EXCEPT ![q] = NoCommit]
      BY DEF CommitStep, CommitClaim, Apply, ApplyFails, Reopen, Complete, ClientGone,
             CommitDies, EndCommit
    <2>2. /\ \A s \in {"claim", "apply", "complete", "reopen"} :
                [commit EXCEPT ![q].at = s] \in [Requests -> CommitType]
          /\ [commit EXCEPT ![q].ctx = FALSE] \in [Requests -> CommitType]
          /\ [commit EXCEPT ![q] = NoCommit] \in [Requests -> CommitType]
      BY <1>0, CommitMoves
    <2>3. CASE \E s \in {"claim", "apply", "complete", "reopen"} :
                  commit' = [commit EXCEPT ![q].at = s]
      BY <2>2, <2>3, Zenon
    <2>4. QED
      BY <2>1, <2>2, <2>3, Zenon
  <1>3. status' \in [Jobs -> {"none", "pending", "processing", "ready", "committing",
                              "done", "failed", "superseded"}]
    BY <1>1
       DEF ImportTypeOK, CommitStep, CommitClaim, Apply, ApplyFails, Reopen, Complete,
           ClientGone, CommitDies, Set
  <1>4. applied' \in [Jobs -> Nat]
    BY <1>1
       DEF ImportTypeOK, CommitStep, CommitClaim, Apply, ApplyFails, Reopen, Complete,
           ClientGone, CommitDies
  <1>5. UNCHANGED <<create, task, run, deaths>>
    BY DEF CommitStep, CommitClaim, Apply, ApplyFails, Reopen, Complete, ClientGone,
           CommitDies
  <1>6. QED
    BY <1>2, <1>3, <1>4, <1>5 DEF ImportTypeOK, CommitType

LEMMA ImportTypeStep == ImportTypeOK /\ [ImportNext]_importVars => ImportTypeOK'
  <1> SUFFICES ASSUME ImportTypeOK, [ImportNext]_importVars PROVE ImportTypeOK'
    OBVIOUS
  <1>1. ASSUME NEW w \in Workers, NEW j \in Jobs, Dequeue(w, j) PROVE ImportTypeOK'
    BY <1>1, SMTT(40) DEF ImportTypeOK, Dequeue
  <1>2. ASSUME NEW q \in Requests, NEW j \in Jobs, CommitRead(q, j) PROVE ImportTypeOK'
    BY <1>2 DEF ImportTypeOK, CommitRead
  <1>3. CASE UNCHANGED importVars
    BY <1>3 DEF ImportTypeOK, importVars
  <1>4. QED
    BY <1>1, <1>2, <1>3, CreateTyped, WorkTyped, CommitTyped DEF ImportNext

(* The variables stay in their types; no task is retried past MaxRetry.    *)
THEOREM ImportTypeCorrect == ImportSpec => []ImportTypeOK
  <1>1. ImportInit => ImportTypeOK
    BY ImportAssumption DEF ImportInit, ImportTypeOK, NoCreate
  <1>2. QED
    BY <1>1, ImportTypeStep, PTL DEF ImportSpec

----------------------------------------------------------------------------
(* One lemma per step of a create, a worker or a commit: it keeps each of  *)
(* the six parts of JobsInv.                                               *)
LEMMA SupersedeKeeps ==
    ASSUME ImportTypeOK, JobsInv, DbErrors = FALSE, NEW j \in Jobs, CreateSupersede(j)
    PROVE  JobsInv'
  <1> USE DEF JobsInv, ImportTypeOK, NoRun, NoCommit
  <1>1. RunsOwnTasks'
    BY DEF CreateSupersede, RunsOwnTasks
  <1>2. CreatesFresh'
    BY DEF CreateSupersede, CreatesFresh
  <1>3. PreviewsHeld'
    BY DEF CreateSupersede, Locked, PreviewsHeld
  <1>4. CommitsHold'
    BY DEF CreateSupersede, CommitsHold, Late
  <1>5. AppliedWhen'
    BY DEF CreateSupersede, Late, AppliedWhen
  <1>6. OneActive'
    BY DEF CreateSupersede, OneActive, Active
  <1>7. QED
    BY <1>1, <1>2, <1>3, <1>4, <1>5, <1>6

LEMMA InsertKeeps ==
    ASSUME ImportTypeOK, JobsInv, DbErrors = FALSE, NEW j \in Jobs, CreateInsert(j)
    PROVE  JobsInv'
  <1> USE DEF JobsInv, ImportTypeOK, NoRun, NoCommit
  <1>1. RunsOwnTasks'
    BY DEF CreateInsert, RunsOwnTasks, CreatesFresh, PreviewsHeld
  <1>2. CreatesFresh'
    BY DEF CreateInsert, CreatesFresh, PreviewsHeld
  <1>3. PreviewsHeld'
    BY DEF CreateInsert, CreatesFresh, PreviewsHeld
  <1>4. CommitsHold'
    BY DEF CreateInsert, CreatesFresh, PreviewsHeld, CommitsHold, Late
  <1>5. AppliedWhen'
    BY DEF CreateInsert, CreatesFresh, PreviewsHeld, Late, AppliedWhen
  <1>6. OneActive'
    BY DEF CreateInsert, OthersActive, OneActive, Active
  <1>7. QED
    BY <1>1, <1>2, <1>3, <1>4, <1>5, <1>6

LEMMA RollbackKeeps ==
    ASSUME ImportTypeOK, JobsInv, DbErrors = FALSE, NEW j \in Jobs, CreateRollback(j)
    PROVE  JobsInv'
  <1> USE DEF JobsInv, ImportTypeOK, NoRun, NoCommit
  <1>1. RunsOwnTasks'
    BY DEF CreateRollback, RunsOwnTasks
  <1>2. CreatesFresh'
    BY DEF CreateRollback, NoCreate, CreatesFresh
  <1>3. PreviewsHeld'
    BY DEF CreateRollback, NoCreate, PreviewsHeld
  <1>4. CommitsHold'
    BY DEF CreateRollback, CommitsHold, Late
  <1>5. AppliedWhen'
    BY DEF CreateRollback, Late, AppliedWhen
  <1>6. OneActive'
    BY DEF CreateRollback, OneActive, Active
  <1>7. QED
    BY <1>1, <1>2, <1>3, <1>4, <1>5, <1>6

LEMMA EnqueueKeeps ==
    ASSUME ImportTypeOK, JobsInv, DbErrors = FALSE, NEW j \in Jobs, Enqueue(j)
    PROVE  JobsInv'
  <1> USE DEF JobsInv, ImportTypeOK, NoRun, NoCommit
  <1>1. RunsOwnTasks'
    BY DEF Enqueue, RunsOwnTasks, CreatesFresh
  <1>2. CreatesFresh'
    BY DEF Enqueue, CreatesFresh
  <1>3. PreviewsHeld'
    BY DEF Enqueue, PreviewsHeld
  <1>4. CommitsHold'
    BY DEF Enqueue, CommitsHold, Late
  <1>5. AppliedWhen'
    BY DEF Enqueue, Late, AppliedWhen
  <1>6. OneActive'
    BY DEF Enqueue, OneActive, Active
  <1>7. QED
    BY <1>1, <1>2, <1>3, <1>4, <1>5, <1>6

LEMMA EnqueueFailsKeeps ==
    ASSUME ImportTypeOK, JobsInv, DbErrors = FALSE, NEW j \in Jobs, EnqueueFails(j)
    PROVE  JobsInv'
  <1> USE DEF JobsInv, ImportTypeOK, NoRun, NoCommit
  <1>1. RunsOwnTasks'
    BY DEF EnqueueFails, Set, RunsOwnTasks, CreatesFresh
  <1>2. CreatesFresh'
    BY DEF EnqueueFails, Set, CreatesFresh
  <1>3. PreviewsHeld'
    BY DEF EnqueueFails, Set, CreatesFresh, PreviewsHeld
  <1>4. CommitsHold'
    BY DEF EnqueueFails, Set, CreatesFresh, CommitsHold, Late
  <1>5. AppliedWhen'
    BY DEF EnqueueFails, Set, CreatesFresh, Late, AppliedWhen
  <1>6. OneActive'
    BY DEF EnqueueFails, Set, OneActive, Active
  <1>7. QED
    BY <1>1, <1>2, <1>3, <1>4, <1>5, <1>6

LEMMA CreateDiesKeeps ==
    ASSUME ImportTypeOK, JobsInv, DbErrors = FALSE, NEW j \in Jobs, CreateDies(j)
    PROVE  JobsInv'
  <1> USE DEF JobsInv, ImportTypeOK, NoRun, NoCommit
  <1>1. RunsOwnTasks'
    BY DEF CreateDies, RunsOwnTasks
  <1>2. CreatesFresh'
    BY DEF CreateDies, CreatesFresh
  <1>3. PreviewsHeld'
    BY DEF CreateDies, PreviewsHeld
  <1>4. CommitsHold'
    BY DEF CreateDies, CommitsHold, Late
  <1>5. AppliedWhen'
    BY DEF CreateDies, Late, AppliedWhen
  <1>6. OneActive'
    BY DEF CreateDies, OneActive, Active
  <1>7. QED
    BY <1>1, <1>2, <1>3, <1>4, <1>5, <1>6

LEMMA DequeueKeeps ==
    ASSUME ImportTypeOK, JobsInv, DbErrors = FALSE, NEW w \in Workers, NEW j \in Jobs, Dequeue(w, j)
    PROVE  JobsInv'
  <1> USE DEF JobsInv, ImportTypeOK, NoRun, NoCommit
  <1>1. RunsOwnTasks'
    BY DEF Dequeue, RunsOwnTasks
  <1>2. CreatesFresh'
    BY DEF Dequeue, CreatesFresh
  <1>3. PreviewsHeld'
    BY DEF Dequeue, PreviewsHeld
  <1>4. CommitsHold'
    BY DEF Dequeue, CommitsHold, Late
  <1>5. AppliedWhen'
    BY DEF Dequeue, Late, AppliedWhen
  <1>6. OneActive'
    BY DEF Dequeue, OneActive, Active
  <1>7. QED
    BY <1>1, <1>2, <1>3, <1>4, <1>5, <1>6

LEMMA ClaimKeeps ==
    ASSUME ImportTypeOK, JobsInv, DbErrors = FALSE, NEW w \in Workers, Claim(w)
    PROVE  JobsInv'
  <1> USE DEF JobsInv, ImportTypeOK, NoRun, NoCommit
  <1>1. RunsOwnTasks'
    <2>1. run[w] # NoRun /\ run[w].job \in Jobs
      BY DEF Claim
    <2>2. CASE status[run[w].job] \in {"pending", "processing"}
      <3>1. /\ status' = [status EXCEPT ![run[w].job] = "processing"]
            /\ run' = [run EXCEPT ![w].at = "work"] /\ task' = task
        BY <2>2 DEF Claim, Set
      <3>2. \A v \in Workers : (run'[v] # NoRun <=> run[v] # NoRun) /\ run'[v].job = run[v].job
        BY <2>1, <3>1
      <3>3. \A v \in Workers : v # w => run'[v] = run[v]
        BY <3>1
      <3>4. QED
        BY <2>1, <3>1, <3>2, <3>3 DEF RunsOwnTasks
    <2>3. CASE status[run[w].job] \notin {"pending", "processing"}
      <3>1. /\ status' = status /\ run' = [run EXCEPT ![w] = NoRun]
            /\ task' = [task EXCEPT ![run[w].job].state = "done"]
        BY <2>3 DEF Claim, EndRun
      <3>2. QED
        BY <2>1, <3>1 DEF RunsOwnTasks
    <2>4. QED
      BY <2>2, <2>3
  <1>2. CreatesFresh'
    <2>1. CASE status[run[w].job] \in {"pending", "processing"}
      BY <2>1 DEF Claim, Set, RunsOwnTasks, CreatesFresh
    <2>2. CASE status[run[w].job] \notin {"pending", "processing"}
      BY <2>2 DEF Claim, EndRun, RunsOwnTasks, CreatesFresh
    <2>3. QED
      BY <2>1, <2>2
  <1>3. PreviewsHeld'
    BY DEF Claim, Set, PreviewsHeld
  <1>4. CommitsHold'
    BY DEF Claim, Set, CommitsHold, Late
  <1>5. AppliedWhen'
    BY DEF Claim, Set, Late, AppliedWhen
  <1>6. OneActive'
    BY DEF Claim, Set, OneActive, Active
  <1>7. QED
    BY <1>1, <1>2, <1>3, <1>4, <1>5, <1>6

LEMMA FinishKeeps ==
    ASSUME ImportTypeOK, JobsInv, DbErrors = FALSE, NEW w \in Workers, Finish(w)
    PROVE  JobsInv'
  <1> USE DEF JobsInv, ImportTypeOK, NoRun, NoCommit
  <1>1. RunsOwnTasks'
    BY DEF Finish, Set, RunsOwnTasks
  <1>2. CreatesFresh'
    BY DEF Finish, Set, RunsOwnTasks, CreatesFresh, AppliedWhen
  <1>3. PreviewsHeld'
    BY DEF Finish, Set, RunsOwnTasks, PreviewsHeld
  <1>4. CommitsHold'
    BY DEF Finish, Set, RunsOwnTasks, CommitsHold, Late
  <1>5. AppliedWhen'
    BY DEF Finish, Set, RunsOwnTasks, Late, AppliedWhen
  <1>6. OneActive'
    <2>1. \A j \in Jobs : Active(j)' => Active(j)
      BY DEF Finish, Set, Active
    <2>2. QED
      BY <2>1 DEF OneActive
  <1>7. QED
    BY <1>1, <1>2, <1>3, <1>4, <1>5, <1>6

LEMMA AckKeeps ==
    ASSUME ImportTypeOK, JobsInv, DbErrors = FALSE, NEW w \in Workers, Ack(w)
    PROVE  JobsInv'
  <1> USE DEF JobsInv, ImportTypeOK, NoRun, NoCommit
  <1>1. RunsOwnTasks'
    BY DEF Ack, EndRun, RunsOwnTasks
  <1>2. CreatesFresh'
    BY DEF Ack, EndRun, RunsOwnTasks, CreatesFresh
  <1>3. PreviewsHeld'
    BY DEF Ack, PreviewsHeld
  <1>4. CommitsHold'
    BY DEF Ack, CommitsHold, Late
  <1>5. AppliedWhen'
    BY DEF Ack, Late, AppliedWhen
  <1>6. OneActive'
    BY DEF Ack, OneActive, Active
  <1>7. QED
    BY <1>1, <1>2, <1>3, <1>4, <1>5, <1>6

LEMMA RetryKeeps ==
    ASSUME ImportTypeOK, JobsInv, DbErrors = FALSE, NEW w \in Workers, Retry(w)
    PROVE  JobsInv'
  <1> USE DEF JobsInv, ImportTypeOK, NoRun, NoCommit
  <1>1. RunsOwnTasks'
    BY DEF Retry, Set, RedeliverOrArchive, Redeliver, RunsOwnTasks
  <1>2. CreatesFresh'
    <2>1. run[w] # NoRun /\ run[w].job \in Jobs /\ RedeliverOrArchive(run[w].job)
      BY DEF Retry
    <2>2. \A j \in Jobs : j = run[w].job \/ (task'[j] = task[j] /\ status'[j] = status[j])
      <3>1. \A j \in Jobs : j = run[w].job \/ task'[j] = task[j]
        BY <2>1, RedeliveryTyped
      <3>2. \A j \in Jobs : j = run[w].job \/ status'[j] = status[j]
        BY <2>1 DEF Retry, Set
      <3>3. QED
        BY <3>1, <3>2
    <2>3. task[run[w].job].state = "active" /\ status[run[w].job] = "processing"
      BY <2>1 DEF Retry, RunsOwnTasks
    <2>4. status'[run[w].job] \in {"processing", "failed"}
      BY <2>1, <2>3 DEF Retry, Set
    <2>5. create[run[w].job].at = "done" /\ create' = create
      BY <2>1, <2>3 DEF Retry, CreatesFresh
    <2>6. QED
      BY <2>2, <2>4, <2>5 DEF CreatesFresh
  <1>3. PreviewsHeld'
    BY DEF Retry, Set, RedeliverOrArchive, Redeliver, RunsOwnTasks, CreatesFresh,
           PreviewsHeld, AppliedWhen, OneActive, Active
  <1>4. CommitsHold'
    <2>1. run[w] # NoRun /\ run[w].job \in Jobs /\ status[run[w].job] = "processing"
      BY DEF Retry, RunsOwnTasks
    <2>2. \A j \in Jobs : status[j] = "committing" => status'[j] = "committing"
      BY <2>1 DEF Retry, Set
    <2>3. QED
      BY <2>2 DEF Retry, CommitsHold, Late
  <1>5. AppliedWhen'
    BY DEF Retry, Set, RunsOwnTasks, Late, AppliedWhen
  <1>6. OneActive'
    BY DEF Retry, Set, OneActive, Active
  <1>7. QED
    BY <1>1, <1>2, <1>3, <1>4, <1>5, <1>6

LEMMA WorkerDiesKeeps ==
    ASSUME ImportTypeOK, JobsInv, DbErrors = FALSE, NEW w \in Workers, WorkerDies(w)
    PROVE  JobsInv'
  <1> USE DEF JobsInv, ImportTypeOK, NoRun, NoCommit
  <1>1. RunsOwnTasks'
    BY DEF WorkerDies, RedeliverOrArchive, Redeliver, RunsOwnTasks
  <1>2. CreatesFresh'
    BY DEF WorkerDies, RedeliverOrArchive, Redeliver, RunsOwnTasks, CreatesFresh,
           PreviewsHeld, AppliedWhen
  <1>3. PreviewsHeld'
    BY DEF WorkerDies, PreviewsHeld
  <1>4. CommitsHold'
    BY DEF WorkerDies, CommitsHold, Late
  <1>5. AppliedWhen'
    BY DEF WorkerDies, Late, AppliedWhen
  <1>6. OneActive'
    BY DEF WorkerDies, OneActive, Active
  <1>7. QED
    BY <1>1, <1>2, <1>3, <1>4, <1>5, <1>6

LEMMA CommitReadKeeps ==
    ASSUME ImportTypeOK, JobsInv, DbErrors = FALSE, NEW q \in Requests, NEW j \in Jobs, CommitRead(q, j)
    PROVE  JobsInv'
  <1> USE DEF JobsInv, ImportTypeOK, NoRun, NoCommit
  <1>1. RunsOwnTasks'
    BY DEF CommitRead, RunsOwnTasks
  <1>2. CreatesFresh'
    BY DEF CommitRead, CreatesFresh
  <1>3. PreviewsHeld'
    BY DEF CommitRead, PreviewsHeld
  <1>4. CommitsHold'
    BY DEF CommitRead, CommitsHold, Late
  <1>5. AppliedWhen'
    BY DEF CommitRead, Late, AppliedWhen
  <1>6. OneActive'
    BY DEF CommitRead, OneActive, Active
  <1>7. QED
    BY <1>1, <1>2, <1>3, <1>4, <1>5, <1>6

LEMMA CommitClaimKeeps ==
    ASSUME ImportTypeOK, JobsInv, DbErrors = FALSE, NEW q \in Requests, CommitClaim(q)
    PROVE  JobsInv'
  <1> USE DEF JobsInv, ImportTypeOK, NoRun, NoCommit
  <1>1. RunsOwnTasks'
    BY DEF CommitClaim, Set, RunsOwnTasks
  <1>2. CreatesFresh'
    BY DEF CommitClaim, Set, CreatesFresh
  <1>3. PreviewsHeld'
    BY DEF CommitClaim, Set, Locked, PreviewsHeld
  <1>4. CommitsHold'
    <2>1. commit[q] # NoCommit /\ commit[q].job \in Jobs
      BY DEF CommitClaim
    <2>2. CASE status[commit[q].job] = "ready" /\ commit[q].ctx /\ ~OthersActive(commit[q].job)
      <3>1. status' = [status EXCEPT ![commit[q].job] = "committing"]
        BY <2>2 DEF CommitClaim, Set
      <3>2. commit' = [commit EXCEPT ![q].at = "apply"]
        BY <2>2 DEF CommitClaim
      <3>3. \A p \in Requests : Late(p) => commit[p].job # commit[q].job
        BY <2>2 DEF CommitsHold
      <3>4. QED
        BY <2>1, <3>1, <3>2, <3>3 DEF CommitsHold, Late
    <2>3. CASE ~(status[commit[q].job] = "ready" /\ commit[q].ctx /\ ~OthersActive(commit[q].job))
      <3>1. status' = status /\ commit' = [commit EXCEPT ![q] = NoCommit]
        BY <2>3 DEF CommitClaim, EndCommit
      <3>2. QED
        BY <3>1 DEF CommitsHold, Late
    <2>4. QED
      BY <2>2, <2>3
  <1>5. AppliedWhen'
    BY SMTT(40) DEF CommitClaim, Set, EndCommit, CreatesFresh, CommitsHold, Late, AppliedWhen
  <1>6. OneActive'
    BY DEF CommitClaim, Set, OthersActive, OneActive, Active
  <1>7. QED
    BY <1>1, <1>2, <1>3, <1>4, <1>5, <1>6

LEMMA ApplyKeeps ==
    ASSUME ImportTypeOK, JobsInv, DbErrors = FALSE, NEW q \in Requests, Apply(q)
    PROVE  JobsInv'
  <1> USE DEF JobsInv, ImportTypeOK, NoRun, NoCommit
  <1>1. RunsOwnTasks'
    BY DEF Apply, RunsOwnTasks
  <1>2. CreatesFresh'
    BY DEF Apply, CreatesFresh
  <1>3. PreviewsHeld'
    BY DEF Apply, PreviewsHeld
  <1>4. CommitsHold'
    BY DEF Apply, CommitsHold, Late
  <1>5. AppliedWhen'
    BY DEF Apply, CommitsHold, Late, AppliedWhen
  <1>6. OneActive'
    BY DEF Apply, OneActive, Active
  <1>7. QED
    BY <1>1, <1>2, <1>3, <1>4, <1>5, <1>6

LEMMA ApplyFailsKeeps ==
    ASSUME ImportTypeOK, JobsInv, DbErrors = FALSE, NEW q \in Requests, ApplyFails(q)
    PROVE  JobsInv'
  <1> USE DEF JobsInv, ImportTypeOK, NoRun, NoCommit
  <1>1. RunsOwnTasks'
    BY DEF ApplyFails, RunsOwnTasks
  <1>2. CreatesFresh'
    BY DEF ApplyFails, CreatesFresh
  <1>3. PreviewsHeld'
    BY DEF ApplyFails, PreviewsHeld
  <1>4. CommitsHold'
    BY DEF ApplyFails, CommitsHold, Late
  <1>5. AppliedWhen'
    BY DEF ApplyFails, Late, AppliedWhen
  <1>6. OneActive'
    BY DEF ApplyFails, OneActive, Active
  <1>7. QED
    BY <1>1, <1>2, <1>3, <1>4, <1>5, <1>6

LEMMA ReopenKeeps ==
    ASSUME ImportTypeOK, JobsInv, DbErrors = FALSE, NEW q \in Requests, Reopen(q)
    PROVE  JobsInv'
  <1> USE DEF JobsInv, ImportTypeOK, NoRun, NoCommit
  <1>1. RunsOwnTasks'
    BY DEF Reopen, Set, EndCommit, RunsOwnTasks, CommitsHold, Late
  <1>2. CreatesFresh'
    BY DEF Reopen, Set, EndCommit, CreatesFresh, CommitsHold, Late, AppliedWhen, RunsOwnTasks
  <1>3. PreviewsHeld'
    BY DEF Reopen, Set, PreviewsHeld
  <1>4. CommitsHold'
    BY DEF Reopen, Set, EndCommit, CommitsHold, Late
  <1>5. AppliedWhen'
    BY DEF Reopen, Set, EndCommit, RunsOwnTasks, CreatesFresh, CommitsHold, Late,
           AppliedWhen
  <1>6. OneActive'
    BY DEF Reopen, Set, CreatesFresh, OneActive, Active
  <1>7. QED
    BY <1>1, <1>2, <1>3, <1>4, <1>5, <1>6

LEMMA CompleteKeeps ==
    ASSUME ImportTypeOK, JobsInv, DbErrors = FALSE, NEW q \in Requests, Complete(q)
    PROVE  JobsInv'
  <1> USE DEF JobsInv, ImportTypeOK, NoRun, NoCommit
  <1>1. RunsOwnTasks'
    <2>1. commit[q] # NoCommit /\ commit[q].job \in Jobs /\ status[commit[q].job] = "committing"
      BY DEF Complete, CommitsHold, Late
    <2>2. \A j \in Jobs : status[j] = "processing" => status'[j] = "processing"
      BY <2>1 DEF Complete, Set
    <2>3. QED
      BY <2>2 DEF Complete, RunsOwnTasks
  <1>2. CreatesFresh'
    BY DEF Complete, Set, EndCommit, CreatesFresh, CommitsHold, Late, AppliedWhen, RunsOwnTasks
  <1>3. PreviewsHeld'
    BY DEF Complete, Set, EndCommit, PreviewsHeld, CommitsHold, Late, OneActive, Active
  <1>4. CommitsHold'
    BY DEF Complete, Set, EndCommit, CommitsHold, Late
  <1>5. AppliedWhen'
    BY DEF Complete, Set, EndCommit, RunsOwnTasks, CreatesFresh, PreviewsHeld, CommitsHold,
           Late, AppliedWhen, OneActive
  <1>6. OneActive'
    BY DEF Complete, Set, CreatesFresh, Late, OneActive, Active
  <1>7. QED
    BY <1>1, <1>2, <1>3, <1>4, <1>5, <1>6

LEMMA ClientGoneKeeps ==
    ASSUME ImportTypeOK, JobsInv, DbErrors = FALSE, NEW q \in Requests, ClientGone(q)
    PROVE  JobsInv'
  <1> USE DEF JobsInv, ImportTypeOK, NoRun, NoCommit
  <1>1. RunsOwnTasks'
    BY DEF ClientGone, RunsOwnTasks
  <1>2. CreatesFresh'
    BY DEF ClientGone, CreatesFresh
  <1>3. PreviewsHeld'
    BY DEF ClientGone, PreviewsHeld
  <1>4. CommitsHold'
    BY DEF ClientGone, CommitsHold, Late
  <1>5. AppliedWhen'
    BY DEF ClientGone, Late, AppliedWhen
  <1>6. OneActive'
    BY DEF ClientGone, OneActive, Active
  <1>7. QED
    BY <1>1, <1>2, <1>3, <1>4, <1>5, <1>6

LEMMA CommitDiesKeeps ==
    ASSUME ImportTypeOK, JobsInv, DbErrors = FALSE, NEW q \in Requests, CommitDies(q)
    PROVE  JobsInv'
  <1> USE DEF JobsInv, ImportTypeOK, NoRun, NoCommit
  <1>1. RunsOwnTasks'
    BY DEF CommitDies, RunsOwnTasks
  <1>2. CreatesFresh'
    BY DEF CommitDies, CreatesFresh
  <1>3. PreviewsHeld'
    BY DEF CommitDies, PreviewsHeld
  <1>4. CommitsHold'
    BY DEF CommitDies, EndCommit, CommitsHold, Late
  <1>5. AppliedWhen'
    BY DEF CommitDies, EndCommit, Late, AppliedWhen
  <1>6. OneActive'
    BY DEF CommitDies, OneActive, Active
  <1>7. QED
    BY <1>1, <1>2, <1>3, <1>4, <1>5, <1>6

(* What holds of the jobs and of the steps at work on them is kept by      *)
(* every step.                                                             *)
LEMMA JobsInvStep ==
    ASSUME DbErrors = FALSE
    PROVE  ImportTypeOK /\ JobsInv /\ [ImportNext]_importVars => JobsInv'
  <1> SUFFICES ASSUME ImportTypeOK, JobsInv, [ImportNext]_importVars PROVE JobsInv'
    OBVIOUS
  <1>1. ASSUME NEW j \in Jobs, Create(j) PROVE JobsInv'
    BY <1>1, SupersedeKeeps, InsertKeeps, RollbackKeeps, EnqueueKeeps, EnqueueFailsKeeps,
       CreateDiesKeeps DEF Create
  <1>2. ASSUME NEW w \in Workers, NEW j \in Jobs, Dequeue(w, j) PROVE JobsInv'
    BY <1>2, DequeueKeeps
  <1>3. ASSUME NEW w \in Workers, Process(w) \/ WorkerDies(w) PROVE JobsInv'
    BY <1>3, ClaimKeeps, FinishKeeps, AckKeeps, RetryKeeps, WorkerDiesKeeps DEF Process
  <1>4. ASSUME NEW q \in Requests, NEW j \in Jobs, CommitRead(q, j) PROVE JobsInv'
    BY <1>4, CommitReadKeeps
  <1>5. ASSUME NEW q \in Requests, CommitStep(q) PROVE JobsInv'
    BY <1>5, CommitClaimKeeps, ApplyKeeps, ApplyFailsKeeps, ReopenKeeps, CompleteKeeps,
       ClientGoneKeeps, CommitDiesKeeps DEF CommitStep
  <1>6. CASE UNCHANGED importVars
    BY <1>6
       DEF importVars, JobsInv, RunsOwnTasks, CreatesFresh, PreviewsHeld, CommitsHold, Late,
           AppliedWhen, OneActive, Active
  <1>7. QED
    BY <1>1, <1>2, <1>3, <1>4, <1>5, <1>6 DEF ImportNext

LEMMA JobsInvAlways ==
    ASSUME DbErrors = FALSE
    PROVE  ImportSpec => []JobsInv
  <1>1. ImportInit => JobsInv
    BY DEF ImportInit, JobsInv, RunsOwnTasks, CreatesFresh, PreviewsHeld, CommitsHold, Late,
           AppliedWhen, OneActive, Active, NoCreate
  <1>2. ImportTypeOK /\ JobsInv /\ [ImportNext]_importVars => JobsInv'
    BY JobsInvStep
  <1>3. QED
    BY <1>1, <1>2, ImportTypeCorrect, PTL DEF ImportSpec

(* However creates, retried tasks, dying workers and racing commits        *)
(* interleave, a user has one live import and one request writing it, and  *)
(* a preview's rows reach the list at most once.                           *)
THEOREM ImportsAreExclusive ==
    ASSUME DbErrors = FALSE
    PROVE  ImportSpec => []ImportsExclusive
  <1>1. ImportTypeOK /\ JobsInv => ImportsExclusive
    <2> SUFFICES ASSUME ImportTypeOK, JobsInv PROVE ImportsExclusive
      OBVIOUS
    <2>1. AppliedOnce
      BY DEF ImportTypeOK, JobsInv, AppliedWhen, AppliedOnce
    <2>2. ASSUME NEW q \in Requests, NEW p \in Requests,
                 commit[q].at \in {"apply", "complete", "reopen"},
                 commit[p].at \in {"apply", "complete", "reopen"},
                 Owner[commit[q].job] = Owner[commit[p].job]
          PROVE  q = p
      <3>1. Late(q) /\ Late(p)
        BY <2>2 DEF Late, NoCommit
      <3>2. commit[q].job \in Jobs /\ commit[p].job \in Jobs
        BY <3>1, CommitMoves DEF Late
      <3>3. Active(commit[q].job) /\ Active(commit[p].job)
        BY <3>1 DEF JobsInv, CommitsHold, Active
      <3>4. commit[q].job = commit[p].job
        BY <2>2, <3>2, <3>3 DEF JobsInv, OneActive
      <3>5. QED
        BY <3>1, <3>4 DEF JobsInv, CommitsHold
    <2>3. QED
      BY <2>1, <2>2 DEF ImportsExclusive, OneLiveImport, JobsInv, OneActive
  <1>2. QED
    BY <1>1, JobsInvAlways, ImportTypeCorrect, PTL
----------------------------------------------------------------------------
(* The refinement: what a step does to the outcomes.                       *)
LEMMA CreateOutcome ==
    ASSUME ImportTypeOK, JobsInv, NEW j \in Jobs, Create(j)
    PROVE  Outcomes!Next \/ UNCHANGED outcome
  <1> USE DEF JobsInv
  <1>1. CASE CreateInsert(j)
    <2>1. \A k \in create[j].mine : k \in Jobs /\ status[k] = "ready" /\ applied[k] = 0
      BY SMTT(40) DEF ImportTypeOK, PreviewsHeld, AppliedWhen
    <2>2. status[j] = "none" /\ applied[j] = 0
      BY <1>1 DEF CreateInsert, CreatesFresh, AppliedWhen
    <2>3. Outcomes!Drop(create[j].mine)
      BY <1>1, <2>1, <2>2 DEF CreateInsert, ImportTypeOK, Outcomes!Drop, outcome
    <2>4. QED
      BY <2>3 DEF ImportTypeOK, Outcomes!Next
  <1>2. CASE EnqueueFails(j)
    <2>1. status[j] = "pending" /\ applied[j] = 0 /\ applied' = applied
      BY <1>2 DEF EnqueueFails, CreatesFresh, AppliedWhen
    <2>2. CASE status' = [status EXCEPT ![j] = "failed"]
      <3>1. Outcomes!Drop({j})
        BY <2>1, <2>2 DEF ImportTypeOK, Outcomes!Drop, outcome
      <3>2. QED
        BY <3>1 DEF Outcomes!Next
    <2>3. CASE status' = status
      BY <2>1, <2>3 DEF outcome
    <2>4. QED
      BY <1>2, <2>2, <2>3 DEF EnqueueFails, Set
  <1>3. CASE ~CreateInsert(j) /\ ~EnqueueFails(j)
    BY <1>3 DEF Create, CreateSupersede, CreateRollback, Enqueue, CreateDies, outcome
  <1>4. QED
    BY <1>1, <1>2, <1>3

LEMMA WorkOutcome ==
    ASSUME ImportTypeOK, JobsInv, DbErrors = FALSE, NEW w \in Workers, Process(w) \/ WorkerDies(w)
    PROVE  Outcomes!Next \/ UNCHANGED outcome
  <1>1. run[w] # NoRun /\ applied' = applied
    BY DEF Process, Claim, Finish, Ack, Retry, WorkerDies, NoRun
  <1>2. run[w].job \in Jobs
    BY <1>1, RunMoves
  <1>3. CASE Finish(w) \/ Retry(w)
    <2>1. status[run[w].job] = "processing" /\ applied[run[w].job] = 0
      BY <1>1, <1>2, <1>3 DEF Finish, Retry, JobsInv, RunsOwnTasks, AppliedWhen
    <2>2. CASE status' = [status EXCEPT ![run[w].job] = "failed"]
      <3>1. Outcomes!Drop({run[w].job})
        BY <1>1, <1>2, <2>1, <2>2 DEF ImportTypeOK, Outcomes!Drop, outcome
      <3>2. QED
        BY <1>2, <3>1 DEF Outcomes!Next
    <2>3. CASE status' = [status EXCEPT ![run[w].job] = "ready"] \/ status' = status
      BY <1>1, <2>1, <2>3 DEF ImportTypeOK, outcome
    <2>4. QED
      BY <1>3, <2>2, <2>3 DEF Finish, Retry, Set
  <1>4. CASE Claim(w)
    <2>1. status' = [status EXCEPT ![run[w].job] = "processing"] \/ status' = status
      BY <1>4 DEF Claim, Set
    <2>2. status' = status \/ status[run[w].job] \in {"pending", "processing"}
      BY <1>4 DEF Claim
    <2>3. QED
      BY <1>1, <2>1, <2>2 DEF ImportTypeOK, outcome
  <1>5. CASE Ack(w) \/ WorkerDies(w)
    BY <1>1, <1>5 DEF Ack, WorkerDies, outcome
  <1>6. QED
    BY <1>3, <1>4, <1>5 DEF Process

LEMMA CommitOutcome ==
    ASSUME ImportTypeOK, JobsInv, NEW q \in Requests, CommitStep(q)
    PROVE  Outcomes!Next \/ UNCHANGED outcome
  <1>1. commit[q] # NoCommit
    BY DEF CommitStep, CommitClaim, Apply, ApplyFails, Reopen, Complete, ClientGone,
           CommitDies, NoCommit
  <1>2. commit[q].job \in Jobs
    BY <1>1, CommitMoves
  <1>3. CASE Apply(q)
    <2>1. status[commit[q].job] = "committing" /\ applied[commit[q].job] = 0
      BY <1>1, <1>2, <1>3 DEF Apply, JobsInv, CommitsHold, AppliedWhen, Late
    <2>2. Outcomes!Apply(commit[q].job)
      <3>1. status' = status /\ applied' = [applied EXCEPT ![commit[q].job] = @ + 1]
        BY <1>3 DEF Apply
      <3>2. applied' = [applied EXCEPT ![commit[q].job] = 1]
        BY <1>2, <2>1, <3>1 DEF ImportTypeOK
      <3>3. outcome' = [outcome EXCEPT ![commit[q].job] = "applied"]
        <4>1. \A k \in Jobs : applied'[k] = IF k = commit[q].job THEN 1 ELSE applied[k]
          BY <3>2 DEF ImportTypeOK
        <4>2. outcome' = [k \in Jobs |-> IF k = commit[q].job THEN "applied" ELSE outcome[k]]
          BY <3>1, <4>1 DEF outcome
        <4>3. QED
          BY <4>2 DEF outcome
      <3>4. outcome[commit[q].job] = "open"
        BY <1>2, <2>1 DEF outcome
      <3>5. QED
        BY <3>3, <3>4 DEF Outcomes!Apply
    <2>3. QED
      BY <1>2, <2>2 DEF Outcomes!Next
  <1>4. CASE CommitClaim(q)
    <2>1. /\ applied' = applied
          /\ \/ status' = status
             \/ /\ status[commit[q].job] = "ready"
                /\ status' = [status EXCEPT ![commit[q].job] = "committing"]
      BY <1>4 DEF CommitClaim, Set
    <2>2. QED
      BY <2>1 DEF ImportTypeOK, outcome
  <1>5. CASE Reopen(q) \/ Complete(q)
    <2>1. status[commit[q].job] = "committing" /\ applied' = applied
      BY <1>1, <1>5 DEF Reopen, Complete, JobsInv, CommitsHold, Late
    <2>2. \/ status' = status
          \/ \E s \in {"ready", "done"} : status' = [status EXCEPT ![commit[q].job] = s]
      BY <1>5 DEF Reopen, Complete, Set
    <2>3. QED
      BY <2>1, <2>2 DEF ImportTypeOK, outcome
  <1>6. CASE ApplyFails(q) \/ ClientGone(q) \/ CommitDies(q)
    BY <1>6 DEF ApplyFails, ClientGone, CommitDies, outcome
  <1>7. QED
    BY <1>3, <1>4, <1>5, <1>6 DEF CommitStep

(* Every preview is applied once or dropped, for good.                     *)
THEOREM ImportsRefineOutcomes ==
    ASSUME DbErrors = FALSE
    PROVE  ImportSpec => ImportOutcomes
  <1>1. ImportInit => Outcomes!Init
    BY DEF ImportInit, outcome, Outcomes!Init
  <1>2. ImportTypeOK /\ JobsInv /\ [ImportNext]_importVars => [Outcomes!Next]_outcome
    <2> SUFFICES ASSUME ImportTypeOK, JobsInv, [ImportNext]_importVars PROVE Outcomes!Next \/ UNCHANGED outcome
      OBVIOUS
    <2>1. ASSUME NEW w \in Workers, NEW j \in Jobs, Dequeue(w, j) PROVE UNCHANGED outcome
      BY <2>1 DEF Dequeue, outcome
    <2>2. ASSUME NEW q \in Requests, NEW j \in Jobs, CommitRead(q, j) PROVE UNCHANGED outcome
      BY <2>2 DEF CommitRead, outcome
    <2>3. CASE UNCHANGED importVars
      BY <2>3 DEF importVars, outcome
    <2>4. QED
      BY <2>1, <2>2, <2>3, CreateOutcome, WorkOutcome, CommitOutcome DEF ImportNext
  <1>3. QED
    BY <1>1, <1>2, JobsInvAlways, ImportTypeCorrect, PTL DEF ImportSpec, ImportOutcomes, Outcomes!Spec
=============================================================================
