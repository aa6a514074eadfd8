------------------------------ MODULE HubFeed ------------------------------
(***************************************************************************)
(* Live thread streams over the Hub: readers open a server-sent-event      *)
(* stream on a thread (StreamThreadEvents), read what the hub offers them, *)
(* hang up and come back, while comments are published and the worker      *)
(* processes deliver them.  Events are numbered per room so that order,    *)
(* loss and duplication are visible.                                       *)
(***************************************************************************)
EXTENDS Hub

CONSTANTS
    NoRoom,     \* a stream that is not open
    MaxSent     \* bound: events published per room

ASSUME FeedAssumption == NoRoom \notin Rooms /\ MaxSent \in Nat

VARIABLES
    sent,   \* sent[r]: events published on r so far
    where,  \* where[c]: the threadID of c's running stream handler
    last,   \* last[c]: newest event number written to c's open response
    shown,  \* shown[c]: newest presence count written to c's open response
    missed  \* missed[c]: the kinds of event c's stream was denied (history variable)

vars == <<wire, rooms, chan, sent, where, last, shown, missed>>

Init ==
    /\ HubInit
    /\ sent = [r \in Rooms |-> 0]
    /\ where = [c \in Subs |-> NoRoom]
    /\ last = [c \in Subs |-> 0]
    /\ shown = [c \in Subs |-> 0]
    /\ missed = [c \in Subs |-> {}]

Comment(n) == [name |-> "event", n |-> n]

(* What the readers cs miss when ev is offered to each of them.  A count   *)
(* that fits supersedes one that did not.                                  *)
Missed(chans, cs, ev) ==
    [c \in Subs |->
        IF c \notin cs THEN missed[c]
        ELSE IF Len(chans[c].buf) = BufferCap THEN missed[c] \cup {ev.name}
        ELSE IF ev.name = "presence" THEN missed[c] \ {"presence"}
        ELSE missed[c]]

----------------------------------------------------------------------------
(* A comment or reaction is published on its thread.                       *)
Announce(r) ==
    /\ sent[r] < MaxSent
    /\ sent' = [sent EXCEPT ![r] = @ + 1]
    /\ Publish(r, Comment(sent[r] + 1))
    /\ UNCHANGED <<where, last, shown, missed>>

Deliver(i) ==
    /\ Receive(i)
    /\ LET m == Head(wire[i]) IN missed' = Missed(chan, rooms[i][m.room], m.ev)
    /\ UNCHANGED <<sent, where, last, shown>>

LoseConnection(i) ==
    /\ Lose(i)
    /\ LET m == Head(wire[i])
       IN  missed' = [c \in Subs |-> IF c \in rooms[i][m.room]
                                     THEN missed[c] \cup {m.ev.name} ELSE missed[c]]
    /\ UNCHANGED <<sent, where, last, shown>>

(* StreamThreadEvents begins: subscribe before the read loop.              *)
OpenStream(c, r) ==
    LET others == rooms[InstanceOf[c]][r]
    IN  /\ where[c] = NoRoom
        /\ Subscribe(c, r)
        /\ where' = [where EXCEPT ![c] = r]
        /\ missed' = IF Presence THEN Missed(chan, others, PresenceEvent(others)) ELSE missed
        /\ UNCHANGED <<sent, last, shown>>

(* The loop's receive case: one event is written to the response.          *)
ReadEvent(c) ==
    /\ chan[c].state = "open"
    /\ Take(c)
    /\ LET ev == Head(chan[c].buf)
       IN  IF ev.name = "event"
           THEN last' = [last EXCEPT ![c] = ev.n] /\ UNCHANGED shown
           ELSE shown' = [shown EXCEPT ![c] = ev.n] /\ UNCHANGED last
    /\ UNCHANGED <<sent, where, missed>>

(* The request context ends or a write fails: the deferred cleanup runs.   *)
CloseStream(c) ==
    /\ where[c] # NoRoom
    /\ Cleanup(c, where[c])
    /\ LET rest == rooms[InstanceOf[c]][where[c]] \ {c}
       IN  missed' = [(IF Presence THEN Missed(chan, rest, PresenceEvent(rest)) ELSE missed)
                         EXCEPT ![c] = {}]
    /\ where' = [where EXCEPT ![c] = NoRoom]
    /\ last' = [last EXCEPT ![c] = 0]
    /\ shown' = [shown EXCEPT ![c] = 0]
    /\ UNCHANGED sent

(* The handler is gone and its channel with it.                            *)
Forget(c) ==
    /\ Release(c)
    /\ UNCHANGED <<sent, where, last, shown, missed>>

Next ==
    \/ \E r \in Rooms : Announce(r)
    \/ \E i \in Instances : Deliver(i) \/ LoseConnection(i)
    \/ \E c \in Subs, r \in Rooms : OpenStream(c, r)
    \/ \E c \in Subs : ReadEvent(c) \/ CloseStream(c) \/ Forget(c)

(* Only the receive goroutine is owed progress: it never waits for anyone. *)
(* Readers may stay slow for ever.                                         *)
Spec == Init /\ [][Next]_vars /\ \A i \in Instances : WF_vars(Deliver(i))

----------------------------------------------------------------------------
Event == [name : {"event", "presence"}, n : Nat]
Envelope == [room : Rooms, ev : Event]
Channel == [state : {"free", "open", "closed"}, buf : Seq(Event)]

TypeOK ==
    /\ wire \in [Instances -> Seq(Envelope)]
    /\ rooms \in [Instances -> [Rooms -> SUBSET Subs]]
    /\ chan \in [Subs -> Channel]
    /\ \A c \in Subs : Len(chan[c].buf) <= BufferCap
    /\ sent \in [Rooms -> Nat]
    /\ where \in [Subs -> Rooms \cup {NoRoom}]
    /\ last \in [Subs -> Nat]
    /\ shown \in [Subs -> Nat]
    /\ missed \in [Subs -> SUBSET {"event", "presence"}]

(* A reader that was denied nothing has, or has on its way, the comments   *)
(* of its room from the first one it saw to the newest published, without  *)
(* a gap: only a full buffer or a lost Redis connection makes a stream     *)
(* incomplete, never an interleaving of Subscribe, dispatch and cleanup.   *)
(* (That they come in this order, and once, is FeedSpec.)                  *)
Numbers(buf) == {buf[k].n : k \in {l \in 1..Len(buf) : buf[l].name = "event"}}
OnWire(w, r) == {w[k].ev.n : k \in {l \in 1..Len(w) : w[l].room = r}}
Pending(c) == Numbers(chan[c].buf) \cup OnWire(wire[InstanceOf[c]], where[c])

(* The numbers in S run up to r's newest, and start after the one shown.   *)
RunsUpTo(S, r, n) ==
    \E first \in 1..sent[r] + 1 : S = first..sent[r] /\ (n # 0 => first = n + 1)

NoGapUnlessMissed ==
    \A c \in Subs : where[c] # NoRoom /\ "event" \notin missed[c] =>
        RunsUpTo(Pending(c), where[c], last[c])

(* A reader whose newest presence event fitted shows the number of readers *)
(* its instance really serves on the thread, or has it in its buffer.      *)
Counts(buf) == {k \in 1..Len(buf) : buf[k].name = "presence"}

ComesToShow(buf, now, n) ==
    IF Counts(buf) = {} THEN now = n
    ELSE \E k \in Counts(buf) : buf[k].n = n /\ \A l \in Counts(buf) : l <= k

PresenceAccurate ==
    \A c \in Subs : Presence /\ where[c] # NoRoom /\ "presence" \notin missed[c] =>
        ComesToShow(chan[c].buf, shown[c], Cardinality(rooms[InstanceOf[c]][where[c]]))

(* What a stream does not say has a reason: a gap was a missed event, and  *)
(* a wrong count a missed count.                                           *)
StreamHonest == NoGapUnlessMissed /\ PresenceAccurate

(* Every published event is eventually routed on every instance, however   *)
(* many readers have stopped reading: a slow one cannot stall fan-out.     *)
FanOutNeverStalls == \A i \in Instances : wire[i] # <<>> ~> wire[i] = <<>>

(* Order, no duplicates and no foreign events: the stream as a reader sees *)
(* it is a LossyFeed.                                                      *)
Feed == INSTANCE LossyFeed WITH Rooms <- Rooms, Subs <- Subs, NoRoom <- NoRoom,
                               sent <- sent, where <- where, last <- last
FeedSpec == Feed!Spec
=============================================================================
