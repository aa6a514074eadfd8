-------------------------------- MODULE Hub --------------------------------
(***************************************************************************)
(* The fan-out registry of internal/realtime/hub.go.  Every API instance   *)
(* runs one Hub per channel prefix: Redis delivers each published event to *)
(* every instance, the instance's receive goroutine routes it to the local *)
(* subscribers of that room, and a subscriber that has fallen behind loses *)
(* the event rather than holding up the others.                            *)
(*                                                                         *)
(* The module has no specification of its own: HubFeed drives it with the  *)
(* thread streams' events, PartyGateway instantiates it as the party bus.  *)
(***************************************************************************)
EXTENDS Naturals, Sequences, FiniteSets

CONSTANTS
    Instances,      \* API processes, each with its own Hub
    Rooms,          \* thread ids (or party ids, for the party bus)
    Subs,           \* identities a live reader can have
    InstanceOf,     \* the process each reader is connected to
    BufferCap,      \* subscriberBuffer (32 in the code)
    Presence        \* Hub.presence: TRUE for threads, FALSE for the party bus

ASSUME HubAssumption ==
    /\ InstanceOf \in [Subs -> Instances]
    /\ IsFiniteSet(Subs)
    /\ BufferCap \in Nat \ {0}
    /\ Presence \in BOOLEAN

VARIABLES
    wire,   \* wire[i]: what Redis has sent instance i and receive has not read
    rooms,  \* rooms[i][r]: instance i's subscribers of r (empty: no map entry)
    chan    \* chan[c]: the channel Subscribe made for reader c

hubVars == <<wire, rooms, chan>>

FreeChan == [state |-> "free", buf |-> <<>>]

HubInit ==
    /\ wire = [i \in Instances |-> <<>>]
    /\ rooms = [i \in Instances |-> [r \in Rooms |-> {}]]
    /\ chan = [c \in Subs |-> FreeChan]

----------------------------------------------------------------------------
(* Faults the properties must notice: a buffer without its bound, and one  *)
(* that is a slot short.                                                   *)
OfferUnbounded(buf, ev) == Append(buf, ev)

OfferOneShort(buf, ev) ==
    IF Len(buf) < BufferCap - 1 THEN Append(buf, ev) ELSE buf

(* A non-blocking send: the select's default branch drops the event.       *)
Offer(buf, ev) ==
    IF Len(buf) < BufferCap THEN Append(buf, ev) ELSE buf

(* dispatchLocked: offer ev to every subscriber in cs.                     *)
Dispatch(chans, cs, ev) ==
    [c \in Subs |->
        IF c \in cs THEN [chans[c] EXCEPT !.buf = Offer(@, ev)] ELSE chans[c]]

PresenceEvent(cs) == [name |-> "presence", n |-> Cardinality(cs)]

Message(r, ev) == [room |-> r, ev |-> ev]

(* Publish: Redis puts the event on every instance's subscription, in one  *)
(* order.  A Redis error is only logged and changes nothing.               *)
Publish(r, ev) ==
    /\ wire' = [i \in Instances |-> Append(wire[i], Message(r, ev))]
    /\ UNCHANGED <<rooms, chan>>

(* Faults the properties must notice: a send that waits for a slow reader, *)
(* and a receive loop that takes the newest message first.                 *)
ReceiveBlocking(i) ==
    /\ wire[i] # <<>>
    /\ LET m == Head(wire[i])
       IN  /\ \A c \in rooms[i][m.room] : Len(chan[c].buf) < BufferCap
           /\ chan' = Dispatch(chan, rooms[i][m.room], m.ev)
    /\ wire' = [wire EXCEPT ![i] = Tail(@)]
    /\ UNCHANGED rooms

ReceiveNewest(i) ==
    /\ wire[i] # <<>>
    /\ LET n == Len(wire[i])
           m == wire[i][n]
       IN  /\ wire' = [wire EXCEPT ![i] = SubSeq(@, 1, n - 1)]
           /\ chan' = Dispatch(chan, rooms[i][m.room], m.ev)
    /\ UNCHANGED rooms

(* receive and dispatch: one message off the subscription, to the room's   *)
(* local subscribers under the hub's lock.                                 *)
Receive(i) ==
    /\ wire[i] # <<>>
    /\ wire' = [wire EXCEPT ![i] = Tail(@)]
    /\ LET m == Head(wire[i])
       IN  chan' = Dispatch(chan, rooms[i][m.room], m.ev)
    /\ UNCHANGED rooms

(* Redis pub/sub is at-most-once: a dropped connection loses what was on   *)
(* its way to one instance.                                                *)
Lose(i) ==
    /\ wire[i] # <<>>
    /\ wire' = [wire EXCEPT ![i] = Tail(@)]
    /\ UNCHANGED <<rooms, chan>>

(* Subscribe: a fresh channel, registered under the lock; with presence on *)
(* everyone in the room, the newcomer included, gets the new count.        *)
Subscribe(c, r) ==
    LET i == InstanceOf[c]
        members == rooms[i][r] \cup {c}
        opened == [chan EXCEPT ![c] = [state |-> "open", buf |-> <<>>]]
    IN  /\ chan[c].state = "free"
        /\ rooms' = [rooms EXCEPT ![i][r] = members]
        /\ chan' = IF Presence THEN Dispatch(opened, members, PresenceEvent(members))
                               ELSE opened
        /\ UNCHANGED wire

(* Faults the properties must notice: a cleanup that closes the channel    *)
(* and leaves the registry entry, and one that tells nobody the new count. *)
CleanupLeavesEntry(c, r) ==
    /\ chan[c].state = "open"
    /\ chan' = [chan EXCEPT ![c].state = "closed"]
    /\ UNCHANGED <<wire, rooms>>

CleanupSilent(c, r) ==
    /\ chan[c].state = "open"
    /\ rooms' = [rooms EXCEPT ![InstanceOf[c]][r] = @ \ {c}]
    /\ chan' = [chan EXCEPT ![c].state = "closed"]
    /\ UNCHANGED wire

(* cleanup: out of the room, the remaining readers get the new count, and  *)
(* the channel is closed, all under the lock (once: a closed channel has   *)
(* no second cleanup).                                                     *)
Cleanup(c, r) ==
    LET i == InstanceOf[c]
        rest == rooms[i][r] \ {c}
        told == IF Presence THEN Dispatch(chan, rest, PresenceEvent(rest)) ELSE chan
    IN  /\ chan[c].state = "open"
        /\ rooms' = [rooms EXCEPT ![i][r] = rest]
        /\ chan' = [told EXCEPT ![c].state = "closed"]
        /\ UNCHANGED wire

(* The reader receives the oldest buffered event, also from a closed       *)
(* channel that still holds some.                                          *)
Take(c) ==
    /\ chan[c].buf # <<>>
    /\ chan' = [chan EXCEPT ![c].buf = Tail(@)]
    /\ UNCHANGED <<wire, rooms>>

(* Nobody reads a closed channel any more.                                 *)
Release(c) ==
    /\ chan[c].state = "closed"
    /\ chan' = [chan EXCEPT ![c] = FreeChan]
    /\ UNCHANGED <<wire, rooms>>

----------------------------------------------------------------------------
Registered(c, r) == c \in rooms[InstanceOf[c]][r]

(* A room only ever holds readers whose channel is open, each on its own   *)
(* instance and in one room: a send on a closed channel would panic the    *)
(* receive goroutine and with it every stream of the process.              *)
NoSendOnClosed ==
    /\ \A i \in Instances, r \in Rooms : \A c \in rooms[i][r] :
          InstanceOf[c] = i /\ chan[c].state = "open"
    /\ \A c \in Subs : \A r, q \in Rooms :
          Registered(c, r) /\ Registered(c, q) => r = q
    /\ \A c \in Subs : chan[c].state = "open" => \E r \in Rooms : Registered(c, r)
=============================================================================
