----------------------------- MODULE PartyRoom -----------------------------
(***************************************************************************)
(* The room on the screen: the roster, the shared clock with the host's    *)
(* transport and the chat's scroll (party-client.tsx, live-chat.tsx and    *)
(* the part of lib/parties.ts they show).  The socket is up; PartyClient   *)
(* has its loss and its return, PartyClock the passing of time.            *)
(***************************************************************************)
EXTENDS Integers, Sequences, FiniteSets, SequencesExt

CONSTANTS
    People,     \* the members, in the order of their names
    Host,       \* the one who opened the party
    Length,     \* the episode's length, in skips of ten seconds
    Readouts,   \* positions in seconds whose readout is typed back
    MaxOut,     \* frames on their way to the page (bound)
    MaxMoves    \* comings, goings, orders and lines (bound)

(* What is assumed of them.                                                *)
RoomAssumption == People \subseteq Nat /\ Host \in People /\ Length \in Nat
               /\ Readouts \subseteq Nat /\ MaxOut \in Nat /\ MaxMoves \in Nat

VARIABLES
    viewer,     \* who is looking
    present,    \* the members the gateway holds
    clock,      \* the stored clock
    join,       \* the viewer's join, with the snapshot it holds
    out,        \* frames on their way to the page
    room,       \* the page's room: known, members, anchor
    orders,     \* the host's orders on their way to the gateway
    chat,       \* lines drawn, how many of them as saved, the last one in
                \* view, whether it is pinned and whether by sending
    composer,   \* a text is typed; the switch that saves lines is on
    comments,   \* lines saved to the episode's thread
    crossed,    \* history: whose frames overtook the snapshot that will
                \* replace them
    moves       \* moves so far

roomVars == <<viewer, present, clock, join, out, room, orders, chat, composer,
              comments, crossed, moves>>

Clock(p, on) == [at |-> p, playing |-> on]
Joined(p) == [op |-> "member.joined", who |-> p]
Left(p) == [op |-> "member.left", who |-> p]
Ticked(c) == [op |-> "clock", clock |-> c]
Line(saved) == [op |-> "chat", saved |-> saved]
State(s) == [op |-> "state", members |-> s.members, clock |-> s.clock]
Order(op, p) == [op |-> op, at |-> p]
Nobody == [who |-> {}, clock |-> FALSE]

Init ==
    /\ viewer \in People /\ present = {viewer, Host} /\ clock = Clock(0, FALSE)
    /\ join = [at |-> "subscribed", members |-> {}, clock |-> Clock(0, FALSE)]
    /\ out = <<>> /\ orders = <<>>
    /\ room = [known |-> FALSE, members |-> <<>>, anchor |-> Clock(0, FALSE)]
    /\ chat = [drawn |-> 0, saved |-> 0, inView |-> 0, pinned |-> TRUE, bySending |-> FALSE]
    /\ composer \in [typed : {FALSE}, persist : BOOLEAN] /\ comments = 0
    /\ crossed = Nobody /\ moves = 0

-----------------------------------------------------------------------------
(* sortMembers: the host first, once it is known who that is, then by name.*)
SortMembers(members, known) ==
    SortSeq(members, LAMBDA a, b : \/ known /\ a = Host /\ b # Host
                                   \/ (known => b # Host) /\ a < b)

(* A fault RoomShowsRoom must notice: a member announced twice is added    *)
(* twice.                                                                  *)
UpsertAppends(members, p) == Append(members, p)

Upsert(members, p) == IF p \in ToSet(members) THEN members ELSE Append(members, p)

(* applyFrame, on what the page draws.                                     *)
Fold(r, f) ==
    CASE f.op = "state" ->
             [known |-> TRUE, anchor |-> f.clock,
              members |-> SortMembers(SetToSeq(f.members), TRUE)]
      [] f.op = "member.joined" ->
             [r EXCEPT !.members = SortMembers(Upsert(@, f.who), r.known)]
      [] f.op = "member.left" -> [r EXCEPT !.members = SelectSeq(@, LAMBDA p : p # f.who)]
      [] f.op = "clock" -> [r EXCEPT !.anchor = f.clock]
      [] OTHER -> r

(* The roster, and presenceLabel over it.                                  *)
Label(members) ==
    CASE members = <<>> -> "nobody"
      [] members = <<viewer>> -> "just you"
      [] OTHER -> "some"
Roster(r) == [rows |-> r.members, label |-> Label(r.members)]

(* formatClock, as the numbers between the colons, and parseClockInput of  *)
(* them: at most two digits each, the later ones below sixty.              *)
Readout(s) ==
    IF s >= 3600 THEN <<s \div 3600, (s % 3600) \div 60, s % 60>> ELSE <<s \div 60, s % 60>>
SharedClock(c) == [readout |-> Readout(10 * c.at), of |-> Readout(10 * Length),
                   playing |-> c.playing]
NoTime == -1
ParseInput(parts) ==
    IF /\ \A k \in 1 .. Len(parts) : parts[k] < 100
       /\ \A k \in 2 .. Len(parts) : parts[k] < 60
    THEN FoldLeft(LAMBDA acc, n : acc * 60 + n, 0, parts) ELSE NoTime

-----------------------------------------------------------------------------
(* The gateway.                                                            *)

Move == moves < MaxMoves /\ moves' = moves + 1

(* A published frame reaches the page ahead of a state frame that is not   *)
(* sent yet, whose snapshot may be older.                                  *)
Hears(f, who) ==
    /\ Len(out) < MaxOut /\ out' = Append(out, f)
    /\ crossed' = IF join.at # "held" THEN crossed
                  ELSE [who |-> crossed.who \cup who, clock |-> crossed.clock \/ who = {}]

ComeOrGo(p) ==
    /\ p # viewer /\ Move
    /\ IF p \in present THEN present' = present \ {p} /\ Hears(Left(p), {p})
       ELSE present' = present \cup {p} /\ Hears(Joined(p), {p})
    /\ UNCHANGED <<viewer, clock, join, room, orders, chat, composer, comments>>

ReadSnapshot ==
    /\ join.at = "subscribed"
    /\ join' = [at |-> "held", members |-> present, clock |-> clock]
    /\ UNCHANGED <<viewer, present, clock, out, room, orders, chat, composer, comments, crossed, moves>>

SendState ==
    /\ join.at = "held" /\ Len(out) < MaxOut
    /\ out' = Append(out, State(join)) /\ join' = [join EXCEPT !.at = "in"]
    /\ UNCHANGED <<viewer, present, clock, room, orders, chat, composer, comments, crossed, moves>>

(* play and pause keep the position, seek clamps the one it is given; a    *)
(* clock at the end of the episode does not run.                           *)
Ordered(c, order) ==
    CASE order.op = "play" -> Clock(c.at, c.at < Length)
      [] order.op = "pause" -> Clock(c.at, FALSE)
      [] OTHER -> IF order.at >= Length THEN Clock(Length, FALSE)
                  ELSE Clock(order.at, c.playing)

Obey ==
    /\ orders # <<>>
    /\ clock' = Ordered(clock, Head(orders)) /\ orders' = Tail(orders)
    /\ Hears(Ticked(clock'), {})
    /\ UNCHANGED <<viewer, present, join, room, chat, composer, comments, moves>>

(* Another member's host runs the clock from a page of its own.            *)
HostOrders ==
    /\ viewer # Host /\ Move
    /\ \E order \in {Order("play", 0), Order("pause", 0), Order("seek", Length)} :
         clock' = Ordered(clock, order)
    /\ Hears(Ticked(clock'), {})
    /\ UNCHANGED <<viewer, present, join, room, orders, chat, composer, comments>>

(* publishMessage: a line whose switch was on is saved first, and says so  *)
(* when that worked.                                                       *)
Publish(persist) ==
    /\ Len(out) < MaxOut
    /\ \E saved \in {FALSE, persist} :
         out' = Append(out, Line(saved)) /\ comments' = comments + (IF saved THEN 1 ELSE 0)

(* The sync, every thirty seconds; here one that finds the socket quiet.   *)
Sync ==
    /\ join.at = "in" /\ out = <<>> /\ room.anchor # clock
    /\ out' = <<Ticked(clock)>> /\ crossed' = [crossed EXCEPT !.clock = FALSE]
    /\ UNCHANGED <<viewer, present, clock, join, room, orders, chat, composer, comments, moves>>

SayElsewhere ==
    /\ Move /\ \E persist \in BOOLEAN : Publish(persist)
    /\ UNCHANGED <<viewer, present, clock, join, room, orders, chat, composer, crossed>>

-----------------------------------------------------------------------------
(* The page.                                                               *)

(* The stream scrolls to a line it draws while the reader is at the end.   *)
ChatLine(f) ==
    [chat EXCEPT !.drawn = @ + 1, !.saved = @ + (IF f.saved THEN 1 ELSE 0),
                 !.inView = IF chat.pinned THEN chat.drawn + 1 ELSE @, !.bySending = FALSE]

Receive ==
    /\ out # <<>> /\ out' = Tail(out) /\ room' = Fold(room, Head(out))
    /\ chat' = IF Head(out).op = "chat" THEN ChatLine(Head(out)) ELSE chat
    /\ UNCHANGED <<viewer, present, clock, join, orders, composer, comments, crossed, moves>>

(* SharedClock's buttons, for the host: each orders what the page shows,   *)
(* a jump where it is told to.                                             *)
Press ==
    /\ room.known /\ viewer = Host /\ Move
    /\ \E order \in {Order(IF room.anchor.playing THEN "pause" ELSE "play", 0),
                     Order("seek", IF room.anchor.at = 0 THEN 0 ELSE room.anchor.at - 1),
                     Order("seek", room.anchor.at + 1), Order("seek", Length + 1)} :
         orders' = Append(orders, order)
    /\ UNCHANGED <<viewer, present, clock, join, out, room, chat, composer, comments, crossed>>

Scroll ==
    /\ \E n \in 0 .. chat.drawn :
         chat' = [chat EXCEPT !.inView = n, !.pinned = n = chat.drawn, !.bySending = FALSE]
    /\ UNCHANGED <<viewer, present, clock, join, out, room, orders, composer, comments,
                   crossed, moves>>

Type ==
    /\ room.known /\ ~composer.typed /\ composer' = [composer EXCEPT !.typed = TRUE]
    /\ UNCHANGED <<viewer, present, clock, join, out, room, orders, chat, comments, crossed,
                   moves>>

TogglePersist ==
    /\ Move /\ composer' = [composer EXCEPT !.persist = ~@]
    /\ UNCHANGED <<viewer, present, clock, join, out, room, orders, chat, comments, crossed>>

(* Sending and reacting pin the end, which comes into view with the next   *)
(* line: the sender's own, unless it bounces.                              *)
Speak ==
    /\ room.known /\ Move
    /\ chat' = [chat EXCEPT !.pinned = TRUE, !.bySending = TRUE]
    /\ Publish(composer.persist) \/ UNCHANGED <<out, comments>>
    /\ UNCHANGED <<viewer, present, clock, join, room, orders, crossed>>

Send == composer.typed /\ composer' = [composer EXCEPT !.typed = FALSE] /\ Speak

React == Speak /\ UNCHANGED composer

Next ==
    \/ \E p \in People : ComeOrGo(p)
    \/ ReadSnapshot \/ SendState \/ Obey \/ HostOrders \/ Sync \/ SayElsewhere
    \/ Receive \/ Press \/ Scroll \/ Type \/ TogglePersist \/ Send \/ React

Spec == Init /\ [][Next]_roomVars

-----------------------------------------------------------------------------
(* Every variable has its type.                                            *)
TypeOK ==
    /\ viewer \in People /\ present \subseteq People /\ clock.at \in 0 .. Length
    /\ room.anchor.at \in 0 .. Length /\ ToSet(room.members) \subseteq People
    /\ chat.inView <= chat.drawn /\ Len(out) <= MaxOut
    /\ composer \in [typed : BOOLEAN, persist : BOOLEAN] /\ comments \in Nat

(* Once everything sent has been read, the roster is the members who are   *)
(* present and the clock is the stored one, except what changed while the  *)
(* join held an older snapshot, and as many lines are drawn as saved as    *)
(* were saved; a member announced twice is listed once, the host first,    *)
(* and "Just you" is said to the viewer alone.  The end of the chat stays  *)
(* in view of a reader who is there.  Any readout below a hundred hours    *)
(* can be typed back.                                                      *)
RoomShowsRoom ==
    /\ Cardinality(ToSet(room.members)) = Len(room.members)
    /\ room.known /\ Host \in ToSet(room.members) => room.members[1] = Host
    /\ room.known /\ out = <<>> /\ join.at = "in" =>
         /\ \A p \in People \ crossed.who : p \in ToSet(room.members) <=> p \in present
         /\ ~crossed.clock => SharedClock(room.anchor) = SharedClock(clock)
         /\ crossed = Nobody => (Roster(room).label = "just you" <=> present = {viewer})
    /\ out = <<>> => chat.saved = comments
    /\ chat.pinned /\ ~chat.bySending => chat.inView = chat.drawn
    /\ join.at = "subscribed" =>
         \A s \in Readouts : ParseInput(Readout(s)) = IF s < 360000 THEN s ELSE NoTime
=============================================================================
