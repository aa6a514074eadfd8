---------------------------- MODULE PartyGateway ----------------------------
(***************************************************************************)
(* The watch-party gateway (internal/realtime/party.go, close.go): one     *)
(* session per WebSocket, whose read loop handles a frame at a time, a     *)
(* forward goroutine per join relaying the room's bus, a detached leave    *)
(* goroutine after party.closed, and presence kept in a Redis sorted set   *)
(* that joins, heartbeats and leaves update in several commands.  The bus  *)
(* is the Hub with presence events off.                                    *)
(*                                                                         *)
(* Left out: chat, reactions, the shared clock and the sync loop, which    *)
(* share no state with membership, and who may see a room (canView).       *)
(***************************************************************************)
EXTENDS Hub

CONSTANTS
    Users, Sessions, UserOf,
    NoParty,        \* session.partyID = 0
    MaxJoins,       \* bound: join frames one socket sends
    MaxCloses,      \* bound: times a room's row is closed or closed again
    WireCap,        \* bound: published events Redis has not delivered yet
    Ages,           \* heartbeats may stay away for presenceTTL and longer
    Crashes,        \* an API process may die
    RedisFails      \* what may fail: a touch, a leave's ZREM, the close pipeline

ASSUME GatewayAssumption ==
    /\ UserOf \in [Sessions -> Users]
    /\ NoParty \notin Rooms
    /\ {MaxJoins, MaxCloses, WireCap} \subseteq Nat
    /\ Ages \in BOOLEAN /\ Crashes \in BOOLEAN
    /\ RedisFails \subseteq {"touch", "leave", "close"}
    /\ Subs = Sessions \X (1..MaxJoins)
    /\ \A s \in Sessions : \A j, k \in 1..MaxJoins : InstanceOf[<<s, j>>] = InstanceOf[<<s, k>>]
    /\ Presence = FALSE

VARIABLES
    row,        \* row[p]: closed_at of the party's row
    closes,     \* closes[p]: how often the row has been closed
    closing,    \* closing[p]: a CloseParty call is about to run
    present,    \* present[p][u]: age of u's score in the presence set
    sess,       \* sess[s]: the session struct
    job,        \* job[s]: the join or heartbeat the read loop is in
    leaver,     \* leaver[s][j]: the leave run by the read loop (j = 0) or by forward j
    fwd,        \* fwd[c]: the forward goroutine of one join
    view        \* view[s]: the frames written so far, as web/lib/parties.ts folds them

partyVars == <<row, closes, closing, present>>
sessVars == <<sess, job, leaver, fwd, view>>
vars == <<wire, rooms, chan, row, closes, closing, present, sess, job, leaver, fwd, view>>

Joined(u) == [name |-> "member.joined", who |-> u]
Left(u) == [name |-> "member.left", who |-> u]
Closed == [name |-> "party.closed"]

NoJob == [at |-> "idle"]
NoLeave == [at |-> "none"]
LeaveCalled == [at |-> "take"]

Init ==
    /\ HubInit
    /\ row = [p \in Rooms |-> "open"]
    /\ closes = [p \in Rooms |-> 0]
    /\ closing = [p \in Rooms |-> FALSE]
    /\ present = [p \in Rooms |-> [u \in Users |-> "absent"]]
    /\ sess = [s \in Sessions |-> [state |-> "up", party |-> NoParty, joins |-> 0]]
    /\ job = [s \in Sessions |-> NoJob]
    /\ leaver = [s \in Sessions |-> [j \in 0..MaxJoins |-> NoLeave]]
    /\ fwd = [c \in Subs |-> "none"]
    /\ view = [s \in Sessions |-> [phase |-> "connecting", others |-> {}]]

(* Publish is best effort: when Redis fails the event is logged and lost.  *)
(* The model takes a wire at its bound for such a failure.                 *)
WireFull == \E i \in Instances : Len(wire[i]) = WireCap

Broadcast(p, ev) == IF WireFull THEN UNCHANGED hubVars ELSE Publish(p, ev)

Present(p) == {u \in Users : present[p][u] # "absent"}
Stale(p) == {u \in Users : present[p][u] = "stale"}

Absent(p, us) ==
    present' = [present EXCEPT ![p] = [u \in Users |-> IF u \in us THEN "absent" ELSE @[u]]]

(* A fault SessionCoherent must notice: a join that does not leave first.  *)
LeaveByLoopSkipped(s) == UNCHANGED leaver

(* s.leave called by the read loop: outside a room it returns at once.     *)
LeaveByLoop(s) ==
    leaver' = IF sess[s].party = NoParty THEN leaver ELSE [leaver EXCEPT ![s][0] = LeaveCalled]

(* The read loop is between two frames.                                    *)
Reading(s) == sess[s].state = "up" /\ job[s].at = "idle" /\ leaver[s][0].at = "none"

----------------------------------------------------------------------------
(* leave, in the read loop's goroutine (a = 0) or the one forward a        *)
(* started.  It takes room and cleanup out of the session under s.mu and   *)
(* runs the cleanup after the unlock: in between, another leave returns at *)
(* once and the read loop may subscribe anew, with this channel still open.*)
LeaveNothing(s, a) ==
    /\ leaver[s][a].at = "take"
    /\ sess[s].party = NoParty
    /\ leaver' = [leaver EXCEPT ![s][a] = NoLeave]
    /\ UNCHANGED <<hubVars, partyVars, sess, job, fwd, view>>

(* A fault TypeOK must notice: the room is read from the zeroed session.   *)
LeaveTakeTooLate(s, a) ==
    /\ leaver[s][a].at = "take"
    /\ sess[s].party # NoParty
    /\ sess' = [sess EXCEPT ![s].party = NoParty]
    /\ leaver' = [leaver EXCEPT ![s][a] =
                     [at |-> "cleanup", party |-> sess'[s].party, join |-> sess[s].joins]]
    /\ UNCHANGED <<hubVars, partyVars, job, fwd, view>>

LeaveTake(s, a) ==
    /\ leaver[s][a].at = "take"
    /\ sess[s].party # NoParty
    /\ sess' = [sess EXCEPT ![s].party = NoParty]
    /\ leaver' = [leaver EXCEPT ![s][a] =
                     [at |-> "cleanup", party |-> sess[s].party, join |-> sess[s].joins]]
    /\ UNCHANGED <<hubVars, partyVars, job, fwd, view>>

(* The closure it took closes the channel of the join that made it.        *)
LeaveCleanup(s, a) ==
    LET l == leaver[s][a]
    IN  /\ l.at = "cleanup"
        /\ Cleanup(<<s, l.join>>, l.party)
        /\ leaver' = [leaver EXCEPT ![s][a] = [at |-> "zrem", party |-> l.party]]
        /\ UNCHANGED <<partyVars, sess, job, fwd, view>>

(* A fault NoGhosts must notice: leave announces without the ZREM.         *)
LeaveRemoveForgets(s, a) ==
    /\ leaver[s][a].at = "zrem"
    /\ leaver' = [leaver EXCEPT ![s][a] = [@ EXCEPT !.at = "publish"]]
    /\ UNCHANGED <<hubVars, partyVars, sess, job, fwd, view>>

LeaveRemove(s, a) ==
    LET p == leaver[s][a].party
        removed == UserOf[s] \in Present(p)
    IN  /\ leaver[s][a].at = "zrem"
        /\ Absent(p, {UserOf[s]})
        /\ leaver' = [leaver EXCEPT ![s][a] =
                         IF removed THEN [at |-> "publish", party |-> p] ELSE NoLeave]
        /\ UNCHANGED <<hubVars, row, closes, closing, sess, job, fwd, view>>

LeaveRemoveFails(s, a) ==
    /\ "leave" \in RedisFails
    /\ leaver[s][a].at = "zrem"
    /\ leaver' = [leaver EXCEPT ![s][a] = NoLeave]
    /\ UNCHANGED <<hubVars, partyVars, sess, job, fwd, view>>

LeavePublish(s, a) ==
    /\ leaver[s][a].at = "publish"
    /\ Broadcast(leaver[s][a].party, Left(UserOf[s]))
    /\ leaver' = [leaver EXCEPT ![s][a] = NoLeave]
    /\ UNCHANGED <<partyVars, sess, job, fwd, view>>

(* A leave frame, and the end of the socket: the deferred teardown.        *)
LeaveFrame(s) ==
    /\ Reading(s)
    /\ sess[s].party # NoParty
    /\ LeaveByLoop(s)
    /\ UNCHANGED <<hubVars, partyVars, sess, job, fwd, view>>

Hangup(s) ==
    /\ Reading(s)
    /\ sess' = [sess EXCEPT ![s].state = "gone"]
    /\ LeaveByLoop(s)
    /\ UNCHANGED <<hubVars, partyVars, job, fwd, view>>

----------------------------------------------------------------------------
(* join: the gate reads the row; a refusal is final for the client.        *)
JoinRefused(s, p) ==
    /\ Reading(s)
    /\ row[p] = "closed"
    /\ view' = [view EXCEPT ![s].phase = "closed"]
    /\ UNCHANGED <<hubVars, partyVars, sess, job, leaver, fwd>>

JoinGate(s, p) ==
    /\ Reading(s)
    /\ sess[s].joins < MaxJoins
    /\ row[p] = "open"
    /\ job' = [job EXCEPT ![s] = [at |-> "subscribe", kind |-> "join", party |-> p,
                                  added |-> FALSE, stale |-> {}, ids |-> {}]]
    /\ LeaveByLoop(s)
    /\ UNCHANGED <<hubVars, partyVars, sess, fwd, view>>

(* The session enters the room and starts its forward goroutine.           *)
JoinSubscribe(s) ==
    LET c == <<s, sess[s].joins + 1>>
    IN  /\ job[s].at = "subscribe"
        /\ leaver[s][0].at = "none"
        /\ Subscribe(c, job[s].party)
        /\ sess' = [sess EXCEPT ![s].party = job[s].party, ![s].joins = @ + 1]
        /\ fwd' = [fwd EXCEPT ![c] = "run"]
        /\ job' = [job EXCEPT ![s].at = "touch"]
        /\ UNCHANGED <<partyVars, leaver, view>>

(* A heartbeat frame reads the room under the session's lock and then      *)
(* works on it without.                                                    *)
Heartbeat(s) ==
    /\ Reading(s)
    /\ sess[s].party # NoParty
    /\ job' = [job EXCEPT ![s] = [at |-> "touch", kind |-> "beat", party |-> sess[s].party,
                                  added |-> FALSE, stale |-> {}, ids |-> {}]]
    /\ UNCHANGED <<hubVars, partyVars, sess, leaver, fwd, view>>

(* What follows touchPresence: the members for the state frame, or the     *)
(* announcement of a member that had been swept.                           *)
AfterTouch(j) ==
    IF j.kind = "join" THEN [j EXCEPT !.at = "ids"]
    ELSE IF j.added THEN [j EXCEPT !.at = "announce"] ELSE NoJob

(* Faults the properties must notice: no scan for stale members, and a     *)
(* ZADD that only refreshes an entry still there.                          *)
TouchNoScan(s) ==
    /\ job[s].at = "touch"
    /\ present' = [present EXCEPT ![job[s].party][UserOf[s]] = "fresh"]
    /\ job' = [job EXCEPT ![s] = AfterTouch([@ EXCEPT
                   !.added = UserOf[s] \notin Present(job[s].party)])]
    /\ UNCHANGED <<hubVars, row, closes, closing, sess, leaver, fwd, view>>

TouchRefreshes(s) ==
    LET j == job[s]
        stale == Stale(j.party) \ {UserOf[s]}
    IN  /\ j.at = "touch"
        /\ present' = [present EXCEPT ![j.party][UserOf[s]] =
                          IF j.kind = "beat" /\ @ = "absent" THEN @ ELSE "fresh"]
        /\ job' = [job EXCEPT ![s] = IF stale = {} THEN AfterTouch(j)
                                     ELSE [j EXCEPT !.stale = stale, !.at = "drop"]]
        /\ UNCHANGED <<hubVars, row, closes, closing, sess, leaver, fwd, view>>

(* touchPresence: ZADD, and the scan for members not seen for presenceTTL. *)
Touch(s) ==
    LET j == job[s]
        stale == Stale(j.party) \ {UserOf[s]}
        touched == [j EXCEPT !.added = UserOf[s] \notin Present(j.party), !.stale = stale]
    IN  /\ j.at = "touch"
        /\ present' = [present EXCEPT ![j.party][UserOf[s]] = "fresh"]
        /\ job' = [job EXCEPT ![s] = IF stale = {} THEN AfterTouch(touched)
                                     ELSE [touched EXCEPT !.at = "drop"]]
        /\ UNCHANGED <<hubVars, row, closes, closing, sess, leaver, fwd, view>>

(* A failed touchPresence, before the ZADD took effect or after, in its    *)
(* ZREM or its last ZRANGE: a heartbeat gives up, a join shows no members. *)
GiveUp(j) == IF j.kind = "join" THEN [j EXCEPT !.at = "state", !.stale = {}] ELSE NoJob

TouchFails(s) ==
    /\ "touch" \in RedisFails
    /\ job[s].at = "touch"
    /\ \/ UNCHANGED present /\ job' = [job EXCEPT ![s] = GiveUp(@)]
       \/ /\ present' = [present EXCEPT ![job[s].party][UserOf[s]] = "fresh"]
          /\ job' = [job EXCEPT ![s] = GiveUp([@ EXCEPT
                         !.added = UserOf[s] \notin Present(job[s].party)])]
    /\ UNCHANGED <<hubVars, row, closes, closing, sess, leaver, fwd, view>>

TouchBreaks(s) ==
    /\ "touch" \in RedisFails
    /\ job[s].at \in {"drop", "ids"}
    /\ job' = [job EXCEPT ![s] = GiveUp(@)]
    /\ UNCHANGED <<hubVars, partyVars, sess, leaver, fwd, view>>

(* The scanned members are removed, whatever they did since the scan ...   *)
SweepRemove(s) ==
    /\ job[s].at = "drop"
    /\ Absent(job[s].party, job[s].stale)
    /\ job' = [job EXCEPT ![s].at = "tell"]
    /\ UNCHANGED <<hubVars, row, closes, closing, sess, leaver, fwd, view>>

(* ... and each is announced as gone.                                      *)
SweepPublish(s) ==
    /\ job[s].at = "tell"
    /\ \E u \in job[s].stale :
          LET rest == [job[s] EXCEPT !.stale = @ \ {u}]
          IN  /\ Broadcast(job[s].party, Left(u))
              /\ job' = [job EXCEPT ![s] = IF rest.stale = {} THEN AfterTouch(rest) ELSE rest]
    /\ UNCHANGED <<partyVars, sess, leaver, fwd, view>>

ReadMembers(s) ==
    /\ job[s].at = "ids"
    /\ job' = [job EXCEPT ![s] = [@ EXCEPT !.at = "state", !.ids = Present(job[s].party)]]
    /\ UNCHANGED <<hubVars, partyVars, sess, leaver, fwd, view>>

(* The state frame replaces the client's room.                             *)
SendState(s) ==
    /\ job[s].at = "state"
    /\ view' = [view EXCEPT ![s] = [phase |-> "live", others |-> job[s].ids \ {UserOf[s]}]]
    /\ job' = [job EXCEPT ![s] = IF @.added THEN [@ EXCEPT !.at = "announce"] ELSE NoJob]
    /\ UNCHANGED <<hubVars, partyVars, sess, leaver, fwd>>

AnnounceJoined(s) ==
    /\ job[s].at = "announce"
    /\ Broadcast(job[s].party, Joined(UserOf[s]))
    /\ job' = [job EXCEPT ![s] = NoJob]
    /\ UNCHANGED <<partyVars, sess, leaver, fwd, view>>

----------------------------------------------------------------------------
IsSelfEcho(s, ev) == ev # Closed /\ ev.who = UserOf[s]

(* applyFrame for the three bus events.                                    *)
Fold(v, ev) ==
    CASE ev.name = "member.joined" -> [v EXCEPT !.others = @ \cup {ev.who}]
      [] ev.name = "member.left"   -> [v EXCEPT !.others = @ \ {ev.who}]
      [] ev.name = "party.closed"  -> [v EXCEPT !.phase = "closed"]

(* A fault ClosedFrameDrops must notice: forward ends without the leave.   *)
ForwardForgets(s, j) ==
    LET c == <<s, j>>
        ev == Head(chan[c].buf)
    IN  /\ fwd[c] = "run"
        /\ Take(c)
        /\ view' = IF IsSelfEcho(s, ev) THEN view ELSE [view EXCEPT ![s] = Fold(@, ev)]
        /\ fwd' = IF ev = Closed THEN [fwd EXCEPT ![c] = "done"] ELSE fwd
        /\ UNCHANGED <<partyVars, sess, job, leaver>>

(* forward relays one event; after party.closed it starts a leave and ends. *)
Forward(s, j) ==
    LET c == <<s, j>>
        ev == Head(chan[c].buf)
    IN  /\ fwd[c] = "run"
        /\ Take(c)
        /\ view' = IF IsSelfEcho(s, ev) THEN view ELSE [view EXCEPT ![s] = Fold(@, ev)]
        /\ IF ev = Closed
           THEN /\ fwd' = [fwd EXCEPT ![c] = "done"]
                /\ leaver' = [leaver EXCEPT ![s][j] = LeaveCalled]
           ELSE UNCHANGED <<fwd, leaver>>
        /\ UNCHANGED <<partyVars, sess, job>>

(* A closed and drained channel ends the range loop.                       *)
ForwardEnds(c) ==
    /\ fwd[c] = "run"
    /\ chan[c].state = "closed" /\ chan[c].buf = <<>>
    /\ fwd' = [fwd EXCEPT ![c] = "done"]
    /\ UNCHANGED <<hubVars, partyVars, sess, job, leaver, view>>

Collect(c) ==
    /\ fwd[c] = "done"
    /\ Release(c)
    /\ UNCHANGED <<partyVars, sessVars>>

Deliver(i) == Receive(i) /\ UNCHANGED <<partyVars, sessVars>>

----------------------------------------------------------------------------
(* A fault ClosedFrameTruthful must notice: the room is told first.        *)
CloseRowLater(p) ==
    /\ closes[p] < MaxCloses
    /\ ~closing[p]
    /\ closes' = [closes EXCEPT ![p] = @ + 1]
    /\ closing' = [closing EXCEPT ![p] = TRUE]
    /\ UNCHANGED <<hubVars, row, present, sessVars>>

(* A host's close request, or the sweeper's, closes the row and goes on to *)
(* CloseParty; a repeated request repeats the second half.                 *)
CloseRow(p) ==
    /\ closes[p] < MaxCloses
    /\ ~closing[p]
    /\ row' = [row EXCEPT ![p] = "closed"]
    /\ closes' = [closes EXCEPT ![p] = @ + 1]
    /\ closing' = [closing EXCEPT ![p] = TRUE]
    /\ UNCHANGED <<hubVars, present, sessVars>>

(* The host opens another room: Create closes this row and tells nobody.   *)
Supersede(p) ==
    /\ closes[p] < MaxCloses
    /\ row[p] = "open"
    /\ row' = [row EXCEPT ![p] = "closed"]
    /\ closes' = [closes EXCEPT ![p] = @ + 1]
    /\ UNCHANGED <<hubVars, closing, present, sessVars>>

(* CloseParty: the broadcast and the DEL are one Redis transaction.        *)
CloseParty(p) ==
    /\ closing[p]
    /\ ~WireFull
    /\ closing' = [closing EXCEPT ![p] = FALSE]
    /\ Publish(p, Closed)
    /\ Absent(p, Users)
    /\ UNCHANGED <<row, closes, sessVars>>

ClosePartyFails(p) ==
    /\ "close" \in RedisFails
    /\ closing[p]
    /\ closing' = [closing EXCEPT ![p] = FALSE]
    /\ UNCHANGED <<hubVars, row, closes, present, sessVars>>

(* presenceTTL passes without a touch of u's score.                        *)
Age(p, u) ==
    /\ Ages
    /\ present[p][u] = "fresh"
    /\ present' = [present EXCEPT ![p][u] = "stale"]
    /\ UNCHANGED <<hubVars, row, closes, closing, sessVars>>

(* presenceKeyTTL passes without a touch of the set: Redis drops the key.  *)
Expire(p) ==
    /\ Present(p) # {}
    /\ Present(p) = Stale(p)
    /\ Absent(p, Users)
    /\ UNCHANGED <<hubVars, row, closes, closing, sessVars>>

(* An API process dies: its sockets end with no teardown, and what Redis   *)
(* had sent it is gone.                                                    *)
On(i) == {s \in Sessions : \E j \in 1..MaxJoins : InstanceOf[<<s, j>>] = i}

Crash(i) ==
    /\ Crashes
    /\ \E s \in On(i) : sess[s].state = "up"
    /\ wire' = [wire EXCEPT ![i] = <<>>]
    /\ rooms' = [rooms EXCEPT ![i] = [r \in Rooms |-> {}]]
    /\ chan' = [c \in Subs |-> IF c[1] \in On(i) THEN FreeChan ELSE chan[c]]
    /\ sess' = [s \in Sessions |-> IF s \in On(i)
                   THEN [sess[s] EXCEPT !.state = "crashed", !.party = NoParty] ELSE sess[s]]
    /\ job' = [s \in Sessions |-> IF s \in On(i) THEN NoJob ELSE job[s]]
    /\ leaver' = [s \in Sessions |-> [j \in 0..MaxJoins |->
                     IF s \in On(i) THEN NoLeave ELSE leaver[s][j]]]
    /\ fwd' = [c \in Subs |-> IF c[1] \in On(i) THEN "none" ELSE fwd[c]]
    /\ UNCHANGED <<partyVars, view>>

----------------------------------------------------------------------------
Leave(s, a) ==
    \/ LeaveNothing(s, a) \/ LeaveTake(s, a) \/ LeaveCleanup(s, a)
    \/ LeaveRemove(s, a) \/ LeaveRemoveFails(s, a) \/ LeavePublish(s, a)

(* What the read loop does once it has a frame.                            *)
Handle(s) ==
    \/ Leave(s, 0)
    \/ JoinSubscribe(s) \/ Touch(s) \/ TouchFails(s) \/ TouchBreaks(s)
    \/ SweepRemove(s) \/ SweepPublish(s) \/ ReadMembers(s) \/ SendState(s) \/ AnnounceJoined(s)

Relay(s, j) == Forward(s, j) \/ ForwardEnds(<<s, j>>) \/ Leave(s, j)

Next ==
    \/ \E s \in Sessions :
          \/ \E p \in Rooms : JoinRefused(s, p) \/ JoinGate(s, p)
          \/ Heartbeat(s) \/ LeaveFrame(s) \/ Hangup(s)
          \/ Handle(s)
          \/ \E j \in 1..MaxJoins : Relay(s, j)
    \/ \E c \in Subs : Collect(c)
    \/ \E i \in Instances : Deliver(i) \/ Crash(i)
    \/ \E p \in Rooms :
          \/ CloseRow(p) \/ Supersede(p) \/ CloseParty(p) \/ ClosePartyFails(p) \/ Expire(p)
          \/ \E u \in Users : Age(p, u)

(* The read loops and forward goroutines are scheduled, connected clients  *)
(* heartbeat (HEARTBEAT_MS), and time passes for scores nobody touches.    *)
InRoom(u, p) == \E s \in Sessions : UserOf[s] = u /\ sess[s].party = p

Fairness ==
    /\ \A s \in Sessions : /\ WF_vars(Handle(s))
                           /\ WF_vars(Heartbeat(s))
                           /\ \A j \in 1..MaxJoins : WF_vars(Relay(s, j))
    /\ \A i \in Instances : WF_vars(Deliver(i))
    /\ \A p \in Rooms : /\ WF_vars(Expire(p))
                        /\ \A u \in Users : WF_vars(Age(p, u) /\ ~InRoom(u, p))

Spec == Init /\ [][Next]_vars
FairSpec == Spec /\ Fairness

----------------------------------------------------------------------------
BusEvent == [name : {"member.joined", "member.left"}, who : Users] \cup {Closed}
Envelope == [room : Rooms, ev : BusEvent]
Channel == [state : {"free", "open", "closed"}, buf : Seq(BusEvent)]
Session == [state : {"up", "gone", "crashed"}, party : Rooms \cup {NoParty}, joins : 0..MaxJoins]
Score == {"absent", "fresh", "stale"}

Work ==
    [at : {"subscribe", "touch", "drop", "tell", "ids", "state", "announce"},
     kind : {"join", "beat"}, party : Rooms, added : BOOLEAN,
     stale : SUBSET Users, ids : SUBSET Users]
Job == {NoJob} \cup Work

LeaveState ==
    {NoLeave, LeaveCalled} \cup [at : {"zrem", "publish"}, party : Rooms]
    \cup [at : {"cleanup"}, party : Rooms, join : 1..MaxJoins]
View == [phase : {"connecting", "live", "closed"}, others : SUBSET Users]

TypeOK ==
    /\ wire \in [Instances -> Seq(Envelope)]
    /\ rooms \in [Instances -> [Rooms -> SUBSET Subs]]
    /\ chan \in [Subs -> Channel]
    /\ row \in [Rooms -> {"open", "closed"}]
    /\ closes \in [Rooms -> 0..MaxCloses]
    /\ closing \in [Rooms -> BOOLEAN]
    /\ present \in [Rooms -> [Users -> Score]]
    /\ sess \in [Sessions -> Session]
    /\ job \in [Sessions -> Job]
    /\ leaver \in [Sessions -> [0..MaxJoins -> LeaveState]]
    /\ fwd \in [Subs -> {"none", "run", "done"}]
    /\ view \in [Sessions -> View]

(* Every open subscription has exactly one holder: the session while it is *)
(* in the room of its newest join, or the leave that took it and is about  *)
(* to clean up.  It is registered in its holder's room only.  So neither   *)
(* re-joining, a detached leave overtaking the read loop, nor teardown     *)
(* leaks a subscription or closes one twice.                               *)
InSession(s, j) == sess[s].party # NoParty /\ j = sess[s].joins
Taken(s, a, j) == leaver[s][a].at = "cleanup" /\ leaver[s][a].join = j

SessionCoherent ==
    \A s \in Sessions, j \in 1..MaxJoins :
        LET c == <<s, j>>
            takers == {a \in 0..MaxJoins : Taken(s, a, j)}
        IN  /\ chan[c].state = "open" <=> InSession(s, j) \/ takers # {}
            /\ \A a \in takers : takers = {a} /\ ~InSession(s, j)
            /\ \A p \in Rooms : Registered(c, p) <=>
                  \/ InSession(s, j) /\ p = sess[s].party
                  \/ \E a \in takers : p = leaver[s][a].party

(* Nobody is listed in an open room without a socket there, one on its way *)
(* in or out, or one that died with its process: teardown, leave and the   *)
(* sweep leave no ghosts behind in Redis.  There is one exception: the     *)
(* leave that forward detached for a closed room takes whatever room its   *)
(* socket has joined since, and a heartbeat under way lists the user there *)
(* again.                                                                  *)
Engaged(s, p) ==
    \/ sess[s].party = p
    \/ job[s].at # "idle" /\ job[s].party = p
    \/ \E j \in 0..MaxJoins : leaver[s][j].at \in {"cleanup", "zrem"} /\ leaver[s][j].party = p

LateLeave(s, p) == sess[s].joins > 1 /\ \E q \in Rooms \ {p} : row[q] = "closed"

NoGhosts ==
    \A p \in Rooms : row[p] = "open" => \A u \in Present(p) :
        \E s \in Sessions :
           UserOf[s] = u /\ (Engaged(s, p) \/ sess[s].state = "crashed" \/ LateLeave(s, p))

(* A socket told party.closed, or refused, was told so of a room whose row *)
(* really is closed: the broadcast never runs ahead of the row.            *)
ClosedFrameTruthful ==
    /\ \A s \in Sessions : view[s].phase = "closed" => \E p \in Rooms : row[p] = "closed"
    /\ \A i \in Instances : \A k \in 1..Len(wire[i]) :
          wire[i][k].ev = Closed => row[wire[i][k].room] = "closed"

(* One holder per subscription, and no word of a close before the row.     *)
MembershipCoherent == SessionCoherent /\ ClosedFrameTruthful

(* Presence heals: a user listed in a room without a socket there, after   *)
(* a crash say, is dropped by the others' heartbeats or by the key's TTL.  *)
PresenceHeals ==
    \A p \in Rooms, u \in Users : u \in Present(p) ~> u \notin Present(p) \/ InRoom(u, p)

(* A member whose entry was swept, or removed by another tab's leave, is   *)
(* listed again while its socket stays.                                    *)
MembersArePresent ==
    \A p \in Rooms, u \in Users : InRoom(u, p) ~> u \in Present(p) \/ ~InRoom(u, p)

(* The presence set converges to the users who are connected.              *)
PresenceConverges == PresenceHeals /\ MembersArePresent

(* A party.closed that reached a member's channel ends the subscription,   *)
(* whatever the member's read loop is busy with.                           *)
HasClosed(c) == \E k \in 1..Len(chan[c].buf) : chan[c].buf[k] = Closed

ClosedFrameDrops == \A c \in Subs : HasClosed(c) ~> chan[c].state # "open"

(* party.go:285-287: the join subscribes before it takes its snapshot, "so *)
(* nothing arriving in between is lost".  Once every goroutine has caught  *)
(* up, a live client would show exactly the other members present.         *)
AtRest ==
    /\ \A i \in Instances : wire[i] = <<>>
    /\ \A c \in Subs : chan[c].buf = <<>>
    /\ \A s \in Sessions : job[s] = NoJob /\ \A j \in 0..MaxJoins : leaver[s][j] = NoLeave

NothingLostWhileJoining ==
    AtRest => \A s \in Sessions : sess[s].party # NoParty =>
                 view[s].others = Present(sess[s].party) \ {UserOf[s]}
=============================================================================
