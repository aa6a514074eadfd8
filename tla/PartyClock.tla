----------------------------- MODULE PartyClock -----------------------------
(***************************************************************************)
(* The shared clock of one watch party (internal/realtime/party.go): host  *)
(* sockets load, transform and save the anchor in Redis and broadcast it,  *)
(* every socket's sync loop re-sends the anchor it loads, a join sends it  *)
(* in its state frame, and the clients interpolate from the frame that     *)
(* came last (web/lib/parties.ts).                                         *)
(*                                                                         *)
(* The bus is taken by its contract, LossyFeed: in order, possibly fewer.  *)
(* Processes agree on the time.  The key's TTL of 24 h, and CloseParty's   *)
(* DEL, are left out.                                                      *)
(***************************************************************************)
EXTENDS Integers, Sequences

CONSTANTS
    Duration,       \* the episode's length in seconds, or Unknown
    Unknown,
    NoPosition,     \* a play or pause frame without a position
    Members,        \* sockets whose clients watch the clock
    HostTabs,       \* the host's sockets, in the room while they send frames
    PlayAt,         \* positions a play or pause frame may carry
    SeekTo,         \* positions a seek frame may carry
    BusCap,         \* subscriberBuffer (32): events a socket may be behind
    MaxTime,        \* bound: server time
    MaxOps,         \* bound: frames of the host
    RedisFails      \* loading or saving the clock may fail

ASSUME ClockAssumption ==
    /\ Unknown \notin Int
    /\ NoPosition \notin Int
    /\ Duration \in Nat \cup {Unknown}

ASSUME PartyClockAssumption ==
    /\ PlayAt \subseteq Int \cup {NoPosition} /\ SeekTo \subseteq Int
    /\ BusCap \in Nat \ {0} /\ MaxTime \in Nat /\ MaxOps \in Nat
    /\ RedisFails \in BOOLEAN

----------------------------------------------------------------------------
(* clock.go: an anchor [position, playing, at] says where the clock was at *)
(* server time at, and everybody interpolates from there.  Seconds are     *)
(* integers.                                                               *)
Anchor(p, running, t) == [position |-> p, playing |-> running, at |-> t]

(* A fault TypeOK must notice: the upper end is not clamped.               *)
ClampAtZeroOnly(p) == IF p < 0 THEN 0 ELSE p

Clamp(p) ==
    IF p < 0 THEN 0
    ELSE IF Duration # Unknown /\ p > Duration THEN Duration
    ELSE p

AtEnd(p) == Duration # Unknown /\ p >= Duration

PositionAt(c, t) == Clamp(IF c.playing THEN c.position + (t - c.at) ELSE c.position)

(* A fault ShownWasReal must notice: a sync lets a paused clock run.       *)
SyncedRunsOn(c, t) == Anchor(Clamp(c.position + (t - c.at)), c.playing, t)

Synced(c, t) == Anchor(PositionAt(c, t), c.playing, t)

Target(c, t, p) == IF p = NoPosition THEN PositionAt(c, t) ELSE Clamp(p)

Play(c, t, p) == Anchor(Target(c, t, p), ~AtEnd(Target(c, t, p)), t)

Pause(c, t, p) == Anchor(Target(c, t, p), FALSE, t)

Seek(c, t, p) == Anchor(Clamp(p), c.playing /\ ~AtEnd(Clamp(p)), t)
----------------------------------------------------------------------------
VARIABLES
    now,
    stored,     \* the clock hash in Redis, or Unset
    saved,      \* every anchor ever stored (history variable)
    ops,        \* frames of the host so far
    op,         \* op[h]: the host's frame that h's read loop is handling
    room,       \* room[s]: how far s is into the room
    queue,      \* queue[s]: clock events on their way to s
    sync,       \* sync[s]: what s's sync loop has loaded and not sent
    view        \* view[s]: the client's anchor, at its time of receipt

vars == <<now, stored, saved, ops, op, room, queue, sync, view>>

(* The clock frames a host sends: only a seek must say where.              *)
Frames == [op : {"play", "pause"}, position : PlayAt] \cup [op : {"seek"}, position : SeekTo]

Unset == [unset |-> TRUE]
Idle == [at |-> "idle"]

(* loadClock: a room without a clock is paused at 0.                       *)
Loaded == IF stored = Unset THEN Anchor(0, FALSE, now) ELSE stored

Init ==
    /\ now = 0
    /\ stored = Unset
    /\ saved = {Anchor(0, FALSE, 0)}
    /\ ops = 0
    /\ op = [h \in HostTabs |-> Idle]
    /\ room = [s \in Members |-> [at |-> "out"]]
    /\ queue = [s \in Members |-> <<>>]
    /\ sync = [s \in Members |-> Idle]
    /\ view = [s \in Members |-> Anchor(0, FALSE, 0)]

Subscribed(s) == room[s].at # "out"

(* The client notes the anchor and when it came.                           *)
Show(s, c) == view' = [view EXCEPT ![s] = [c EXCEPT !.at = now]]

Tick ==
    /\ now < MaxTime
    /\ now' = now + 1
    /\ UNCHANGED <<stored, saved, ops, op, room, queue, sync, view>>

----------------------------------------------------------------------------
(* join: subscribed first, the clock loaded, the state frame at the end.   *)
JoinSubscribe(s) ==
    /\ room[s].at = "out"
    /\ room' = [room EXCEPT ![s] = [at |-> "load"]]
    /\ queue' = [queue EXCEPT ![s] = <<>>]
    /\ UNCHANGED <<now, stored, saved, ops, op, sync, view>>

(* A clock that cannot be loaded is sent as its zero value.                *)
JoinLoad(s) ==
    /\ room[s].at = "load"
    /\ \E c \in {Loaded} \cup (IF RedisFails THEN {Anchor(0, FALSE, 0)} ELSE {}) :
          room' = [room EXCEPT ![s] = [at |-> "send", clock |-> c]]
    /\ UNCHANGED <<now, stored, saved, ops, op, queue, sync, view>>

SendState(s) ==
    /\ room[s].at = "send"
    /\ Show(s, Synced(room[s].clock, now))
    /\ room' = [room EXCEPT ![s] = [at |-> "in"]]
    /\ UNCHANGED <<now, stored, saved, ops, op, queue, sync>>

(* leave, by frame or by the end of the socket: what is on its way to the  *)
(* client is of no interest any more, nor what it shows.                   *)
Leave(s) ==
    /\ room[s].at = "in"
    /\ room' = [room EXCEPT ![s] = [at |-> "out"]]
    /\ queue' = [queue EXCEPT ![s] = <<>>]
    /\ sync' = [sync EXCEPT ![s] = Idle]
    /\ view' = [view EXCEPT ![s] = Anchor(0, FALSE, 0)]
    /\ UNCHANGED <<now, stored, saved, ops, op>>

----------------------------------------------------------------------------
(* clockOp, a step per Redis command, and one that reads the time and      *)
(* transforms the anchor.  A failed load changes nothing.                  *)
ClockOpLoad(h) ==
    /\ op[h] = Idle
    /\ ops < MaxOps
    /\ ops' = ops + 1
    /\ \E f \in Frames : op' = [op EXCEPT ![h] = [at |-> "loaded", frame |-> f, clock |-> Loaded]]
    /\ UNCHANGED <<now, stored, saved, room, queue, sync, view>>

Transform(f, c, t) ==
    CASE f.op = "play"  -> Play(c, t, f.position)
      [] f.op = "pause" -> Pause(c, t, f.position)
      [] f.op = "seek"  -> Seek(c, t, f.position)

ClockOpTransform(h) ==
    /\ op[h].at = "loaded"
    /\ op' = [op EXCEPT ![h] = [at |-> "save", clock |-> Transform(op[h].frame, op[h].clock, now)]]
    /\ UNCHANGED <<now, stored, saved, ops, room, queue, sync, view>>

Store(c) == stored' = c /\ saved' = saved \cup {c}

ClockOpSave(h) ==
    /\ op[h].at = "save"
    /\ Store(op[h].clock)
    /\ op' = [op EXCEPT ![h].at = "publish"]
    /\ UNCHANGED <<now, ops, room, queue, sync, view>>

(* An error ends the operation; the save may have taken effect.            *)
ClockOpFails(h) ==
    /\ RedisFails
    /\ op[h].at = "save"
    /\ UNCHANGED <<stored, saved>> \/ Store(op[h].clock)
    /\ op' = [op EXCEPT ![h] = Idle]
    /\ UNCHANGED <<now, ops, room, queue, sync, view>>

(* The sockets that are too far behind miss the event.                     *)
ClockOpPublish(h) ==
    /\ op[h].at = "publish"
    /\ queue' = [m \in Members |->
          IF Subscribed(m) /\ Len(queue[m]) < BusCap THEN Append(queue[m], op[h].clock)
                                                     ELSE queue[m]]
    /\ op' = [op EXCEPT ![h] = Idle]
    /\ UNCHANGED <<now, stored, saved, ops, room, sync, view>>

(* forward relays one clock frame.                                         *)
Forward(s) ==
    /\ queue[s] # <<>>
    /\ Show(s, Head(queue[s]))
    /\ queue' = [queue EXCEPT ![s] = Tail(@)]
    /\ UNCHANGED <<now, stored, saved, ops, op, room, sync>>

----------------------------------------------------------------------------
(* A fault ClocksAgree must notice: a loop that loads the anchor while the *)
(* client has none, and is content with the broadcasts from then on.       *)
SyncLoadOnce(s) ==
    /\ Subscribed(s) /\ sync[s] = Idle
    /\ room[s].at # "in"
    /\ sync' = [sync EXCEPT ![s] = [at |-> "send", clock |-> Loaded]]
    /\ UNCHANGED <<now, stored, saved, ops, op, room, queue, view>>

(* syncLoop: every 30 s, the anchor is loaded and then sent, re-anchored.  *)
(* An error only skips a turn.                                             *)
SyncLoad(s) ==
    /\ Subscribed(s) /\ sync[s] = Idle
    /\ sync' = [sync EXCEPT ![s] = [at |-> "send", clock |-> Loaded]]
    /\ UNCHANGED <<now, stored, saved, ops, op, room, queue, view>>

SyncSend(s) ==
    /\ sync[s].at = "send"
    /\ Show(s, Synced(sync[s].clock, now))
    /\ sync' = [sync EXCEPT ![s] = Idle]
    /\ UNCHANGED <<now, stored, saved, ops, op, room, queue>>

----------------------------------------------------------------------------
Join(s) == JoinSubscribe(s) \/ JoinLoad(s) \/ SendState(s)

ClockOp(h) ==
    \/ ClockOpLoad(h) \/ ClockOpTransform(h) \/ ClockOpSave(h)
    \/ ClockOpFails(h) \/ ClockOpPublish(h)

Sync(s) == SyncLoad(s) \/ SyncSend(s)

Next ==
    \/ Tick
    \/ \E h \in HostTabs : ClockOp(h)
    \/ \E s \in Members : Join(s) \/ Leave(s) \/ Forward(s) \/ Sync(s)

Spec == Init /\ [][Next]_vars

(* Goroutines run; the host need not send frames and nobody need join.     *)
Fairness ==
    /\ \A h \in HostTabs : WF_vars(ClockOpTransform(h) \/ ClockOpSave(h) \/ ClockOpPublish(h))
    /\ \A s \in Members :
          /\ WF_vars(JoinLoad(s)) /\ WF_vars(SendState(s))
          /\ WF_vars(Forward(s))
          /\ WF_vars(SyncLoad(s)) /\ WF_vars(SyncSend(s))

FairSpec == Spec /\ Fairness

----------------------------------------------------------------------------
Position == IF Duration = Unknown THEN Nat ELSE 0..Duration
Clocks == [position : Position, playing : BOOLEAN, at : 0..MaxTime]

TypeOK ==
    /\ now \in 0..MaxTime
    /\ stored \in Clocks \cup {Unset}
    /\ saved \subseteq Clocks
    /\ ops \in 0..MaxOps
    /\ op \in [HostTabs -> {Idle} \cup
                           [at : {"loaded"}, frame : Frames, clock : Clocks] \cup
                           [at : {"save", "publish"}, clock : Clocks]]
    /\ room \in [Members -> [at : {"out", "load", "in"}] \cup [at : {"send"}, clock : Clocks]]
    /\ queue \in [Members -> Seq(Clocks)]
    /\ \A s \in Members : Len(queue[s]) <= BusCap
    /\ sync \in [Members -> {Idle} \cup [at : {"send"}, clock : Clocks]]
    /\ view \in [Members -> Clocks]

(* What a member is shown is a clock the room really had, interpolated as  *)
(* the room does and late by at most the time since that anchor: never one *)
(* mixed from two, running when it was paused, or ahead of it, whichever   *)
(* of clock, sync and state frames came last and however long each took.   *)
Horizon == now .. (MaxTime + MaxTime)

ShowsLate(v, c, d) ==
    /\ v.playing = c.playing
    /\ c.at <= now - d
    /\ \A t \in Horizon : PositionAt(v, t) = PositionAt(c, t - d)

ShownWasReal ==
    \A s \in Members : room[s].at = "in" =>
        \E c \in saved, d \in 0..MaxTime : ShowsLate(view[s], c, d)

(* Whatever the host's tabs did to each other's operations, whichever      *)
(* broadcast was lost, late or overtaken by an older sync: a member that   *)
(* stays ends up with the clock that was stored last, to the second.       *)
Agrees(s) == ShowsLate(view[s], Loaded, 0)

ClocksAgree ==
    \A s \in Members : <>[](room[s].at = "in") => <>[]Agrees(s)
=============================================================================
