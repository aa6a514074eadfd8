----------------------------- MODULE PartyProofs -----------------------------
(***************************************************************************)
(* Proofs about a watch party's two parts that share no state.             *)
(*                                                                         *)
(* The shared clock, for any episode length, any number of members and     *)
(* host tabs, and any frames: a sync does not change what the clock shows, *)
(* and what a member is shown is a clock the room had.                     *)
(*                                                                         *)
(* The life of watch parties, for any parties, hosts and users: the types, *)
(* one open room per host, and that a closed room never opens again.       *)
(***************************************************************************)
EXTENDS PartyClock, PartyLifecycle, TLAPS

(* A clamped position is one of the episode, and clamping it again changes *)
(* nothing.                                                                *)
LEMMA ClampTyped ==
    ASSUME NEW p \in Int
    PROVE  Clamp(p) \in Position /\ Position \subseteq Nat
  BY ClockAssumption DEF Clamp, Position

LEMMA PositionTyped ==
    ASSUME NEW c \in Clocks, NEW t \in Int
    PROVE  PositionAt(c, t) \in Position
  <1>1. c.position \in Int /\ c.at \in Int
    BY ClockAssumption, PartyClockAssumption DEF Clocks, Position
  <1>2. (IF c.playing THEN c.position + (t - c.at) ELSE c.position) \in Int
    BY <1>1
  <1>3. QED
    BY <1>2, ClampTyped DEF PositionAt

(* clock.go: synced "re-anchors the clock at now without changing what it  *)
(* shows", then or at any later time.                                      *)
THEOREM SyncShowsTheSame ==
    ASSUME NEW c \in Clocks, NEW t \in Int, NEW u \in Int, c.at <= t, t <= u
    PROVE  PositionAt(Synced(c, t), u) = PositionAt(c, u)
  <1>1. /\ c.position \in Nat /\ c.at \in Int
        /\ Duration # Unknown => Duration \in Nat /\ c.position <= Duration
    BY ClockAssumption, PartyClockAssumption DEF Clocks, Position
  <1>2. CASE c.playing
    <2>1. /\ PositionAt(c, u) = Clamp(c.position + (u - c.at))
          /\ PositionAt(Synced(c, t), u) = Clamp(Clamp(c.position + (t - c.at)) + (u - t))
      BY <1>2 DEF PositionAt, Synced, Anchor
    <2>2. QED
      BY <1>1, <2>1 DEF Clamp
  <1>3. CASE ~c.playing
    <2>1. /\ PositionAt(c, u) = Clamp(c.position)
          /\ PositionAt(Synced(c, t), u) = Clamp(Clamp(c.position))
      BY <1>3 DEF PositionAt, Synced, Anchor
    <2>2. QED
      BY <1>1, <2>1 DEF Clamp
  <1>4. QED
    BY <1>2, <1>3

(* A clock frame taken for current at its receipt runs late by the time it *)
(* was on its way.                                                         *)
LEMMA ReceivedRunsLate ==
    ASSUME NEW c \in Clocks, NEW r \in Int, NEW u \in Int
    PROVE  PositionAt([c EXCEPT !.at = r], u) = PositionAt(c, u - (r - c.at))
  <1>1. c.position \in Int /\ c.at \in Int
    BY ClockAssumption, PartyClockAssumption DEF Clocks, Position
  <1>2. /\ [c EXCEPT !.at = r].position = c.position
        /\ [c EXCEPT !.at = r].playing = c.playing
        /\ [c EXCEPT !.at = r].at = r
    BY DEF Clocks
  <1>3. c.position + (u - r) = c.position + ((u - (r - c.at)) - c.at)
    BY <1>1
  <1>4. QED
    BY <1>2, <1>3 DEF PositionAt

----------------------------------------------------------------------------
ServerTime == 0..MaxTime

LEMMA ZeroTyped ==
    ASSUME NEW t \in ServerTime
    PROVE  Anchor(0, FALSE, t) \in Clocks
  BY ClockAssumption DEF ServerTime, Anchor, Clocks, Position

LEMMA UnsetTyped == Anchor(0, FALSE, 0) \in Clocks
  <1>1. 0 \in ServerTime
    BY PartyClockAssumption DEF ServerTime
  <1>2. QED
    BY <1>1, ZeroTyped

LEMMA SyncedTyped ==
    ASSUME NEW c \in Clocks, NEW t \in ServerTime
    PROVE  Synced(c, t) \in Clocks
  <1>1. t \in Int
    BY PartyClockAssumption DEF ServerTime
  <1>2. PositionAt(c, t) \in Position
    BY <1>1, PositionTyped
  <1>3. QED
    BY <1>2 DEF Synced, Anchor, Clocks, ServerTime

(* What the host's frame makes of an anchor is an anchor again.            *)
LEMMA TransformTyped ==
    ASSUME NEW f \in Frames, NEW c \in Clocks, NEW t \in ServerTime
    PROVE  Transform(f, c, t) \in Clocks
  <1>1. t \in Int
    BY PartyClockAssumption DEF ServerTime
  <1>2. PositionAt(c, t) \in Position
    BY <1>1, PositionTyped
  <1>3. ASSUME NEW p \in Int PROVE Clamp(p) \in Position
    BY ClampTyped
  <1>4. ASSUME NEW p \in Int \cup {NoPosition} PROVE Target(c, t, p) \in Position
    BY <1>2, <1>3 DEF Target
  <1>5. \A p, b : p \in Position /\ b \in BOOLEAN => Anchor(p, b, t) \in Clocks
    BY DEF Anchor, Clocks, ServerTime
  <1>6. ASSUME NEW p \in Int \cup {NoPosition}
        PROVE  Play(c, t, p) \in Clocks /\ Pause(c, t, p) \in Clocks
    BY <1>4, <1>5 DEF Play, Pause, AtEnd
  <1>7. ASSUME NEW p \in Int PROVE Seek(c, t, p) \in Clocks
    <2>1. (c.playing /\ ~AtEnd(Clamp(p))) \in BOOLEAN
      BY DEF Clocks, AtEnd
    <2>2. QED
      BY <1>3, <1>5, <2>1 DEF Seek
  <1>8. \/ f.op = "play" /\ f.position \in Int \cup {NoPosition}
        \/ f.op = "pause" /\ f.position \in Int \cup {NoPosition}
        \/ f.op = "seek" /\ f.position \in Int
    BY PartyClockAssumption DEF Frames
  <1>9. QED
    BY <1>6, <1>7, <1>8 DEF Transform

LEMMA LoadedTyped ==
    ASSUME TypeOK
    PROVE  Loaded \in Clocks
  <1>1. Anchor(0, FALSE, now) \in Clocks
    BY ZeroTyped DEF TypeOK, ServerTime
  <1>2. QED
    BY <1>1 DEF TypeOK, Loaded

(* The client's copy of a frame carries the time of its receipt.           *)
LEMMA ShowTyped ==
    ASSUME TypeOK, NEW s \in Members, NEW c \in Clocks, Show(s, c)
    PROVE  view' \in [Members -> Clocks]
  <1>1. [c EXCEPT !.at = now] \in Clocks
    BY DEF TypeOK, Clocks
  <1>2. QED
    BY <1>1 DEF TypeOK, Show

LEMMA ClockTypeStep == TypeOK /\ [Next]_vars => TypeOK'
  <1> SUFFICES ASSUME TypeOK, [Next]_vars PROVE TypeOK'
    OBVIOUS
  <1> USE PartyClockAssumption
  <1>1. CASE Tick
    BY <1>1 DEF TypeOK, Tick
  <1>2. ASSUME NEW h \in HostTabs, ClockOpLoad(h) PROVE TypeOK'
    <2>1. Loaded \in Clocks
      BY LoadedTyped
    <2>2. PICK f \in Frames :
             op' = [op EXCEPT ![h] = [at |-> "loaded", frame |-> f, clock |-> Loaded]]
      BY <1>2 DEF ClockOpLoad
    <2>3. QED
      BY <1>2, <2>1, <2>2 DEF TypeOK, ClockOpLoad
  <1>3. ASSUME NEW h \in HostTabs, ClockOpTransform(h) PROVE TypeOK'
    <2>1. op[h].frame \in Frames /\ op[h].clock \in Clocks
      <3>1. op[h].at = "loaded"
        BY <1>3 DEF ClockOpTransform
      <3>2. op[h] \in [at : {"loaded"}, frame : Frames, clock : Clocks]
        BY <3>1 DEF TypeOK, Idle
      <3>3. QED
        BY <3>2
    <2>2. Transform(op[h].frame, op[h].clock, now) \in Clocks
      BY <2>1, TransformTyped DEF TypeOK, ServerTime
    <2>3. QED
      BY <1>3, <2>2 DEF TypeOK, ClockOpTransform
  <1>4. ASSUME NEW h \in HostTabs, ClockOpSave(h) PROVE TypeOK'
    <2>1. op[h] \in [at : {"save", "publish"}, clock : Clocks]
      BY <1>4 DEF TypeOK, ClockOpSave, Idle
    <2>2. [op[h] EXCEPT !.at = "publish"] \in [at : {"save", "publish"}, clock : Clocks]
      BY <2>1
    <2>3. QED
      BY <1>4, <2>1, <2>2 DEF TypeOK, ClockOpSave, Store
  <1>5. ASSUME NEW h \in HostTabs, ClockOpFails(h) PROVE TypeOK'
    <2>1. op[h].clock \in Clocks
      BY <1>5 DEF TypeOK, ClockOpFails, Idle
    <2>2. QED
      BY <1>5, <2>1 DEF TypeOK, ClockOpFails, Store
  <1>6. ASSUME NEW h \in HostTabs, ClockOpPublish(h) PROVE TypeOK'
    <2>1. op[h].clock \in Clocks
      BY <1>6 DEF TypeOK, ClockOpPublish, Idle
    <2>2. \A m \in Members :
             /\ queue'[m] \in Seq(Clocks)
             /\ Len(queue'[m]) <= BusCap
      BY <1>6, <2>1 DEF TypeOK, ClockOpPublish
    <2>3. queue' \in [Members -> Seq(Clocks)]
      BY <1>6, <2>2 DEF ClockOpPublish
    <2>4. QED
      BY <1>6, <2>2, <2>3 DEF TypeOK, ClockOpPublish
  <1>7. ASSUME NEW s \in Members, JoinSubscribe(s) PROVE TypeOK'
    BY <1>7 DEF TypeOK, JoinSubscribe
  <1>8. ASSUME NEW s \in Members, JoinLoad(s) PROVE TypeOK'
    <2>1. Loaded \in Clocks /\ Anchor(0, FALSE, 0) \in Clocks
      BY LoadedTyped, UnsetTyped
    <2>2. PICK c \in Clocks : room' = [room EXCEPT ![s] = [at |-> "send", clock |-> c]]
      BY <1>8, <2>1 DEF JoinLoad
    <2>3. QED
      BY <1>8, <2>2 DEF TypeOK, JoinLoad
  <1>9. ASSUME NEW s \in Members, SendState(s) PROVE TypeOK'
    <2>1. room[s].clock \in Clocks
      BY <1>9 DEF TypeOK, SendState
    <2>2. view' \in [Members -> Clocks]
      BY <1>9, <2>1, SyncedTyped, ShowTyped DEF TypeOK, ServerTime, SendState
    <2>3. QED
      BY <1>9, <2>2 DEF TypeOK, SendState
  <1>10. ASSUME NEW s \in Members, Leave(s) PROVE TypeOK'
    <2>1. view' \in [Members -> Clocks]
      BY <1>10, UnsetTyped DEF TypeOK, Leave
    <2>2. /\ room' \in [Members -> [at : {"out", "load", "in"}] \cup [at : {"send"}, clock : Clocks]]
          /\ sync' \in [Members -> {Idle} \cup [at : {"send"}, clock : Clocks]]
      BY <1>10 DEF TypeOK, Leave
    <2>3. /\ queue' \in [Members -> Seq(Clocks)]
          /\ \A m \in Members : Len(queue'[m]) <= BusCap
      BY <1>10 DEF TypeOK, Leave
    <2>4. QED
      BY <1>10, <2>1, <2>2, <2>3 DEF TypeOK, Leave
  <1>11. ASSUME NEW s \in Members, Forward(s) PROVE TypeOK'
    <2>1. /\ Head(queue[s]) \in Clocks
          /\ Tail(queue[s]) \in Seq(Clocks)
          /\ Len(Tail(queue[s])) <= BusCap
      BY <1>11 DEF TypeOK, Forward
    <2>2. view' \in [Members -> Clocks]
      BY <1>11, <2>1, ShowTyped DEF Forward
    <2>3. QED
      BY <1>11, <2>1, <2>2 DEF TypeOK, Forward
  <1>12. ASSUME NEW s \in Members, SyncLoad(s) PROVE TypeOK'
    BY <1>12, LoadedTyped DEF TypeOK, SyncLoad
  <1>13. ASSUME NEW s \in Members, SyncSend(s) PROVE TypeOK'
    <2>1. sync[s].clock \in Clocks
      BY <1>13 DEF TypeOK, SyncSend, Idle
    <2>2. view' \in [Members -> Clocks]
      BY <1>13, <2>1, SyncedTyped, ShowTyped DEF TypeOK, ServerTime, SyncSend
    <2>3. QED
      BY <1>13, <2>2 DEF TypeOK, SyncSend
  <1>14. CASE UNCHANGED vars
    BY <1>14 DEF TypeOK, vars
  <1>15. QED
    BY <1>1, <1>2, <1>3, <1>4, <1>5, <1>6, <1>7, <1>8, <1>9, <1>10, <1>11, <1>12, <1>13, <1>14
       DEF Next, ClockOp, Join, Sync

(* Every anchor stored, broadcast or shown lies within the episode.        *)
THEOREM ClockTypeCorrect == Spec => []TypeOK
  <1>1. Init => TypeOK
    <2> SUFFICES ASSUME Init PROVE TypeOK
      OBVIOUS
    <2>1. now \in 0..MaxTime /\ ops \in 0..MaxOps
      BY PartyClockAssumption DEF Init
    <2>2. saved \subseteq Clocks
      BY UnsetTyped DEF Init
    <2>3. /\ queue \in [Members -> Seq(Clocks)]
          /\ \A s \in Members : Len(queue[s]) <= BusCap
      BY PartyClockAssumption DEF Init
    <2>4. view \in [Members -> Clocks]
      BY UnsetTyped DEF Init
    <2>5. QED
      BY <2>1, <2>2, <2>3, <2>4 DEF Init, TypeOK
  <1>2. QED
    BY <1>1, ClockTypeStep, PTL DEF Spec

----------------------------------------------------------------------------
(* v shows what c showed d earlier, from v's own time on.                  *)
RunsLate(v, c, d) ==
    /\ v.playing = c.playing
    /\ d \in ServerTime
    /\ c.at <= v.at - d
    /\ \A t \in Int : v.at <= t => PositionAt(v, t) = PositionAt(c, t - d)

(* An anchor the room had, or the paused zero of a room without a clock.   *)
Real(c) == c \in saved \/ (c.position = 0 /\ ~c.playing)

(* The inductive invariant behind ShownWasReal: only anchors that were     *)
(* stored are on their way to anybody, none of them from the future.       *)
InFlight ==
    /\ stored # Unset => stored \in saved
    /\ Anchor(0, FALSE, 0) \in saved
    /\ \A c \in saved : c.at <= now
    /\ \A h \in HostTabs :
          /\ op[h].at = "save" => op[h].clock.at <= now
          /\ op[h].at = "publish" => op[h].clock \in saved
    /\ \A s \in Members :
          /\ \A k \in 1..Len(queue[s]) : queue[s][k] \in saved
          /\ room[s].at = "send" => Real(room[s].clock) /\ room[s].clock.at <= now
          /\ sync[s].at = "send" => Real(sync[s].clock) /\ sync[s].clock.at <= now

Shown ==
    \A s \in Members : /\ view[s].at <= now
                       /\ \E c \in saved, d \in ServerTime : RunsLate(view[s], c, d)

(* A re-anchored real clock runs as late as none at all.                   *)
LEMMA SyncedShown ==
    ASSUME TypeOK, InFlight, NEW c \in Clocks, Real(c), c.at <= now
    PROVE  \E b \in saved, d \in ServerTime : RunsLate([Synced(c, now) EXCEPT !.at = now], b, d)
  <1> DEFINE v == Synced(c, now)
  <1>1. now \in Int /\ 0 \in ServerTime /\ 0 <= now
    BY PartyClockAssumption DEF TypeOK, ServerTime
  <1>2. [v EXCEPT !.at = now] = v /\ v.at = now /\ v.playing = c.playing
    BY DEF Synced, Anchor
  <1>3. CASE c \in saved
    <2>1. \A t \in Int : v.at <= t => PositionAt(v, t) = PositionAt(c, t - 0)
      BY <1>1, <1>2, SyncShowsTheSame
    <2>2. c.at <= v.at - 0
      BY <1>1, <1>2
    <2>3. RunsLate(v, c, 0)
      BY <1>1, <1>2, <2>1, <2>2 DEF RunsLate
    <2>4. QED
      BY <1>1, <1>2, <1>3, <2>3
  <1>4. CASE c.position = 0 /\ ~c.playing
    <2> DEFINE z == Anchor(0, FALSE, 0)
    <2>1. /\ z \in saved /\ z.at = 0 /\ z.playing = FALSE /\ z.position = 0
          /\ c.playing = FALSE
      BY <1>4 DEF InFlight, Anchor, Clocks
    <2>2. Clamp(0) = 0
      BY ClockAssumption DEF Clamp
    <2>3. v.position = 0
      BY <1>4, <2>2 DEF Synced, Anchor, PositionAt
    <2>4. \A t \in Int : PositionAt(v, t) = 0 /\ PositionAt(z, t - 0) = 0
      BY <1>2, <2>1, <2>2, <2>3 DEF PositionAt
    <2> HIDE DEF v, z
    <2>5. v.playing = z.playing /\ z.at <= v.at - 0
      <3>1. v.playing = z.playing
        BY <1>2, <2>1
      <3>2. z.at <= v.at - 0
        BY <1>1, <1>2, <2>1
      <3>3. QED
        BY <3>1, <3>2
    <2>6. \A t \in Int : v.at <= t => PositionAt(v, t) = PositionAt(z, t - 0)
      BY <2>4
    <2>7. RunsLate(v, z, 0)
      BY <1>1, <2>5, <2>6 DEF RunsLate
    <2>8. RunsLate([v EXCEPT !.at = now], z, 0)
      BY <1>2, <2>7
    <2>9. QED
      BY <1>1, <2>1, <2>8 DEF v
  <1>5. QED
    BY <1>3, <1>4 DEF Real

(* A relayed anchor runs late by the time since it was made.               *)
LEMMA RelayedShown ==
    ASSUME TypeOK, InFlight, NEW c \in saved
    PROVE  \E b \in saved, d \in ServerTime : RunsLate([c EXCEPT !.at = now], b, d)
  <1> DEFINE v == [c EXCEPT !.at = now]
             d == now - c.at
  <1>1. c \in Clocks /\ c.at <= now /\ now \in Int
    BY PartyClockAssumption DEF TypeOK, InFlight
  <1>2. d \in ServerTime /\ c.at \in Int
    BY <1>1, PartyClockAssumption DEF Clocks, TypeOK, ServerTime
  <1>3. v.at = now /\ v.playing = c.playing
    BY <1>1 DEF Clocks
  <1>4. \A t \in Int : PositionAt(v, t) = PositionAt(c, t - d)
    BY <1>1, ReceivedRunsLate
  <1>5. c.at <= v.at - d
    BY <1>1, <1>2, <1>3
  <1> HIDE DEF v, d
  <1>6. RunsLate(v, c, d)
    BY <1>2, <1>3, <1>4, <1>5 DEF RunsLate
  <1>7. QED
    BY <1>2, <1>6 DEF v

(* What is loaded is real and not from the future.                         *)
LEMMA LoadedReal ==
    ASSUME TypeOK, InFlight
    PROVE  Real(Loaded) /\ Loaded.at <= now
  <1>1. CASE stored = Unset
    <2>1. Loaded = Anchor(0, FALSE, now)
      BY <1>1 DEF Loaded
    <2>2. now <= now
      BY PartyClockAssumption DEF TypeOK
    <2>3. QED
      BY <2>1, <2>2 DEF Anchor, Real
  <1>2. CASE stored # Unset
    BY <1>2 DEF Loaded, Real, InFlight
  <1>3. QED
    BY <1>1, <1>2

LEMMA TransformAt ==
    ASSUME NEW f \in Frames, NEW c, NEW t
    PROVE  Transform(f, c, t).at = t
  <1>1. f.op \in {"play", "pause", "seek"}
    BY PartyClockAssumption DEF Frames
  <1>2. QED
    BY <1>1 DEF Transform, Play, Pause, Seek, Anchor

(* What is on its way stays real: no step forgets a stored anchor.         *)
LEMMA SavedGrows == TypeOK /\ [Next]_vars => saved \subseteq saved' /\ now <= now'
  <1> SUFFICES ASSUME TypeOK, [Next]_vars PROVE saved \subseteq saved' /\ now <= now'
    OBVIOUS
  <1>1. now \in Int
    BY PartyClockAssumption DEF TypeOK
  <1>2. CASE Tick
    BY <1>1, <1>2 DEF Tick
  <1>3. ASSUME NEW h \in HostTabs, ClockOp(h) PROVE saved \subseteq saved' /\ now' = now
    BY <1>3 DEF ClockOp, ClockOpLoad, ClockOpTransform, ClockOpSave, ClockOpFails, ClockOpPublish, Store
  <1>4. ASSUME NEW s \in Members, Join(s) \/ Leave(s) \/ Forward(s) \/ Sync(s)
        PROVE  saved' = saved /\ now' = now
    BY <1>4 DEF Join, JoinSubscribe, JoinLoad, SendState, Leave, Forward, Sync, SyncLoad, SyncSend
  <1>5. CASE UNCHANGED vars
    BY <1>1, <1>5 DEF vars
  <1>6. QED
    BY <1>1, <1>2, <1>3, <1>4, <1>5 DEF Next

LEMMA InFlightStep == TypeOK /\ InFlight /\ [Next]_vars => InFlight'
  <1> SUFFICES ASSUME TypeOK, InFlight, [Next]_vars PROVE InFlight'
    OBVIOUS
  <1>1. /\ saved \subseteq saved' /\ now <= now'
        /\ now \in Int /\ now' \in Int
        /\ \A c \in Clocks : c.at \in Int
    <2>1. TypeOK'
      BY ClockTypeStep
    <2>2. now \in Int /\ now' \in Int
      BY <2>1, PartyClockAssumption DEF TypeOK
    <2>3. \A c \in Clocks : c.at \in Int
      BY PartyClockAssumption DEF Clocks
    <2>4. QED
      BY <2>2, <2>3, SavedGrows
  <1>2. \A c \in Clocks : Real(c) /\ c.at <= now => Real(c)' /\ c.at <= now'
    BY <1>1 DEF Real
  <1>3. CASE Tick
    <2>1. /\ \A h \in HostTabs : op[h].at = "save" => op[h].clock \in Clocks
          /\ \A s \in Members : /\ room[s].at = "send" => room[s].clock \in Clocks
                                /\ sync[s].at = "send" => sync[s].clock \in Clocks
          /\ saved \subseteq Clocks
      <3>1. ASSUME NEW h \in HostTabs, op[h].at = "save" PROVE op[h].clock \in Clocks
        BY <3>1 DEF TypeOK, Idle
      <3>2. ASSUME NEW s \in Members, room[s].at = "send" PROVE room[s].clock \in Clocks
        BY <3>2 DEF TypeOK
      <3>3. ASSUME NEW s \in Members, sync[s].at = "send" PROVE sync[s].clock \in Clocks
        BY <3>3 DEF TypeOK, Idle
      <3>4. QED
        BY <3>1, <3>2, <3>3 DEF TypeOK
    <2>2. \A c \in Clocks : c.at <= now => c.at <= now'
      BY <1>1
    <2>3. /\ saved' = saved
          /\ UNCHANGED <<stored, op, room, queue, sync>>
      BY <1>3 DEF Tick
    <2>4. QED
      BY <1>2, <2>1, <2>2, <2>3 DEF InFlight
  <1>4. ASSUME NEW h \in HostTabs, ClockOpLoad(h) PROVE InFlight'
    <2>1. \A k \in HostTabs : op'[k].at = "loaded" \/ op'[k] = op[k]
      <3>1. PICK f \in Frames :
               op' = [op EXCEPT ![h] = [at |-> "loaded", frame |-> f, clock |-> Loaded]]
        BY <1>4 DEF ClockOpLoad
      <3>2. QED
        BY <3>1 DEF TypeOK
    <2>2. UNCHANGED <<now, stored, saved, room, queue, sync>>
      BY <1>4 DEF ClockOpLoad
    <2>3. QED
      BY <2>1, <2>2 DEF InFlight, Real
  <1>5. ASSUME NEW h \in HostTabs, ClockOpTransform(h) PROVE InFlight'
    <2>1. op[h].frame \in Frames
      BY <1>5 DEF TypeOK, ClockOpTransform, Idle
    <2>2. Transform(op[h].frame, op[h].clock, now).at <= now
      BY <1>1, <2>1, TransformAt
    <2>3. QED
      BY <1>5, <2>2 DEF TypeOK, InFlight, Real, ClockOpTransform
  <1>6. ASSUME NEW h \in HostTabs, ClockOpSave(h) PROVE InFlight'
    <2>1. op[h].at = "save" /\ op[h].clock.at <= now
      BY <1>6 DEF InFlight, ClockOpSave
    <2>2. op[h] \in [at : {"save", "publish"}, clock : Clocks]
      BY <2>1 DEF TypeOK, Idle
    <2>3. [op[h] EXCEPT !.at = "publish"].clock = op[h].clock
      BY <2>2
    <2>4. \A k \in HostTabs :
             /\ op'[k].at = "save" => op'[k].clock.at <= now
             /\ op'[k].at = "publish" => op'[k].clock \in saved'
      BY <1>1, <1>6, <2>2, <2>3 DEF TypeOK, InFlight, ClockOpSave, Store
    <2>5. QED
      BY <1>1, <1>6, <2>1, <2>4 DEF InFlight, Real, ClockOpSave, Store
  <1>7. ASSUME NEW h \in HostTabs, ClockOpFails(h) PROVE InFlight'
    <2>1. op[h].clock.at <= now
      BY <1>7 DEF InFlight, ClockOpFails
    <2>2. QED
      BY <1>1, <1>7, <2>1 DEF TypeOK, InFlight, Real, ClockOpFails, Store, Idle
  <1>8. ASSUME NEW h \in HostTabs, ClockOpPublish(h) PROVE InFlight'
    <2>1. op[h].clock \in saved
      BY <1>8 DEF InFlight, ClockOpPublish
    <2>2. ASSUME NEW m \in Members, NEW k \in 1..Len(queue'[m]) PROVE queue'[m][k] \in saved
      <3>1. queue[m] \in Seq(Clocks) /\ \A j \in 1..Len(queue[m]) : queue[m][j] \in saved
        BY DEF TypeOK, InFlight
      <3>2. queue'[m] = queue[m] \/ queue'[m] = Append(queue[m], op[h].clock)
        BY <1>8 DEF ClockOpPublish
      <3>3. QED
        BY <2>1, <2>2, <3>1, <3>2
    <2>3. \A k \in HostTabs : op'[k].at = "idle" \/ op'[k] = op[k]
      BY <1>8 DEF TypeOK, ClockOpPublish, Idle
    <2>4. UNCHANGED <<now, stored, saved, room, sync>>
      BY <1>8 DEF ClockOpPublish
    <2>5. QED
      BY <2>2, <2>3, <2>4 DEF InFlight, Real
  <1>9. ASSUME NEW s \in Members, JoinSubscribe(s) PROVE InFlight'
    <2>1. \A m \in Members : room'[m].at = "load" \/ room'[m] = room[m]
      BY <1>9 DEF TypeOK, JoinSubscribe
    <2>2. ASSUME NEW m \in Members, NEW k \in 1..Len(queue'[m]) PROVE queue'[m][k] \in saved
      <3>1. queue'[m] = <<>> \/ queue'[m] = queue[m]
        BY <1>9 DEF TypeOK, JoinSubscribe
      <3>2. QED
        BY <2>2, <3>1 DEF InFlight
    <2>3. UNCHANGED <<now, stored, saved, op, sync>>
      BY <1>9 DEF JoinSubscribe
    <2>4. QED
      BY <2>1, <2>2, <2>3 DEF InFlight, Real
  <1>10. ASSUME NEW s \in Members, JoinLoad(s) PROVE InFlight'
    <2>1. Real(Anchor(0, FALSE, 0)) /\ Anchor(0, FALSE, 0).at <= now
      BY PartyClockAssumption DEF InFlight, Real, Anchor, TypeOK
    <2>2. PICK c : /\ Real(c) /\ c.at <= now
                   /\ room' = [room EXCEPT ![s] = [at |-> "send", clock |-> c]]
      BY <1>10, <2>1, LoadedReal DEF JoinLoad
    <2>3. QED
      BY <1>10, <2>2 DEF TypeOK, InFlight, Real, JoinLoad
  <1>11. ASSUME NEW s \in Members, SendState(s) PROVE InFlight'
    BY <1>11 DEF TypeOK, InFlight, Real, SendState
  <1>12. ASSUME NEW s \in Members, Leave(s) PROVE InFlight'
    <2>1. \A m \in Members : /\ room'[m].at = "out" \/ room'[m] = room[m]
                             /\ sync'[m].at = "idle" \/ sync'[m] = sync[m]
      BY <1>12 DEF TypeOK, Leave, Idle
    <2>2. ASSUME NEW m \in Members, NEW k \in 1..Len(queue'[m]) PROVE queue'[m][k] \in saved
      <3>1. queue'[m] = <<>> \/ queue'[m] = queue[m]
        BY <1>12 DEF TypeOK, Leave
      <3>2. QED
        BY <2>2, <3>1 DEF InFlight
    <2>3. UNCHANGED <<now, stored, saved, op>>
      BY <1>12 DEF Leave
    <2>4. QED
      BY <2>1, <2>2, <2>3 DEF InFlight, Real
  <1>13. ASSUME NEW s \in Members, Forward(s) PROVE InFlight'
    <2>1. ASSUME NEW m \in Members, NEW k \in 1..Len(queue'[m]) PROVE queue'[m][k] \in saved
      <3>1. queue[m] \in Seq(Clocks) /\ \A j \in 1..Len(queue[m]) : queue[m][j] \in saved
        BY DEF TypeOK, InFlight
      <3>2. queue'[m] = queue[m] \/ (queue[m] # <<>> /\ queue'[m] = Tail(queue[m]))
        BY <1>13 DEF TypeOK, Forward
      <3>3. CASE queue[m] # <<>> /\ queue'[m] = Tail(queue[m])
        <4>1. k + 1 \in 1..Len(queue[m]) /\ queue'[m][k] = queue[m][k + 1]
          BY <2>1, <3>1, <3>3
        <4>2. QED
          BY <3>1, <4>1
      <3>4. QED
        BY <2>1, <3>1, <3>2, <3>3
    <2>2. QED
      BY <1>13, <2>1 DEF InFlight, Real, Forward
  <1>14. ASSUME NEW s \in Members, SyncLoad(s) PROVE InFlight'
    BY <1>14, LoadedReal DEF TypeOK, InFlight, Real, SyncLoad
  <1>15. ASSUME NEW s \in Members, SyncSend(s) PROVE InFlight'
    BY <1>15 DEF TypeOK, InFlight, Real, SyncSend, Idle
  <1>16. CASE UNCHANGED vars
    BY <1>16 DEF InFlight, Real, vars
  <1>17. QED
    BY <1>3, <1>4, <1>5, <1>6, <1>7, <1>8, <1>9, <1>10, <1>11, <1>12, <1>13, <1>14, <1>15, <1>16
       DEF Next, ClockOp, Join, Sync

(* What a step leaves on a member's screen stays as real as it was, and a  *)
(* frame shows a stored anchor.                                            *)
LEMMA ShownStep == TypeOK /\ InFlight /\ Shown /\ [Next]_vars => Shown'
  <1> SUFFICES ASSUME TypeOK, InFlight, Shown, [Next]_vars PROVE Shown'
    OBVIOUS
  <1> DEFINE Late(v) == \E b \in saved, d \in ServerTime : RunsLate(v, b, d)
  <1>1. saved \subseteq saved' /\ now <= now' /\ now \in ServerTime /\ now' \in ServerTime
    BY SavedGrows, ClockTypeStep DEF TypeOK, ServerTime
  <1>2. ServerTime \subseteq Int
    BY PartyClockAssumption DEF ServerTime
  <1>3. \A c \in Clocks : [c EXCEPT !.at = now].at = now
    BY DEF Clocks
  <1>4. SUFFICES \A s \in Members :
                    \/ view'[s] = view[s]
                    \/ view'[s].at <= now /\ Late(view'[s])
    <2> SUFFICES ASSUME NEW s \in Members
                 PROVE  view'[s].at <= now' /\ \E b \in saved', d \in ServerTime : RunsLate(view'[s], b, d)
      BY DEF Shown, RunsLate, ServerTime
    <2>1. view[s].at <= now /\ Late(view[s])
      BY DEF Shown
    <2>2. view'[s].at <= now /\ Late(view'[s])
      BY <1>4, <2>1
    <2>3. view'[s].at \in ServerTime
      <3>1. TypeOK'
        BY ClockTypeStep
      <3>2. QED
        BY <3>1 DEF TypeOK, Clocks, ServerTime
    <2>4. view'[s].at <= now'
      <3>1. view'[s].at \in Int /\ now \in Int /\ now' \in Int
        BY <1>1, <1>2, <2>3
      <3>2. view'[s].at <= now /\ now <= now'
        BY <1>1, <2>2
      <3>3. QED
        BY <3>1, <3>2
    <2>5. \E b \in saved', d \in ServerTime : RunsLate(view'[s], b, d)
      BY <1>1, <2>2
    <2>6. QED
      BY <2>4, <2>5
  <1>5. CASE UNCHANGED view
    BY <1>5
  <1>6. ASSUME NEW s \in Members, NEW c \in Clocks, Show(s, c), Late([c EXCEPT !.at = now])
        PROVE  \A m \in Members : view'[m] = view[m] \/ (view'[m].at <= now /\ Late(view'[m]))
    <2>1. \A m \in Members : m # s => view'[m] = view[m]
      BY <1>6 DEF TypeOK, Show
    <2>2. view'[s] = [c EXCEPT !.at = now]
      BY <1>6 DEF TypeOK, Show
    <2>3. view'[s].at <= now
      BY <1>1, <1>2, <1>3, <2>2
    <2>4. Late(view'[s])
      BY <1>6, <2>2
    <2>5. QED
      BY <2>1, <2>3, <2>4
  <1>7. ASSUME NEW s \in Members, SendState(s) \/ SyncSend(s)
        PROVE  \A m \in Members : view'[m] = view[m] \/ (view'[m].at <= now /\ Late(view'[m]))
    <2>1. PICK c \in Clocks : Real(c) /\ c.at <= now /\ Show(s, Synced(c, now))
      <3>1. CASE SendState(s)
        <4>1. room[s].clock \in Clocks /\ Real(room[s].clock) /\ room[s].clock.at <= now
          BY <3>1 DEF TypeOK, InFlight, SendState
        <4>2. QED
          BY <3>1, <4>1 DEF SendState
      <3>2. CASE SyncSend(s)
        <4>1. sync[s].clock \in Clocks /\ Real(sync[s].clock) /\ sync[s].clock.at <= now
          BY <3>2 DEF TypeOK, InFlight, SyncSend, Idle
        <4>2. QED
          BY <3>2, <4>1 DEF SyncSend
      <3>3. QED
        BY <1>7, <3>1, <3>2
    <2>2. Synced(c, now) \in Clocks
      BY <1>1, SyncedTyped
    <2>3. Late([Synced(c, now) EXCEPT !.at = now])
      BY <2>1, SyncedShown
    <2>4. QED
      BY <1>6, <2>1, <2>2, <2>3
  <1>8. ASSUME NEW s \in Members, Forward(s)
        PROVE  \A m \in Members : view'[m] = view[m] \/ (view'[m].at <= now /\ Late(view'[m]))
    <2>1. Head(queue[s]) \in saved /\ Show(s, Head(queue[s]))
      <3>1. queue[s] \in Seq(Clocks) /\ queue[s] # <<>>
        BY <1>8 DEF TypeOK, Forward
      <3>2. 1 \in 1..Len(queue[s]) /\ Head(queue[s]) = queue[s][1]
        BY <3>1
      <3>3. QED
        BY <1>8, <3>2 DEF InFlight, Forward
    <2>2. Head(queue[s]) \in Clocks
      BY <2>1 DEF TypeOK
    <2>3. Late([Head(queue[s]) EXCEPT !.at = now])
      BY <2>1, RelayedShown
    <2>4. QED
      BY <1>6, <2>1, <2>2, <2>3
  <1>9. ASSUME NEW s \in Members, Leave(s)
         PROVE  \A m \in Members : view'[m] = view[m] \/ (view'[m].at <= now /\ Late(view'[m]))
    <2> DEFINE z == Anchor(0, FALSE, 0)
    <2>1. z \in saved /\ z \in Clocks /\ z.at = 0 /\ 0 \in ServerTime
      BY UnsetTyped, PartyClockAssumption DEF InFlight, Anchor, ServerTime
    <2>2. z.at <= now
      BY <2>1 DEF InFlight
    <2>3. \A m \in Members : view'[m] = view[m] \/ view'[m] = z
      BY <1>9 DEF TypeOK, Leave
    <2> HIDE DEF z
    <2>4. RunsLate(z, z, 0)
      <3>1. z.at <= z.at - 0
        BY <2>1
      <3>2. \A t \in Int : PositionAt(z, t) = PositionAt(z, t - 0)
        <4>1. \A t \in Int : t - 0 = t
          OBVIOUS
        <4>2. QED
          BY <4>1
      <3>3. QED
        BY <2>1, <3>1, <3>2 DEF RunsLate
    <2>5. QED
      BY <2>1, <2>2, <2>3, <2>4
  <1>10. ASSUME NEW s \in Members, JoinSubscribe(s) \/ JoinLoad(s) \/ SyncLoad(s)
         PROVE  UNCHANGED view
    BY <1>10 DEF JoinSubscribe, JoinLoad, SyncLoad
  <1>11. ASSUME NEW h \in HostTabs, ClockOp(h) PROVE UNCHANGED view
    BY <1>11 DEF ClockOp, ClockOpLoad, ClockOpTransform, ClockOpSave, ClockOpFails, ClockOpPublish
  <1>12. CASE Tick \/ UNCHANGED vars
    BY <1>5, <1>12 DEF Tick, vars
  <1> HIDE DEF Late
  <1>13. QED
    BY <1>5, <1>7, <1>8, <1>9, <1>10, <1>11, <1>12 DEF Next, Join, Sync

(* Whatever of clock, sync and state frames came last, and however long it *)
(* took: a member is shown a clock that the room had, never one mixed from *)
(* two, running when it was paused, or ahead of it.                        *)
THEOREM ClockShownWasReal == Spec => []ShownWasReal
  <1>1. Init => InFlight /\ Shown
    <2> SUFFICES ASSUME Init PROVE InFlight /\ Shown
      OBVIOUS
    <2> DEFINE z == Anchor(0, FALSE, 0)
    <2>1. z \in Clocks /\ z.at = 0 /\ 0 \in ServerTime /\ z \in saved /\ now = 0
      BY UnsetTyped, PartyClockAssumption DEF Init, Anchor, ServerTime
    <2>2. InFlight
      <3>1. \A c \in saved : c = z
        BY DEF Init
      <3>2. /\ \A h \in HostTabs : op[h].at = "idle"
            /\ \A s \in Members : room[s].at = "out" /\ queue[s] = <<>> /\ sync[s].at = "idle"
            /\ stored = Unset
        BY DEF Init, Idle
      <3>3. 0 <= 0
        OBVIOUS
      <3>4. \A c \in saved : c.at <= now
        BY <2>1, <3>1, <3>3
      <3>5. ASSUME NEW s \in Members
            PROVE  /\ \A k \in 1..Len(queue[s]) : queue[s][k] \in saved
                   /\ room[s].at # "send" /\ sync[s].at # "send"
        BY <3>2
      <3>6. ASSUME NEW h \in HostTabs PROVE op[h].at # "save" /\ op[h].at # "publish"
        BY <3>2
      <3>7. Anchor(0, FALSE, 0) \in saved
        BY <2>1
      <3> HIDE DEF z
      <3>8. QED
        BY <3>2, <3>4, <3>5, <3>6, <3>7 DEF InFlight
    <2>3. \A s \in Members : view[s] = z
      BY DEF Init
    <2> HIDE DEF z
    <2>4. RunsLate(z, z, 0)
      <3>1. z.at <= z.at - 0
        BY <2>1
      <3>2. \A t \in Int : PositionAt(z, t) = PositionAt(z, t - 0)
        <4>1. \A t \in Int : t - 0 = t
          OBVIOUS
        <4>2. QED
          BY <4>1
      <3>3. QED
        BY <2>1, <3>1, <3>2 DEF RunsLate
    <2>5. z.at <= now
      BY <2>1
    <2>6. Shown
      BY <2>1, <2>3, <2>4, <2>5 DEF Shown
    <2>7. QED
      BY <2>2, <2>6
  <1>2. TypeOK /\ Shown => ShownWasReal
    <2> SUFFICES ASSUME TypeOK, Shown, NEW s \in Members
                 PROVE  \E c \in saved, d \in 0..MaxTime : ShowsLate(view[s], c, d)
      BY DEF ShownWasReal
    <2>1. PICK c \in saved, d \in ServerTime : RunsLate(view[s], c, d)
      BY DEF Shown
    <2>2. /\ now \in Int /\ view[s].at \in Int /\ c.at \in Int
          /\ d \in Int /\ MaxTime \in Int
      <3>1. now \in Int /\ d \in Int /\ MaxTime \in Int
        BY PartyClockAssumption DEF TypeOK, ServerTime
      <3>2. \A k \in Clocks : k.at \in Int
        BY PartyClockAssumption DEF Clocks
      <3>3. c \in Clocks /\ view[s] \in Clocks
        BY DEF TypeOK
      <3>4. QED
        BY <3>1, <3>2, <3>3
    <2>3. view[s].at <= now
      BY DEF Shown
    <2>4. c.at <= now - d
      BY <2>1, <2>2, <2>3 DEF RunsLate
    <2>5. \A t \in Horizon : t \in Int /\ view[s].at <= t
      BY <2>2, <2>3 DEF Horizon
    <2>6. ShowsLate(view[s], c, d)
      BY <2>1, <2>4, <2>5 DEF RunsLate, ShowsLate
    <2>7. QED
      BY <2>6 DEF ServerTime
  <1>3. QED
    BY <1>1, <1>2, InFlightStep, ShownStep, ClockTypeCorrect, ClockTypeStep, PTL DEF Spec

----------------------------------------------------------------------------
TxStates == {"none", "update", "insert", "commit", "done", "violated", "aborted"}
Tx == [at : TxStates, seen : SUBSET Parties, mine : SUBSET Parties]
Sweeps ==
    {NoSweep} \cup [at : {"next"}, todo : SUBSET Parties]
    \cup [at : {"close", "live"}, todo : SUBSET Parties, party : Parties]

LEMMA AgesTyped == Top \in Nat /\ Unlisted \in Nat /\ Top < Unlisted /\ 0 \in 0..Top
  BY LifecycleAssumption DEF Top, Unlisted

(* Ageing stays within the cap, listed or not.                             *)
LEMMA OlderTyped ==
    /\ \A a \in 0..Top : Older(a) \in 0..Top
    /\ \A a \in 0..Unlisted : Older(a) \in 0..Unlisted
  BY AgesTyped DEF Older

LEMMA AfterSweepTyped ==
    ASSUME NEW p \in Parties, sweep.todo \in SUBSET Parties
    PROVE  AfterSweepOf(p) \in Sweeps
  BY DEF AfterSweepOf, Sweeps

(* A heartbeat's scores, and the dropping of the live state.               *)
LEMMA TouchTyped ==
    ASSUME NEW p \in Parties, NEW u \in Users, LifeTypeOK, Touch(p, u)
    PROVE  /\ score' \in [Parties -> [Users -> 0..Unlisted]]
           /\ beat' \in [Parties -> 0..Top]
  BY AgesTyped DEF LifeTypeOK, Touch

LEMMA DropLiveTyped ==
    ASSUME NEW p \in Parties, LifeTypeOK, DropLive(p) \/ UNCHANGED <<score, inside>>
    PROVE  /\ score' \in [Parties -> [Users -> 0..Unlisted]]
           /\ inside' \in [Parties -> SUBSET Users]
  <1>1. [u \in Users |-> Unlisted] \in [Users -> 0..Unlisted]
    BY AgesTyped
  <1>2. CASE DropLive(p)
    <2>1. score' = [score EXCEPT ![p] = [u \in Users |-> Unlisted]]
      BY <1>2 DEF DropLive
    <2>2. score' \in [Parties -> [Users -> 0..Unlisted]]
      BY <1>1, <2>1 DEF LifeTypeOK
    <2>3. inside' \in [Parties -> SUBSET Users]
      BY <1>2 DEF LifeTypeOK, DropLive
    <2>4. QED
      BY <2>2, <2>3
  <1>3. CASE UNCHANGED <<score, inside>>
    BY <1>3 DEF LifeTypeOK
  <1>4. QED
    BY <1>2, <1>3

LEMMA CreateTyped ==
    ASSUME NEW p \in Parties, LifeTypeOK, Create(p)
    PROVE  LifeTypeOK'
  <1> USE DEF LifeTypeOK, SameHost, NoTx, liveVars, NoSweep
  <1>1. CASE CreateBegin(p)
    BY <1>1 DEF CreateBegin
  <1>2. CASE CreateClosePrevious(p)
    <2>1. {q \in tx[p].seen : Open(q)} \in SUBSET Parties
      OBVIOUS
    <2>2. QED
      BY <1>2, <2>1 DEF CreateClosePrevious
  <1>3. CASE CreateInsert(p)
    <2>1. tx' \in {[tx EXCEPT ![p] = [NoTx EXCEPT !.at = "violated"]],
                   [tx EXCEPT ![p] = [@ EXCEPT !.at = "commit"]]}
      BY <1>3 DEF CreateInsert
    <2>2. tx[p] \in Tx /\ NoTx \in Tx
      BY DEF Tx, TxStates
    <2> HIDE DEF NoTx
    <2>3. [NoTx EXCEPT !.at = "violated"] \in Tx /\ [tx[p] EXCEPT !.at = "commit"] \in Tx
      BY <2>2 DEF Tx, TxStates
    <2>4. tx' \in [Parties -> Tx]
      BY <2>1, <2>3, ZenonT(60) DEF Tx, TxStates
    <2>5. UNCHANGED <<row, closing, sweep, liveVars>>
      BY <1>3 DEF CreateInsert
    <2>6. QED
      BY <2>4, <2>5 DEF Tx, TxStates
  <1>4. CASE CreateCommit(p)
    BY <1>4, AgesTyped DEF CreateCommit
  <1>5. CASE CreateAbort(p)
    BY <1>5 DEF CreateAbort
  <1>6. QED
    BY <1>1, <1>2, <1>3, <1>4, <1>5 DEF Create

LEMMA SweepTyped ==
    ASSUME NEW p \in Parties, LifeTypeOK, Sweep(p) \/ SweepSkip(p)
    PROVE  LifeTypeOK'
  <1>1. sweep \in Sweeps
    BY DEF LifeTypeOK, Sweeps
  <1>2. CASE SweepSpare(p) \/ SweepSkip(p)
    <2>1. sweep.todo \in SUBSET Parties
      BY <1>1, <1>2 DEF Sweeps, NoSweep, SweepSpare, SweepSkip
    <2>2. sweep' \in Sweeps
      BY <1>2, <2>1, AfterSweepTyped DEF SweepSpare, SweepSkip
    <2>3. UNCHANGED <<row, tx, closing, made, inside, score, beat>>
      BY <1>2 DEF SweepSpare, SweepSkip, liveVars
    <2>4. QED
      BY <2>2, <2>3 DEF LifeTypeOK, Sweeps
  <1>3. CASE SweepCondemn(p)
    <2>1. sweep.todo \in SUBSET Parties
      BY <1>1, <1>3 DEF Sweeps, NoSweep, SweepCondemn
    <2>2. QED
      BY <1>3, <2>1 DEF LifeTypeOK, SweepCondemn, liveVars
  <1>4. CASE SweepCloseRow(p)
    <2>1. sweep \in [at : {"close", "live"}, todo : SUBSET Parties, party : Parties]
      BY <1>1, <1>4 DEF Sweeps, NoSweep, SweepCloseRow
    <2>2. sweep' \in Sweeps
      BY <1>4, <2>1, AfterSweepTyped DEF SweepCloseRow, Sweeps
    <2>3. row' \in [Parties -> {"none", "open", "closed"}]
      BY <1>4 DEF SweepCloseRow, LifeTypeOK
    <2>4. QED
      BY <1>4, <2>2, <2>3 DEF LifeTypeOK, SweepCloseRow, liveVars, Sweeps
  <1>5. CASE SweepCloseLive(p)
    <2>1. sweep.todo \in SUBSET Parties
      BY <1>1, <1>5 DEF Sweeps, NoSweep, SweepCloseLive
    <2>2. sweep' \in Sweeps
      BY <1>5, <2>1, AfterSweepTyped DEF SweepCloseLive
    <2>3. score' \in [Parties -> [Users -> 0..Unlisted]] /\ inside' \in [Parties -> SUBSET Users]
      BY <1>5, DropLiveTyped DEF SweepCloseLive
    <2>4. QED
      BY <1>5, <2>2, <2>3 DEF LifeTypeOK, SweepCloseLive, Sweeps
  <1>6. QED
    BY <1>2, <1>3, <1>4, <1>5 DEF Sweep

(* The variables stay in their types.                                      *)
LEMMA LifecycleTypeStep == LifeTypeOK /\ [LifeNext]_lifeVars => LifeTypeOK'
  <1> SUFFICES ASSUME LifeTypeOK, [LifeNext]_lifeVars PROVE LifeTypeOK'
    OBVIOUS
  <1>1. CASE TimePasses
    BY <1>1, OlderTyped DEF LifeTypeOK, TimePasses
  <1>2. CASE SweepList \/ SweepDies
    BY <1>2 DEF LifeTypeOK, SweepList, SweepDies, NoSweep, liveVars
  <1>3. ASSUME NEW p \in Parties, Create(p) PROVE LifeTypeOK'
    BY <1>3, CreateTyped
  <1>4. ASSUME NEW p \in Parties, HostClose(p) PROVE LifeTypeOK'
    BY <1>4 DEF LifeTypeOK, HostClose, liveVars
  <1>5. ASSUME NEW p \in Parties, HostCloseLive(p) PROVE LifeTypeOK'
    BY <1>5, DropLiveTyped DEF LifeTypeOK, HostCloseLive
  <1>6. ASSUME NEW p \in Parties, Sweep(p) \/ SweepSkip(p) PROVE LifeTypeOK'
    BY <1>6, SweepTyped
  <1>7. ASSUME NEW p \in Parties, NEW u \in Users, Enter(p, u) \/ Heartbeat(p, u) PROVE LifeTypeOK'
    <2>1. Touch(p, u)
      BY <1>7 DEF Enter, Heartbeat
    <2>2. inside' \in [Parties -> SUBSET Users]
      BY <1>7 DEF LifeTypeOK, Enter, Heartbeat
    <2>3. UNCHANGED <<row, tx, made, closing, sweep>>
      BY <1>7 DEF Enter, Heartbeat
    <2>4. QED
      BY <2>1, <2>2, <2>3, TouchTyped DEF LifeTypeOK
  <1>8. ASSUME NEW p \in Parties, NEW u \in Users, Exit(p, u) PROVE LifeTypeOK'
    <2>1. [score[p] EXCEPT ![u] = Unlisted] \in [Users -> 0..Unlisted]
      BY AgesTyped DEF LifeTypeOK
    <2>2. score' \in {[score EXCEPT ![p] = [score[p] EXCEPT ![u] = Unlisted]], score}
      BY <1>8 DEF Exit
    <2>3. score' \in [Parties -> [Users -> 0..Unlisted]]
      BY <2>1, <2>2 DEF LifeTypeOK
    <2>4. QED
      BY <1>8, <2>3 DEF LifeTypeOK, Exit
  <1>9. CASE UNCHANGED lifeVars
    BY <1>9 DEF LifeTypeOK, lifeVars
  <1>10. QED
    BY <1>1, <1>2, <1>3, <1>4, <1>5, <1>6, <1>7, <1>8, <1>9 DEF LifeNext

(* The variables stay in their types: ages and scores within the caps of   *)
(* the model, a transaction and the sweep in a step they can be in.        *)
THEOREM LifecycleTypeCorrect == LifeSpec => []LifeTypeOK
  <1>1. LifeInit => LifeTypeOK
    BY AgesTyped DEF LifeInit, LifeTypeOK, NoTx
  <1>2. QED
    BY <1>1, LifecycleTypeStep, PTL DEF LifeSpec
----------------------------------------------------------------------------
(* A transaction that is about to commit closes every open room of its     *)
(* host, and no other transaction of the host is about to commit.          *)
CommitsAlone ==
    \A p, q \in Parties :
        tx[p].at = "commit" /\ HostOf[p] = HostOf[q] /\ p # q =>
            (Open(q) => q \in tx[p].mine) /\ tx[q].at # "commit"

HostInv == OneOpenPerHost /\ CommitsAlone

(* Only Create opens a row: any other step closes rows or leaves them.     *)
LEMMA OnlyCommitOpens ==
    ASSUME LifeTypeOK, [LifeNext]_lifeVars, ~\E p \in Parties : Create(p)
    PROVE  /\ \A q \in Parties : Open(q)' => Open(q)
           /\ UNCHANGED tx
  <1>1. CASE TimePasses \/ SweepList \/ SweepDies \/ UNCHANGED lifeVars
    BY <1>1 DEF TimePasses, SweepList, SweepDies, lifeVars, Open
  <1>2. ASSUME NEW p \in Parties, HostClose(p) \/ HostCloseLive(p) \/ Sweep(p) \/ SweepSkip(p)
        PROVE  (\A q \in Parties : Open(q)' => Open(q)) /\ UNCHANGED tx
    BY <1>2 DEF LifeTypeOK, Open, HostClose, HostCloseLive, Sweep, SweepSkip, SweepSpare,
                SweepCondemn, SweepCloseRow, SweepCloseLive
  <1>3. ASSUME NEW p \in Parties, NEW u \in Users, Enter(p, u) \/ Heartbeat(p, u) \/ Exit(p, u)
        PROVE  UNCHANGED <<row, tx>>
    BY <1>3 DEF Enter, Heartbeat, Exit
  <1>4. QED
    BY <1>1, <1>2, <1>3 DEF LifeNext, Open

LEMMA HostInvStep == LifeTypeOK /\ HostInv /\ [LifeNext]_lifeVars => HostInv'
  <1> SUFFICES ASSUME LifeTypeOK, HostInv, [LifeNext]_lifeVars PROVE HostInv'
    OBVIOUS
  <1> USE DEF HostInv, OneOpenPerHost, CommitsAlone, Open
  <1>1. ASSUME NEW p \in Parties, CreateBegin(p) \/ CreateClosePrevious(p) \/ CreateAbort(p)
        PROVE  HostInv'
    <2>1. row' = row /\ tx'[p].at # "commit" /\ \A q \in Parties \ {p} : tx'[q] = tx[q]
      <3>1. CASE CreateBegin(p)
        BY <3>1 DEF LifeTypeOK, CreateBegin, NoTx
      <3>2. CASE CreateClosePrevious(p)
        BY <3>2 DEF LifeTypeOK, CreateClosePrevious
      <3>3. CASE CreateAbort(p)
        BY <3>3 DEF LifeTypeOK, CreateAbort, NoTx
      <3>4. QED
        BY <1>1, <3>1, <3>2, <3>3
    <2>2. QED
      BY <2>1
  <1>2. ASSUME NEW p \in Parties, CreateInsert(p)
        PROVE  HostInv'
    <2>1. row' = row /\ \A q \in Parties \ {p} : tx'[q] = tx[q]
      BY <1>2 DEF LifeTypeOK, CreateInsert
    <2>2. tx'[p].at = "commit" =>
            /\ tx'[p].mine = tx[p].mine
            /\ \A q \in SameHost(p) \ {p} : tx[q].at # "commit" /\ (Open(q) => q \in tx[p].mine)
      BY <1>2 DEF LifeTypeOK, CreateInsert, NoTx
    <2>3. QED
      BY <2>1, <2>2 DEF SameHost
  <1>3. ASSUME NEW p \in Parties, CreateCommit(p)
        PROVE  HostInv'
    <2>1. tx[p].at = "commit" /\ tx'[p].at = "done" /\ \A q \in Parties \ {p} : tx'[q] = tx[q]
      BY <1>3 DEF LifeTypeOK, CreateCommit, NoTx
    <2>2. \A q \in Parties : Open(q)' => q = p \/ (Open(q) /\ q \notin tx[p].mine)
      BY <1>3 DEF CreateCommit
    <2>3. QED
      BY <2>1, <2>2
  <1>4. CASE ~\E p \in Parties : Create(p)
    BY <1>4, OnlyCommitOpens
  <1>5. QED
    BY <1>1, <1>2, <1>3, <1>4 DEF Create

(* A host has at most one open room, whatever Creates, closes and sweeps   *)
(* interleave (the unique index of queries/parties.sql).                   *)
THEOREM LifecycleOneOpenPerHost == LifeSpec => []OneOpenPerHost
  <1>1. LifeInit => HostInv
    BY DEF LifeInit, HostInv, OneOpenPerHost, CommitsAlone, Open, NoTx
  <1>2. HostInv => OneOpenPerHost
    BY DEF HostInv
  <1>3. QED
    BY <1>1, <1>2, HostInvStep, LifecycleTypeCorrect, PTL DEF LifeSpec
----------------------------------------------------------------------------
(* A party has a row from the commit of its Create on, and the rows a      *)
(* Create looks at or closes exist and are its host's.                     *)
RowsOfCreates ==
    \A p \in Parties :
        /\ row[p] # "none" <=> tx[p].at = "done"
        /\ \A q \in tx[p].seen \cup tx[p].mine : row[q] # "none" /\ HostOf[q] = HostOf[p]

LEMMA RowsStep == LifeTypeOK /\ RowsOfCreates /\ [LifeNext]_lifeVars => RowsOfCreates'
  <1> SUFFICES ASSUME LifeTypeOK, RowsOfCreates, [LifeNext]_lifeVars PROVE RowsOfCreates'
    OBVIOUS
  <1> USE DEF RowsOfCreates, Open, SameHost
  <1>1. ASSUME NEW p \in Parties, CreateBegin(p)
        PROVE  RowsOfCreates'
    BY <1>1 DEF LifeTypeOK, CreateBegin, NoTx
  <1>2. ASSUME NEW p \in Parties, CreateClosePrevious(p)
        PROVE  RowsOfCreates'
    BY <1>2 DEF LifeTypeOK, CreateClosePrevious
  <1>3. ASSUME NEW p \in Parties, CreateInsert(p)
        PROVE  RowsOfCreates'
    BY <1>3 DEF LifeTypeOK, CreateInsert, NoTx
  <1>4. ASSUME NEW p \in Parties, CreateAbort(p)
        PROVE  RowsOfCreates'
    BY <1>4 DEF LifeTypeOK, CreateAbort, NoTx
  <1>5. ASSUME NEW p \in Parties, CreateCommit(p)
        PROVE  RowsOfCreates'
    BY <1>5 DEF LifeTypeOK, CreateCommit, NoTx
  <1>6. CASE ~\E p \in Parties : Create(p)
    <2>1. UNCHANGED tx
      BY <1>6, OnlyCommitOpens
    <2>2. \A q \in Parties : row'[q] # "none" <=> row[q] # "none"
      BY <1>6 DEF LifeNext, lifeVars, TimePasses, SweepList, SweepDies, HostClose, HostCloseLive, Sweep,
                  SweepSkip, SweepSpare, SweepCondemn, SweepCloseRow, SweepCloseLive,
                  Enter, Heartbeat, Exit, LifeTypeOK
    <2>3. QED
      BY <2>1, <2>2 DEF LifeTypeOK
  <1>7. QED
    BY <1>1, <1>2, <1>3, <1>4, <1>5, <1>6 DEF Create

(* A room that was closed, by whatever path, is never open again: no       *)
(* Create, late close or sweep reopens it or removes its row.              *)
ClosedForGood == [][\A p \in Parties : row[p] = "closed" => row'[p] = "closed"]_lifeVars

THEOREM LifecycleClosedForGood == LifeSpec => ClosedForGood
  <1>1. LifeInit => RowsOfCreates
    BY DEF LifeInit, RowsOfCreates, NoTx
  <1>2. LifeTypeOK /\ RowsOfCreates /\ [LifeNext]_lifeVars
          => [\A p \in Parties : row[p] = "closed" => row'[p] = "closed"]_lifeVars
    <2> SUFFICES ASSUME LifeTypeOK, RowsOfCreates, [LifeNext]_lifeVars, NEW p \in Parties, row[p] = "closed"
                 PROVE  row'[p] = "closed"
      OBVIOUS
    <2>1. RowsOfCreates'
      BY RowsStep
    <2>2. ASSUME NEW q \in Parties, Create(q) PROVE row'[p] = "closed"
      <3>1. CASE CreateCommit(q)
        <4>1. p # q
          BY <3>1 DEF RowsOfCreates, CreateCommit
        <4>2. QED
          BY <3>1, <4>1 DEF CreateCommit
      <3>2. CASE ~CreateCommit(q)
        BY <2>2, <3>2 DEF Create, CreateBegin, CreateClosePrevious, CreateInsert, CreateAbort
      <3>3. QED
        BY <3>1, <3>2
    <2>3. CASE ~\E q \in Parties : Create(q)
      <3>1. row'[p] # "open"
        BY <2>3, OnlyCommitOpens DEF Open
      <3>2. row'[p] # "none"
        BY <2>1, <2>3, OnlyCommitOpens DEF RowsOfCreates
      <3>3. row'[p] \in {"none", "open", "closed"}
        BY LifecycleTypeStep DEF LifeTypeOK
      <3>4. QED
        BY <3>1, <3>2, <3>3
    <2>4. QED
      BY <2>2, <2>3
  <1>3. QED
    BY <1>1, <1>2, RowsStep, LifecycleTypeCorrect, PTL DEF LifeSpec, ClosedForGood
=============================================================================
