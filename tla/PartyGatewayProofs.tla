-------------------------- MODULE PartyGatewayProofs --------------------------
(***************************************************************************)
(* Proofs about the party gateway, for any processes, rooms, users and     *)
(* sockets, any number of joins and closes: the types, one holder for      *)
(* every open subscription, no word of a close before it, and, as long as  *)
(* no leave's ZREM fails, nobody listed in an open room without a reason.  *)
(***************************************************************************)
EXTENDS PartyGateway, TLAPS

(* A join under way has a channel left to subscribe with, and a session in *)
(* a room has used one.                                                    *)
JoinsCounted ==
    \A s \in Sessions :
        /\ job[s].at = "subscribe" => sess[s].joins < MaxJoins
        /\ sess[s].party # NoParty => sess[s].joins >= 1

(* Once its leave has run, a join subscribes from outside any room, and no *)
(* leave of the read loop's own runs beside its work.                      *)
JoinsFromOutside ==
    \A s \in Sessions :
        /\ job[s].at = "subscribe" /\ leaver[s][0].at # "take" => sess[s].party = NoParty
        /\ job[s].at \notin {"idle", "subscribe"} => leaver[s][0].at = "none"

(* A channel is registered with its own process only.                      *)
OwnRegistry == \A i \in Instances, p \in Rooms : \A c \in rooms[i][p] : InstanceOf[c] = i

(* A forward goroutine starts with its join, and its leave at its end.     *)
ForwardsOnce ==
    \A s \in Sessions, j \in 1..MaxJoins :
        /\ j > sess[s].joins => fwd[<<s, j>>] = "none"
        /\ fwd[<<s, j>>] # "done" => leaver[s][j] = NoLeave

(* Word of a close: a call about to run, the bus, a channel, a detached    *)
(* leave.  The newest join's is about the room the session is in.          *)
ToldClosed(s, j) == HasClosed(<<s, j>>) \/ leaver[s][j].at = "take"

ClosesKnown ==
    /\ \A p \in Rooms : closing[p] => row[p] = "closed"
    /\ \A s \in Sessions, j \in 1..MaxJoins : ToldClosed(s, j) =>
          \E q \in Rooms : /\ row[q] = "closed"
                           /\ j = sess[s].joins /\ sess[s].party # NoParty => q = sess[s].party

(* The read loop works on the room its session is in, unless that room was *)
(* closed or a late leave took it.                                         *)
WorksOnItsRoom ==
    \A s \in Sessions : job[s].at \notin {"idle", "subscribe"} =>
        \/ sess[s].party = job[s].party
        \/ row[job[s].party] = "closed"
        \/ LateLeave(s, job[s].party)

(* The inductive invariants behind MembershipCoherent and NoGhosts.        *)
Membership ==
    /\ JoinsFromOutside /\ OwnRegistry /\ SessionCoherent
    /\ ForwardsOnce /\ ClosesKnown /\ ClosedFrameTruthful

GhostInv == WorksOnItsRoom /\ NoGhosts
----------------------------------------------------------------------------
(* A read loop's work, and what becomes of it step by step.                *)
LEMMA WorkTyped ==
    ASSUME TypeOK, NEW s \in Sessions, job[s].at # "idle"
    PROVE  job[s] \in Work /\ UserOf[s] \in Users
  BY GatewayAssumption DEF TypeOK, Job, Work, NoJob

(* The record a step leaves is again some work, or the loop is idle.       *)
LEMMA WorkMoves ==
    ASSUME NEW j \in Work
    PROVE  /\ \A a \in {"touch", "drop", "tell", "ids", "state", "announce"} : [j EXCEPT !.at = a] \in Work
           /\ AfterTouch(j) \in Job
           /\ j \in Job
  BY DEF Work, AfterTouch, Job, NoJob

LEMMA JobUpdated ==
    ASSUME TypeOK, NEW s \in Sessions, NEW j \in Job
    PROVE  [job EXCEPT ![s] = j] \in [Sessions -> Job]
  BY DEF TypeOK

LEMMA LeaverUpdated ==
    ASSUME TypeOK, NEW s \in Sessions, NEW a \in 0..MaxJoins, NEW l \in LeaveState
    PROVE  [leaver EXCEPT ![s][a] = l] \in [Sessions -> [0..MaxJoins -> LeaveState]]
  <1>1. [leaver[s] EXCEPT ![a] = l] \in [0..MaxJoins -> LeaveState]
    BY DEF TypeOK
  <1>2. QED
    BY <1>1 DEF TypeOK

LEMMA LeaverTyped ==
    ASSUME TypeOK, NEW s \in Sessions, NEW a \in 0..MaxJoins
    PROVE  /\ leaver[s][a] \in LeaveState
           /\ leaver[s][a].at \in {"cleanup", "zrem", "publish"} => leaver[s][a].party \in Rooms
           /\ leaver[s][a].at = "cleanup" => leaver[s][a].join \in 1..MaxJoins
  <1>1. leaver[s][a] \in LeaveState
    BY ZenonT(60) DEF TypeOK
  <1>2. QED
    BY <1>1 DEF LeaveState, NoLeave, LeaveCalled

(* An event is published on every wire or on none.                         *)
LEMMA BroadcastTyped ==
    ASSUME TypeOK, NEW p \in Rooms, NEW ev \in BusEvent, Broadcast(p, ev) \/ Publish(p, ev)
    PROVE  /\ wire' \in [Instances -> Seq(Envelope)]
           /\ UNCHANGED <<rooms, chan>>
  <1>1. Message(p, ev) \in Envelope
    BY DEF Message, Envelope
  <1>2. CASE Publish(p, ev)
    <2>1. \A i \in Instances :
             Append(wire[i], Message(p, ev)) \in Seq(Envelope)
      BY <1>1 DEF TypeOK
    <2>2. QED
      BY <1>2, <2>1 DEF Publish
  <1>3. CASE UNCHANGED hubVars
    BY <1>3 DEF TypeOK, hubVars
  <1>4. QED
    BY <1>2, <1>3 DEF Broadcast

LEMMA DispatchTyped ==
    ASSUME NEW chans \in [Subs -> Channel], NEW cs, NEW ev \in BusEvent
    PROVE  /\ Dispatch(chans, cs, ev) \in [Subs -> Channel]
           /\ \A c \in Subs : /\ Dispatch(chans, cs, ev)[c].state = chans[c].state
                              /\ c \notin cs => Dispatch(chans, cs, ev)[c] = chans[c]
  <1>1. \A c \in Subs : Offer(chans[c].buf, ev) \in Seq(BusEvent)
    BY DEF Offer, Channel
  <1>2. QED
    BY <1>1 DEF Dispatch, Channel

LEMMA AbsentTyped ==
    ASSUME TypeOK, NEW p \in Rooms, NEW us, Absent(p, us)
    PROVE  present' \in [Rooms -> [Users -> Score]]
  <1>1. [u \in Users |-> IF u \in us THEN "absent" ELSE present[p][u]]
           \in [Users -> Score]
    BY DEF TypeOK, Score
  <1>2. QED
    BY <1>1 DEF TypeOK, Absent

LEMMA ChannelsOfSession ==
    /\ \A s \in Sessions, j \in 1..MaxJoins : <<s, j>> \in Subs
    /\ \A c \in Subs : c[1] \in Sessions /\ c[2] \in 1..MaxJoins /\ c = <<c[1], c[2]>>
    /\ MaxJoins \in Nat /\ NoParty \notin Rooms /\ Presence = FALSE
    /\ InstanceOf \in [Subs -> Instances] /\ UserOf \in [Sessions -> Users]
  BY HubAssumption, GatewayAssumption

LEMMA SessionTyped ==
    ASSUME TypeOK, NEW s \in Sessions
    PROVE  /\ sess[s].party \in Rooms \cup {NoParty}
           /\ sess[s].joins \in 0..MaxJoins /\ sess[s].joins \in Nat
           /\ \A p \in Rooms \cup {NoParty} : [sess EXCEPT ![s].party = p] \in [Sessions -> Session]
           /\ \A st \in {"up", "gone", "crashed"} :
                 [sess EXCEPT ![s].state = st] \in [Sessions -> Session]
           /\ view[s] \in View
           /\ \A v \in View : [view EXCEPT ![s] = v] \in [Sessions -> View]
  <1>1. sess[s] \in Session
    BY DEF TypeOK
  <1>2. sess[s].party \in Rooms \cup {NoParty} /\ sess[s].joins \in 0..MaxJoins
    BY <1>1 DEF Session
  <1>n. sess[s].joins \in Nat
    BY <1>2, ChannelsOfSession
  <1>3. ASSUME NEW p \in Rooms \cup {NoParty}
        PROVE  [sess EXCEPT ![s].party = p] \in [Sessions -> Session]
    <2>1. [sess[s] EXCEPT !.party = p] \in Session
      BY <1>1 DEF Session
    <2>2. QED
      BY <2>1 DEF TypeOK
  <1>4. ASSUME NEW st \in {"up", "gone", "crashed"}
        PROVE  [sess EXCEPT ![s].state = st] \in [Sessions -> Session]
    <2>1. [sess[s] EXCEPT !.state = st] \in Session
      BY <1>1 DEF Session
    <2>2. QED
      BY <2>1 DEF TypeOK
  <1>5. view[s] \in View /\ \A v \in View : [view EXCEPT ![s] = v] \in [Sessions -> View]
    BY DEF TypeOK
  <1>6. QED
    BY <1>2, <1>n, <1>3, <1>4, <1>5

(* A session in a room has a join to its name.                             *)
LEMMA JoinInUse ==
    ASSUME TypeOK, JoinsCounted, NEW s \in Sessions, sess[s].party # NoParty
    PROVE  sess[s].party \in Rooms /\ sess[s].joins \in 1..MaxJoins
  <1>1. sess[s].party \in Rooms /\ sess[s].joins >= 1 /\ sess[s].joins \in 0..MaxJoins
    BY SessionTyped DEF JoinsCounted
  <1>2. QED
    BY <1>1, ChannelsOfSession

(* The types, one lemma per goroutine of the gateway.                      *)
LEMMA LeaveTypeStep ==
    ASSUME TypeOK, JoinsCounted, NEW s \in Sessions, NEW a \in 0..MaxJoins, Leave(s, a)
    PROVE  TypeOK'
  <1>l. leaver[s][a] \in LeaveState /\ UserOf[s] \in Users /\ sess[s].joins \in 0..MaxJoins
    BY ChannelsOfSession DEF TypeOK, Session
  <1>1. CASE LeaveNothing(s, a)
    <2>1. leaver' \in [Sessions -> [0..MaxJoins -> LeaveState]]
      BY <1>1, LeaverUpdated DEF LeaveNothing, LeaveState
    <2>2. QED
      BY <1>1, <2>1 DEF TypeOK, LeaveNothing, hubVars, partyVars
  <1>2. CASE LeaveTake(s, a)
    <2> DEFINE l == [at |-> "cleanup", party |-> sess[s].party, join |-> sess[s].joins]
    <2>1. l \in LeaveState
      <3>1. sess[s].party \in Rooms /\ sess[s].joins \in 1..MaxJoins
        BY <1>2, JoinInUse DEF LeaveTake
      <3>2. QED
        BY <3>1 DEF LeaveState
    <2>2. leaver' \in [Sessions -> [0..MaxJoins -> LeaveState]]
      <3>1. leaver' = [leaver EXCEPT ![s][a] = l]
        BY <1>2 DEF LeaveTake
      <3>2. QED
        BY <2>1, <3>1, LeaverUpdated
    <2>3. sess' \in [Sessions -> Session]
      BY <1>2, SessionTyped DEF LeaveTake
    <2>4. QED
      BY <1>2, <2>2, <2>3 DEF TypeOK, LeaveTake, hubVars, partyVars
  <1>c. CASE LeaveCleanup(s, a)
    <2> DEFINE p == leaver[s][a].party
               c == <<s, leaver[s][a].join>>
    <2>1. p \in Rooms /\ c \in Subs
      BY <1>c, LeaverTyped, ChannelsOfSession DEF LeaveCleanup
    <2>2. leaver' \in [Sessions -> [0..MaxJoins -> LeaveState]]
      <3>1. [at |-> "zrem", party |-> p] \in LeaveState
        BY <2>1 DEF LeaveState
      <3>2. leaver' = [leaver EXCEPT ![s][a] = [at |-> "zrem", party |-> p]]
        BY <1>c DEF LeaveCleanup
      <3>3. QED
        BY <3>1, <3>2, LeaverUpdated
    <2>3. chan' \in [Subs -> Channel]
      <3>1. chan' = [chan EXCEPT ![c].state = "closed"]
        BY <1>c, ChannelsOfSession DEF LeaveCleanup, Cleanup
      <3>2. QED
        BY <2>1, <3>1, ZenonT(60) DEF TypeOK, Channel
    <2>4. rooms' \in [Instances -> [Rooms -> SUBSET Subs]]
      <3>1. rooms' = [rooms EXCEPT ![InstanceOf[c]][p] = rooms[InstanceOf[c]][p] \ {c}]
        BY <1>c DEF LeaveCleanup, Cleanup
      <3>2. InstanceOf[c] \in Instances
        BY <2>1, ChannelsOfSession
      <3> HIDE DEF c, p
      <3>3. [rooms[InstanceOf[c]] EXCEPT ![p] = rooms[InstanceOf[c]][p] \ {c}]
               \in [Rooms -> SUBSET Subs]
        BY <2>1, <3>2 DEF TypeOK
      <3>4. QED
        BY <3>1, <3>2, <3>3 DEF TypeOK
    <2>5. UNCHANGED <<wire, row, closes, closing, present, sess, job, fwd, view>>
      BY <1>c DEF LeaveCleanup, Cleanup, partyVars
    <2>6. QED
      BY <2>2, <2>3, <2>4, <2>5 DEF TypeOK
  <1>3. CASE LeaveRemove(s, a)
    <2> DEFINE p == leaver[s][a].party
    <2>1. p \in Rooms
      BY <1>l, <1>3 DEF LeaveRemove, LeaveState, NoLeave, LeaveCalled
    <2>2. present' \in [Rooms -> [Users -> Score]]
      BY <1>3, <2>1, AbsentTyped DEF LeaveRemove
    <2>3. leaver' \in [Sessions -> [0..MaxJoins -> LeaveState]]
      <3>1. NoLeave \in LeaveState /\ [at |-> "publish", party |-> p] \in LeaveState
        BY <2>1 DEF LeaveState
      <3>2. QED
        BY <1>3, <3>1, LeaverUpdated DEF LeaveRemove
    <2>4. QED
      BY <1>3, <2>2, <2>3 DEF TypeOK, LeaveRemove, hubVars
  <1>4. CASE LeaveRemoveFails(s, a)
    <2>1. leaver' \in [Sessions -> [0..MaxJoins -> LeaveState]]
      BY <1>4, LeaverUpdated DEF LeaveRemoveFails, LeaveState
    <2>2. QED
      BY <1>4, <2>1 DEF TypeOK, LeaveRemoveFails, hubVars, partyVars
  <1>5. CASE LeavePublish(s, a)
    <2>1. leaver[s][a].party \in Rooms /\ Left(UserOf[s]) \in BusEvent
      BY <1>l, <1>5 DEF LeavePublish, LeaveState, NoLeave, LeaveCalled, Left, BusEvent
    <2>2. /\ wire' \in [Instances -> Seq(Envelope)]
          /\ UNCHANGED <<rooms, chan>>
      BY <1>5, <2>1, BroadcastTyped DEF LeavePublish
    <2>3. leaver' \in [Sessions -> [0..MaxJoins -> LeaveState]]
      BY <1>5, LeaverUpdated DEF LeavePublish, LeaveState
    <2>4. QED
      BY <1>5, <2>2, <2>3 DEF TypeOK, LeavePublish, partyVars
  <1>6. QED
    BY <1>1, <1>2, <1>c, <1>3, <1>4, <1>5 DEF Leave

(* The frames that come in.                                                *)
LEMMA FrameTypeStep ==
    ASSUME TypeOK, NEW s \in Sessions, NEW p \in Rooms,
           JoinRefused(s, p) \/ JoinGate(s, p) \/ Heartbeat(s) \/ LeaveFrame(s)
    PROVE  TypeOK'
  <1>0. 0 \in 0..MaxJoins /\ LeaveCalled \in LeaveState
    BY ChannelsOfSession DEF LeaveState
  <1>l. LeaveByLoop(s) => leaver' \in [Sessions -> [0..MaxJoins -> LeaveState]]
    BY <1>0, LeaverUpdated DEF LeaveByLoop, TypeOK
  <1>1. CASE JoinRefused(s, p)
    <2>1. [view[s] EXCEPT !.phase = "closed"] \in View
      BY SessionTyped DEF View
    <2>2. view' \in [Sessions -> View]
      BY <1>1, <2>1, SessionTyped DEF JoinRefused
    <2>3. QED
      BY <1>1, <2>2 DEF TypeOK, JoinRefused, hubVars, partyVars
  <1>2. CASE JoinGate(s, p)
    <2>1. job' \in [Sessions -> Job]
      BY <1>2 DEF JoinGate, TypeOK, Job, Work
    <2>2. QED
      BY <1>l, <1>2, <2>1 DEF TypeOK, JoinGate, hubVars, partyVars
  <1>3. CASE Heartbeat(s)
    <2>1. sess[s].party \in Rooms
      BY <1>3, SessionTyped DEF Heartbeat
    <2>2. job' \in [Sessions -> Job]
      BY <1>3, <2>1 DEF Heartbeat, TypeOK, Job, Work
    <2>3. QED
      BY <1>3, <2>2 DEF TypeOK, Heartbeat, hubVars, partyVars
  <1>4. CASE LeaveFrame(s)
    BY <1>l, <1>4 DEF TypeOK, LeaveFrame, hubVars, partyVars
  <1>5. QED
    BY <1>1, <1>2, <1>3, <1>4

(* What the read loop does with a frame.                                   *)
LEMMA HandleTypeStep ==
    ASSUME TypeOK, JoinsCounted, NEW s \in Sessions, Handle(s)
    PROVE  TypeOK'
  <1>a. job[s].at # "idle" => job[s] \in Work /\ UserOf[s] \in Users
    BY WorkTyped
  <1>b. job[s] \in Work => job[s].party \in Rooms /\ job[s].stale \in SUBSET Users
                             /\ job[s].ids \in SUBSET Users
    BY DEF Work
  <1>0. CASE Leave(s, 0)
    <2>1. 0 \in 0..MaxJoins
      BY ChannelsOfSession
    <2>2. QED
      BY <1>0, <2>1, LeaveTypeStep
  <1>1. CASE JoinSubscribe(s)
    <2> DEFINE c == <<s, sess[s].joins + 1>>
               p == job[s].party
    <2>1. p \in Rooms /\ job[s] \in Work
      BY <1>1, <1>a, <1>b DEF JoinSubscribe
    <2>2. sess[s].joins + 1 \in 1..MaxJoins /\ c \in Subs
      <3>1. sess[s].joins < MaxJoins /\ sess[s].joins \in 0..MaxJoins
        BY <1>1, SessionTyped DEF JoinSubscribe, JoinsCounted
      <3>2. QED
        BY <3>1, ChannelsOfSession
    <2>3. chan' = [chan EXCEPT ![c] = [state |-> "open", buf |-> <<>>]]
      BY <1>1, ChannelsOfSession DEF JoinSubscribe, Subscribe
    <2>4. chan' \in [Subs -> Channel]
      <3>1. [state |-> "open", buf |-> <<>>] \in Channel
        BY DEF Channel
      <3>2. QED
        BY <2>3, <3>1 DEF TypeOK
    <2>5. rooms' \in [Instances -> [Rooms -> SUBSET Subs]]
      <3>1. rooms' = [rooms EXCEPT ![InstanceOf[c]][p] = rooms[InstanceOf[c]][p] \cup {c}]
        BY <1>1 DEF JoinSubscribe, Subscribe
      <3>2. InstanceOf[c] \in Instances
        BY <2>2, ChannelsOfSession
      <3> HIDE DEF c, p
      <3>3. [rooms[InstanceOf[c]] EXCEPT ![p] = rooms[InstanceOf[c]][p] \cup {c}]
               \in [Rooms -> SUBSET Subs]
        BY <2>1, <2>2, <3>2 DEF TypeOK
      <3>4. QED
        BY <3>1, <3>2, <3>3 DEF TypeOK
    <2>6. sess' \in [Sessions -> Session]
      <3>1. sess' = [sess EXCEPT ![s].party = p, ![s].joins = sess[s].joins + 1]
        BY <1>1 DEF JoinSubscribe
      <3>2. sess'[s] = [sess[s] EXCEPT !.party = p, !.joins = sess[s].joins + 1]
        BY <3>1 DEF TypeOK
      <3>3. sess[s] \in Session /\ sess[s].joins + 1 \in 0..MaxJoins
        BY <2>2, ChannelsOfSession DEF TypeOK
      <3>4. sess'[s] \in Session
        BY <2>1, <3>2, <3>3 DEF Session
      <3>5. QED
        BY <3>1, <3>4 DEF TypeOK
    <2>7. job' \in [Sessions -> Job]
      <3>1. job' = [job EXCEPT ![s] = [job[s] EXCEPT !.at = "touch"]]
        BY <1>1 DEF JoinSubscribe
      <3>2. QED
        BY <2>1, <3>1, WorkMoves, JobUpdated
    <2>8. fwd' \in [Subs -> {"none", "run", "done"}]
      BY <1>1 DEF JoinSubscribe, TypeOK
    <2>9. QED
      BY <1>1, <2>4, <2>5, <2>6, <2>7, <2>8 DEF TypeOK, JoinSubscribe, Subscribe, partyVars, Channel
  <1>2. CASE Touch(s) \/ TouchFails(s)
    <2> DEFINE j == job[s]
               new == UserOf[s] \notin Present(j.party)
               stale == Stale(j.party) \ {UserOf[s]}
    <2>1. j \in Work /\ UserOf[s] \in Users
      BY <1>2, <1>a DEF Touch, TouchFails
    <2>2. present' \in [Rooms -> [Users -> Score]]
      <3>1. CASE present' = [present EXCEPT ![j.party][UserOf[s]] = "fresh"]
        <4>1. [present[j.party] EXCEPT ![UserOf[s]] = "fresh"] \in [Users -> Score]
          BY <2>1, <1>b DEF TypeOK, Score
        <4>2. QED
          BY <2>1, <1>b, <3>1, <4>1 DEF TypeOK
      <3>2. CASE present' = present
        BY <3>2 DEF TypeOK
      <3>3. QED
        BY <1>2, <3>1, <3>2 DEF Touch, TouchFails
    <2>3. \A x \in Work : GiveUp(x) \in Job /\ [x EXCEPT !.added = new] \in Work
      BY DEF GiveUp, Work, Job
    <2>4. /\ [j EXCEPT !.added = new, !.stale = stale] \in Work
          /\ [[j EXCEPT !.added = new, !.stale = stale] EXCEPT !.at = "drop"] \in Work
      BY <2>1 DEF Work, Stale
    <2>5. job' \in [Sessions -> Job]
      <3>1. CASE Touch(s)
        BY <3>1, <2>4, WorkMoves, JobUpdated DEF Touch
      <3>2. CASE TouchFails(s)
        BY <3>2, <2>1, <2>3, JobUpdated DEF TouchFails
      <3>3. QED
        BY <1>2, <3>1, <3>2
    <2>6. QED
      BY <1>2, <2>2, <2>5 DEF TypeOK, Touch, TouchFails, hubVars
  <1>3. CASE TouchBreaks(s) \/ SweepRemove(s) \/ ReadMembers(s)
    <2>1. job[s] \in Work
      BY <1>3, <1>a DEF TouchBreaks, SweepRemove, ReadMembers
    <2>2. job' \in [Sessions -> Job]
      <3> DEFINE j == job[s]
      <3>1. /\ GiveUp(j) \in Job
            /\ [j EXCEPT !.at = "tell"] \in Job
            /\ [j EXCEPT !.at = "state", !.ids = Present(j.party)] \in Job
        BY <2>1 DEF GiveUp, Work, Job, Present
      <3>2. job' \in {[job EXCEPT ![s] = GiveUp(j)], [job EXCEPT ![s] = [j EXCEPT !.at = "tell"]],
                     [job EXCEPT ![s] = [j EXCEPT !.at = "state", !.ids = Present(j.party)]]}
        BY <1>3 DEF TouchBreaks, SweepRemove, ReadMembers
      <3>3. QED
        BY <3>1, <3>2, JobUpdated
    <2>3. present' \in [Rooms -> [Users -> Score]]
      BY <1>3, <2>1, <1>b, AbsentTyped DEF TouchBreaks, SweepRemove, ReadMembers, partyVars, TypeOK
    <2>4. QED
      BY <1>3, <2>2, <2>3 DEF TypeOK, TouchBreaks, SweepRemove, ReadMembers, hubVars, partyVars
  <1>4. CASE SweepPublish(s)
    <2> DEFINE Rest(u) == [job[s] EXCEPT !.stale = job[s].stale \ {u}]
    <2>1. job[s] \in Work
      BY <1>4, <1>a DEF SweepPublish
    <2>2. PICK u \in job[s].stale :
             /\ Broadcast(job[s].party, Left(u))
             /\ job' = [job EXCEPT ![s] = IF Rest(u).stale = {} THEN AfterTouch(Rest(u)) ELSE Rest(u)]
      BY <1>4 DEF SweepPublish
    <2>3. u \in Users /\ Left(u) \in BusEvent /\ Rest(u) \in Work
      BY <2>1, <1>b DEF Left, BusEvent, Work
    <2>4. /\ wire' \in [Instances -> Seq(Envelope)]
          /\ UNCHANGED <<rooms, chan>>
      BY <2>1, <2>2, <2>3, <1>b, BroadcastTyped
    <2>5. job' \in [Sessions -> Job]
      <3> HIDE DEF Rest
      <3>1. (IF Rest(u).stale = {} THEN AfterTouch(Rest(u)) ELSE Rest(u)) \in Job
        BY <2>3, WorkMoves
      <3>2. QED
        BY <2>2, <3>1, JobUpdated
    <2>6. QED
      BY <1>4, <2>4, <2>5 DEF TypeOK, SweepPublish, partyVars
  <1>5. CASE SendState(s)
    <2>1. job[s] \in Work
      BY <1>5, <1>a DEF SendState
    <2>2. job' \in [Sessions -> Job]
      <3>1. NoJob \in Job /\ [job[s] EXCEPT !.at = "announce"] \in Job
        BY <2>1 DEF Job, Work
      <3>2. QED
        BY <1>5, <3>1, JobUpdated DEF SendState
    <2>3. view' \in [Sessions -> View]
      <3>1. [phase |-> "live", others |-> job[s].ids \ {UserOf[s]}] \in View
        BY <2>1, <1>b DEF View
      <3>2. QED
        BY <1>5, <3>1, SessionTyped DEF SendState
    <2>4. QED
      BY <1>5, <2>2, <2>3 DEF TypeOK, SendState, hubVars, partyVars
  <1>6. CASE AnnounceJoined(s)
    <2>1. job[s] \in Work /\ Joined(UserOf[s]) \in BusEvent
      BY <1>6, <1>a DEF AnnounceJoined, Joined, BusEvent
    <2>2. /\ wire' \in [Instances -> Seq(Envelope)]
          /\ UNCHANGED <<rooms, chan>>
      BY <1>6, <2>1, <1>b, BroadcastTyped DEF AnnounceJoined
    <2>3. job' \in [Sessions -> Job]
      BY <1>6 DEF AnnounceJoined, TypeOK, Job
    <2>4. QED
      BY <1>6, <2>2, <2>3 DEF TypeOK, AnnounceJoined, partyVars
  <1>7. QED
    BY <1>0, <1>1, <1>2, <1>3, <1>4, <1>5, <1>6 DEF Handle

(* What forward takes off its channel is a bus event, and folds to a view. *)
LEMMA ForwardTyped ==
    ASSUME TypeOK, NEW c \in Subs, Take(c)
    PROVE  /\ Head(chan[c].buf) \in BusEvent
           /\ chan' = [chan EXCEPT ![c] = [state |-> chan[c].state, buf |-> Tail(chan[c].buf)]]
           /\ chan' \in [Subs -> Channel]
           /\ \A v \in View : Fold(v, Head(chan[c].buf)) \in View
  <1>1. chan[c] \in Channel
    BY DEF TypeOK
  <1>2. chan[c].buf \in Seq(BusEvent) /\ chan[c].buf # <<>>
    BY <1>1 DEF Channel, Take
  <1>3. Head(chan[c].buf) \in BusEvent /\ Tail(chan[c].buf) \in Seq(BusEvent)
    BY <1>2
  <1>4. chan' = [chan EXCEPT ![c] = [state |-> chan[c].state, buf |-> Tail(chan[c].buf)]]
    <2>1. chan' = [chan EXCEPT ![c] = [chan[c] EXCEPT !.buf = Tail(chan[c].buf)]]
      BY DEF Take
    <2>2. [chan[c] EXCEPT !.buf = Tail(chan[c].buf)] = [state |-> chan[c].state, buf |-> Tail(chan[c].buf)]
      <3>1. \A x \in Channel : \A b : [x EXCEPT !.buf = b] = [state |-> x.state, buf |-> b]
        BY DEF Channel
      <3>2. QED
        BY <1>1, <3>1
    <2>3. QED
      BY <2>1, <2>2
  <1>5. [state |-> chan[c].state, buf |-> Tail(chan[c].buf)] \in Channel
    BY <1>1, <1>3 DEF Channel
  <1>6. chan' \in [Subs -> Channel]
    BY <1>4, <1>5 DEF TypeOK
  <1>7. ASSUME NEW v \in View, NEW ev \in BusEvent
        PROVE  Fold(v, ev) \in View
    <2>1. CASE ev.name = "member.joined"
      <3>1. ev.who \in Users
        BY <2>1 DEF BusEvent, Closed
      <3>2. QED
        BY <2>1, <3>1 DEF Fold, View
    <2>2. CASE ev.name = "member.left"
      BY <2>2 DEF Fold, View
    <2>3. CASE ev.name = "party.closed"
      BY <2>3 DEF Fold, View
    <2>4. QED
      BY <2>1, <2>2, <2>3 DEF BusEvent, Closed
  <1>8. QED
    BY <1>3, <1>4, <1>6, <1>7

(* The forward goroutine of a join, and the leave it may start.            *)
LEMMA RelayTypeStep ==
    ASSUME TypeOK, JoinsCounted, NEW s \in Sessions, NEW j \in 1..MaxJoins, Relay(s, j)
    PROVE  TypeOK'
  <1>0. j \in 0..MaxJoins /\ <<s, j>> \in Subs
    BY ChannelsOfSession
  <1>1. CASE Forward(s, j)
    <2> DEFINE c == <<s, j>>
               ev == Head(chan[c].buf)
    <2>1. chan' \in [Subs -> Channel] /\ UNCHANGED <<wire, rooms>>
      BY <1>0, <1>1, ForwardTyped DEF Forward, Take
    <2>2. view' \in [Sessions -> View]
      <3>1. view' = view \/ view' = [view EXCEPT ![s] = Fold(view[s], ev)]
        BY <1>1 DEF Forward
      <3>2. Fold(view[s], ev) \in View
        BY <1>0, <1>1, SessionTyped, ForwardTyped DEF Forward
      <3>3. view \in [Sessions -> View]
        BY DEF TypeOK
      <3>4. QED
        BY <3>1, <3>2, <3>3
    <2>3. fwd' \in [Subs -> {"none", "run", "done"}]
      BY <1>1 DEF Forward, TypeOK
    <2>4. leaver' \in [Sessions -> [0..MaxJoins -> LeaveState]]
      <3>1. LeaveCalled \in LeaveState
        BY DEF LeaveState
      <3>2. leaver' = leaver \/ leaver' = [leaver EXCEPT ![s][j] = LeaveCalled]
        BY <1>1 DEF Forward
      <3>3. leaver \in [Sessions -> [0..MaxJoins -> LeaveState]]
        BY DEF TypeOK
      <3>4. [leaver EXCEPT ![s][j] = LeaveCalled] \in [Sessions -> [0..MaxJoins -> LeaveState]]
        BY <1>0, <3>1, LeaverUpdated
      <3>5. QED
        BY <3>2, <3>3, <3>4
    <2>5. QED
      BY <1>1, <2>1, <2>2, <2>3, <2>4 DEF TypeOK, Forward, partyVars
  <1>2. CASE ForwardEnds(<<s, j>>)
    <2>1. fwd' \in [Subs -> {"none", "run", "done"}]
      BY <1>2 DEF ForwardEnds, TypeOK
    <2>2. QED
      BY <1>2, <2>1 DEF TypeOK, ForwardEnds, hubVars, partyVars
  <1>3. CASE Leave(s, j)
    BY <1>0, <1>3, LeaveTypeStep
  <1>4. QED
    BY <1>1, <1>2, <1>3 DEF Relay

(* The bus: what Redis delivers, and a channel nobody reads any more.      *)
LEMMA BusTypeStep ==
    ASSUME TypeOK,
           \/ \E c \in Subs : Collect(c)
           \/ \E i \in Instances : Deliver(i)
    PROVE  TypeOK'
  <1>1. ASSUME NEW c \in Subs, Collect(c)
        PROVE  TypeOK'
    <2>1. chan' \in [Subs -> Channel]
      <3>1. FreeChan \in Channel
        BY DEF FreeChan, Channel
      <3>2. QED
        BY <1>1, <3>1 DEF Collect, Release, TypeOK
    <2>2. QED
      BY <1>1, <2>1 DEF TypeOK, Collect, Release, partyVars, sessVars
  <1>2. ASSUME NEW i \in Instances, Deliver(i)
        PROVE  TypeOK'
    <2> DEFINE m == Head(wire[i])
    <2>1. wire[i] \in Seq(Envelope) /\ wire[i] # <<>>
      BY <1>2 DEF TypeOK, Deliver, Receive
    <2>2. m.ev \in BusEvent /\ Tail(wire[i]) \in Seq(Envelope)
      <3>1. m \in Envelope
        BY <2>1
      <3>2. QED
        BY <2>1, <3>1 DEF Envelope
    <2>3. chan' \in [Subs -> Channel]
      <3>1. chan' = Dispatch(chan, rooms[i][m.room], m.ev)
        BY <1>2 DEF Deliver, Receive
      <3>2. QED
        BY <2>2, <3>1, DispatchTyped DEF TypeOK
    <2>4. wire' \in [Instances -> Seq(Envelope)]
      BY <1>2, <2>2 DEF Deliver, Receive, TypeOK
    <2>5. QED
      BY <1>2, <2>3, <2>4 DEF TypeOK, Deliver, Receive, partyVars, sessVars
  <1>3. QED
    BY <1>1, <1>2

LEMMA CrashTypeStep ==
    ASSUME TypeOK, NEW i \in Instances, Crash(i)
    PROVE  TypeOK'
  <1>1. chan' \in [Subs -> Channel]
    <2>1. FreeChan \in Channel
      BY DEF FreeChan, Channel
    <2>2. QED
      BY <2>1 DEF Crash, TypeOK
  <1>2. sess' \in [Sessions -> Session]
    <2>1. \A s \in Sessions : [sess[s] EXCEPT !.state = "crashed", !.party = NoParty] \in Session
      BY DEF TypeOK, Session
    <2>2. QED
      BY <2>1 DEF Crash, TypeOK
  <1>3. job' \in [Sessions -> Job]
    BY DEF Crash, TypeOK, Job
  <1>4. leaver' \in [Sessions -> [0..MaxJoins -> LeaveState]]
    <2>1. NoLeave \in LeaveState
      BY DEF LeaveState
    <2>2. QED
      BY <2>1 DEF Crash, TypeOK
  <1>5. fwd' \in [Subs -> {"none", "run", "done"}]
    BY DEF Crash, TypeOK
  <1>6. wire' \in [Instances -> Seq(Envelope)]
    <2>1. <<>> \in Seq(Envelope)
      OBVIOUS
    <2>2. QED
      BY <2>1 DEF Crash, TypeOK
  <1>7. rooms' \in [Instances -> [Rooms -> SUBSET Subs]]
    <2>1. [r \in Rooms |-> {}] \in [Rooms -> SUBSET Subs]
      OBVIOUS
    <2>2. QED
      BY <2>1 DEF Crash, TypeOK
  <1>8. QED
    BY <1>1, <1>2, <1>3, <1>4, <1>5, <1>6, <1>7 DEF Crash, TypeOK, partyVars

(* Rooms are closed, superseded and forgotten; scores grow old.            *)
LEMMA RoomTypeStep ==
    ASSUME TypeOK, NEW p \in Rooms,
           \/ CloseRow(p) \/ Supersede(p) \/ CloseParty(p) \/ ClosePartyFails(p) \/ Expire(p)
           \/ \E u \in Users : Age(p, u)
    PROVE  TypeOK'
  <1>0. MaxCloses \in Nat
    BY GatewayAssumption
  <1>1. CASE CloseRow(p) \/ Supersede(p)
    <2>1. closes' \in [Rooms -> 0..MaxCloses]
      <3>1. closes[p] + 1 \in 0..MaxCloses
        BY <1>0, <1>1 DEF CloseRow, Supersede, TypeOK
      <3>2. QED
        BY <1>1, <3>1 DEF CloseRow, Supersede, TypeOK
    <2>2. row' \in [Rooms -> {"open", "closed"}] /\ closing' \in [Rooms -> BOOLEAN]
      BY <1>1 DEF CloseRow, Supersede, TypeOK
    <2>3. QED
      BY <1>1, <2>1, <2>2 DEF CloseRow, Supersede, TypeOK, hubVars, sessVars
  <1>2. CASE CloseParty(p) \/ Expire(p)
    <2>1. present' \in [Rooms -> [Users -> Score]]
      BY <1>2, AbsentTyped DEF CloseParty, Expire
    <2>2. wire' \in [Instances -> Seq(Envelope)] /\ UNCHANGED <<rooms, chan>>
      <3>1. Closed \in BusEvent
        BY DEF BusEvent
      <3>2. QED
        BY <1>2, <3>1, BroadcastTyped DEF CloseParty, Expire, hubVars, TypeOK
    <2>3. closing' \in [Rooms -> BOOLEAN]
      BY <1>2 DEF CloseParty, Expire, TypeOK
    <2>4. QED
      BY <1>2, <2>1, <2>2, <2>3 DEF CloseParty, Expire, TypeOK, sessVars
  <1>3. CASE ClosePartyFails(p)
    BY <1>3 DEF ClosePartyFails, TypeOK, hubVars, sessVars
  <1>4. ASSUME NEW u \in Users, Age(p, u)
        PROVE  TypeOK'
    <2>1. [present[p] EXCEPT ![u] = "stale"] \in [Users -> Score]
      BY DEF TypeOK, Score
    <2>2. present' \in [Rooms -> [Users -> Score]]
      BY <1>4, <2>1 DEF Age, TypeOK
    <2>3. QED
      BY <1>4, <2>2 DEF Age, TypeOK, hubVars, sessVars
  <1>5. QED
    BY <1>1, <1>2, <1>3, <1>4

LEMMA TypeStep ==
    TypeOK /\ JoinsCounted /\ [Next]_vars => TypeOK'
  <1> SUFFICES ASSUME TypeOK, JoinsCounted, [Next]_vars
               PROVE  TypeOK'
    OBVIOUS
  <1>1. ASSUME NEW s \in Sessions,
               \/ \E p \in Rooms : JoinRefused(s, p) \/ JoinGate(s, p)
               \/ Heartbeat(s) \/ LeaveFrame(s) \/ Hangup(s)
        PROVE  TypeOK'
    <2>1. CASE \E p \in Rooms : JoinRefused(s, p) \/ JoinGate(s, p)
      BY <2>1, FrameTypeStep
    <2>2. CASE Heartbeat(s) \/ LeaveFrame(s)
      <3>1. PICK p \in Rooms : p = sess[s].party
        BY <2>2, SessionTyped DEF Heartbeat, LeaveFrame
      <3>2. QED
        BY <2>2, <3>1, FrameTypeStep
    <2>3. CASE Hangup(s)
      <3>1. 0 \in 0..MaxJoins /\ LeaveCalled \in LeaveState
        BY ChannelsOfSession DEF LeaveState
      <3>2. leaver' \in [Sessions -> [0..MaxJoins -> LeaveState]]
        BY <2>3, <3>1, LeaverUpdated DEF Hangup, LeaveByLoop, TypeOK
      <3>3. sess' \in [Sessions -> Session]
        BY <2>3, SessionTyped DEF Hangup
      <3>4. QED
        BY <2>3, <3>2, <3>3 DEF TypeOK, Hangup, hubVars, partyVars
    <2>4. QED
      BY <1>1, <2>1, <2>2, <2>3
  <1>2. ASSUME NEW s \in Sessions, Handle(s) \/ \E j \in 1..MaxJoins : Relay(s, j)
        PROVE  TypeOK'
    BY <1>2, HandleTypeStep, RelayTypeStep
  <1>3. CASE \/ \E c \in Subs : Collect(c)
             \/ \E i \in Instances : Deliver(i)
    BY <1>3, BusTypeStep
  <1>4. CASE \E i \in Instances : Crash(i)
    BY <1>4, CrashTypeStep
  <1>5. CASE \E p \in Rooms :
                \/ CloseRow(p) \/ Supersede(p) \/ CloseParty(p) \/ ClosePartyFails(p) \/ Expire(p)
                \/ \E u \in Users : Age(p, u)
    BY <1>5, RoomTypeStep
  <1>6. CASE UNCHANGED vars
    BY <1>6 DEF vars, TypeOK
  <1>7. QED
    BY <1>1, <1>2, <1>3, <1>4, <1>5, <1>6 DEF Next
----------------------------------------------------------------------------
(* What a step does to one socket: its session, its read loop, its leaves, *)
(* forward goroutines and channels.                                        *)
SameForwards(s) == \A j \in 1..MaxJoins : fwd'[<<s, j>>] = fwd[<<s, j>>]

SameChannel(s, j) ==
    /\ chan'[<<s, j>>].state = "open" <=> chan[<<s, j>>].state = "open"
    /\ \A p \in Rooms : Registered(<<s, j>>, p)' <=> Registered(<<s, j>>, p)

SameChannels(s) == \A j \in 1..MaxJoins : SameChannel(s, j)

OtherLeavers(s, a) == \A b \in 0..MaxJoins : b # a => leaver'[s][b] = leaver[s][b]

Working(s) == job[s].at \notin {"idle", "subscribe"}

Rests(s) ==
    /\ sess'[s] = sess[s] /\ job'[s] = job[s] /\ leaver'[s] = leaver[s]
    /\ SameForwards(s) /\ SameChannels(s)

Gates(s) ==
    /\ job[s].at = "idle" /\ leaver[s][0].at = "none" /\ sess[s].joins < MaxJoins
    /\ sess'[s] = sess[s]
    /\ job'[s].at = "subscribe"
    /\ leaver'[s][0].at = "take" \/ sess[s].party = NoParty
    /\ leaver'[s][0].at \in {"none", "take"}
    /\ OtherLeavers(s, 0) /\ SameForwards(s) /\ SameChannels(s)

Beats(s) ==
    /\ job[s].at = "idle" /\ leaver[s][0].at = "none"
    /\ sess'[s] = sess[s] /\ leaver'[s] = leaver[s]
    /\ job'[s].at = "touch" /\ job'[s].party = sess[s].party
    /\ SameForwards(s) /\ SameChannels(s)

CallsLeave(s) ==
    /\ job[s].at = "idle" /\ leaver[s][0].at = "none" /\ sess[s].state = "up"
    /\ sess'[s].party = sess[s].party /\ sess'[s].joins = sess[s].joins
    /\ job'[s] = job[s] /\ leaver'[s][0].at \in {"none", "take"}
    /\ OtherLeavers(s, 0) /\ SameForwards(s) /\ SameChannels(s)

EntersRoom(s) ==
    /\ job[s].at = "subscribe" /\ leaver[s][0].at = "none"
    /\ sess'[s].party = job[s].party /\ sess'[s].joins = sess[s].joins + 1
    /\ sess'[s].state = sess[s].state
    /\ job'[s].at = "touch" /\ job'[s].party = job[s].party
    /\ leaver'[s] = leaver[s]
    /\ \A j \in 1..MaxJoins :
          /\ j = sess[s].joins + 1 =>
                /\ chan[<<s, j>>].state = "free"
                /\ chan'[<<s, j>>].state = "open" /\ chan'[<<s, j>>].buf = <<>>
                /\ \A p \in Rooms :
                      Registered(<<s, j>>, p)' <=> Registered(<<s, j>>, p) \/ p = job[s].party
          /\ j # sess[s].joins + 1 => SameChannel(s, j) /\ fwd'[<<s, j>>] = fwd[<<s, j>>]

Works(s) ==
    /\ Working(s)
    /\ sess'[s] = sess[s] /\ leaver'[s] = leaver[s]
    /\ job'[s] = NoJob \/ (Working(s)' /\ job'[s].party = job[s].party)
    /\ SameForwards(s) /\ SameChannels(s)

LeaveMovesOn(s, a) ==
    /\ \/ leaver[s][a].at \in {"zrem", "publish"}
       \/ leaver[s][a].at = "take" /\ sess[s].party = NoParty
    /\ sess'[s] = sess[s] /\ job'[s] = job[s]
    /\ leaver'[s][a].at \in {"none", "publish"}
    /\ leaver[s][a].at = "zrem" /\ "leave" \notin RedisFails => present'[leaver[s][a].party][UserOf[s]] = "absent"
    /\ OtherLeavers(s, a) /\ SameForwards(s) /\ SameChannels(s)

LeavesRoom(s, a) ==
    /\ leaver[s][a].at = "take" /\ sess[s].party # NoParty
    /\ sess'[s].party = NoParty /\ sess'[s].joins = sess[s].joins /\ sess'[s].state = sess[s].state
    /\ job'[s] = job[s]
    /\ leaver'[s][a] = [at |-> "cleanup", party |-> sess[s].party, join |-> sess[s].joins]
    /\ OtherLeavers(s, a) /\ SameForwards(s) /\ SameChannels(s)

CleansUp(s, a) ==
    /\ leaver[s][a].at = "cleanup"
    /\ sess'[s] = sess[s] /\ job'[s] = job[s]
    /\ leaver'[s][a] = [at |-> "zrem", party |-> leaver[s][a].party]
    /\ OtherLeavers(s, a) /\ SameForwards(s)
    /\ \A j \in 1..MaxJoins :
          /\ j = leaver[s][a].join =>
                /\ chan'[<<s, j>>].state # "open"
                /\ \A p \in Rooms :
                      Registered(<<s, j>>, p)' <=> Registered(<<s, j>>, p) /\ p # leaver[s][a].party
          /\ j # leaver[s][a].join => SameChannel(s, j)

EndsForward(s, j) ==
    /\ fwd[<<s, j>>] = "run" /\ fwd'[<<s, j>>] = "done"
    /\ sess'[s] = sess[s] /\ job'[s] = job[s]
    /\ \/ leaver'[s][j] = leaver[s][j]
       \/ leaver'[s][j] = LeaveCalled /\ HasClosed(<<s, j>>)
    /\ OtherLeavers(s, j) /\ SameChannels(s)
    /\ \A k \in 1..MaxJoins : k # j => fwd'[<<s, k>>] = fwd[<<s, k>>]

Dies(s) ==
    /\ sess'[s].party = NoParty /\ sess'[s].joins = sess[s].joins /\ sess'[s].state = "crashed"
    /\ job'[s] = NoJob
    /\ \A b \in 0..MaxJoins : leaver'[s][b] = NoLeave
    /\ \A j \in 1..MaxJoins : /\ fwd'[<<s, j>>] = "none"
                              /\ chan'[<<s, j>>] = FreeChan
                              /\ \A p \in Rooms : ~Registered(<<s, j>>, p)'

SocketStep(s) ==
    \/ Rests(s) \/ Gates(s) \/ Beats(s) \/ CallsLeave(s) \/ EntersRoom(s) \/ Works(s) \/ Dies(s)
    \/ \E a \in 0..MaxJoins : LeaveMovesOn(s, a) \/ LeavesRoom(s, a) \/ CleansUp(s, a)
    \/ \E j \in 1..MaxJoins : EndsForward(s, j)

(* A step that leaves the bus alone leaves every channel as it was.        *)
LEMMA ChannelsKept ==
    ASSUME UNCHANGED <<rooms, chan>>, NEW s
    PROVE  SameChannels(s)
  BY DEF SameChannels, SameChannel, Registered

SetsLeaver(t, a, l) == leaver' = [leaver EXCEPT ![t][a] = l]

LEMMA OneLeaver ==
    ASSUME TypeOK, NEW t \in Sessions, NEW a \in 0..MaxJoins, NEW l, SetsLeaver(t, a, l)
    PROVE  /\ leaver'[t][a] = l /\ OtherLeavers(t, a)
           /\ \A s \in Sessions : s # t => leaver'[s] = leaver[s]
  <1>1. leaver' = [leaver EXCEPT ![t] = [leaver[t] EXCEPT ![a] = l]]
    BY DEF SetsLeaver
  <1>2. leaver \in [Sessions -> [0..MaxJoins -> LeaveState]]
    BY DEF TypeOK
  <1>3. leaver'[t] = [leaver[t] EXCEPT ![a] = l] /\ \A s \in Sessions : s # t => leaver'[s] = leaver[s]
    BY <1>1, <1>2
  <1>4. QED
    BY <1>2, <1>3 DEF OtherLeavers

(* A leave, by any goroutine of socket t.                                  *)
LEMMA LeaveKind ==
    ASSUME TypeOK, JoinsCounted, NEW t \in Sessions, NEW a \in 0..MaxJoins, Leave(t, a),
           NEW s \in Sessions
    PROVE  IF s = t THEN LeaveMovesOn(s, a) \/ LeavesRoom(s, a) \/ CleansUp(s, a) ELSE Rests(s)
  <1>0. ASSUME UNCHANGED fwd
        PROVE  SameForwards(s)
    BY <1>0 DEF SameForwards
  <1>1. CASE LeaveNothing(t, a) \/ LeaveRemove(t, a) \/ LeaveRemoveFails(t, a) \/ LeavePublish(t, a)
    <2>1. PICK l \in {NoLeave, [at |-> "publish", party |-> leaver[t][a].party]} : SetsLeaver(t, a, l)
      BY <1>1 DEF LeaveNothing, LeaveRemove, LeaveRemoveFails, LeavePublish, SetsLeaver
    <2>2. /\ leaver'[t][a] = l /\ OtherLeavers(t, a)
          /\ s # t => leaver'[s] = leaver[s]
      BY <2>1, OneLeaver
    <2>3. UNCHANGED <<sess, job, fwd>> /\ SameChannels(s)
      <3>1. UNCHANGED <<rooms, chan>>
        BY <1>1 DEF LeaveNothing, LeaveRemove, LeaveRemoveFails, LeavePublish, hubVars, Broadcast, Publish
      <3>2. QED
        BY <1>1, <3>1, ChannelsKept DEF LeaveNothing, LeaveRemove, LeaveRemoveFails, LeavePublish
    <2>4. \/ leaver[t][a].at \in {"zrem", "publish"}
          \/ leaver[t][a].at = "take" /\ sess[t].party = NoParty
      BY <1>1 DEF LeaveNothing, LeaveRemove, LeaveRemoveFails, LeavePublish
    <2>5. leaver[t][a].at = "zrem" /\ "leave" \notin RedisFails => present'[leaver[t][a].party][UserOf[t]] = "absent"
      <3> DEFINE p == leaver[t][a].party
      <3>1. CASE LeaveRemove(t, a)
        <4>1. UserOf[t] \in Users
          BY ChannelsOfSession
        <4>2. p \in Rooms
          BY <3>1, LeaverTyped DEF LeaveRemove
        <4>3. present'[p] = [u \in Users |-> IF u \in {UserOf[t]} THEN "absent" ELSE present[p][u]]
          BY <3>1, <4>2 DEF LeaveRemove, Absent, TypeOK
        <4>4. QED
          BY <4>1, <4>3
      <3>2. QED
        BY <1>1, <3>1 DEF LeaveNothing, LeaveRemoveFails, LeavePublish
    <2>6. QED
      BY <1>0, <2>1, <2>2, <2>3, <2>4, <2>5 DEF LeaveMovesOn, Rests, NoLeave
  <1>2. CASE LeaveTake(t, a)
    <2> DEFINE l == [at |-> "cleanup", party |-> sess[t].party, join |-> sess[t].joins]
    <2>1. /\ leaver'[t][a] = l /\ OtherLeavers(t, a)
          /\ s # t => leaver'[s] = leaver[s]
      <3>1. SetsLeaver(t, a, l)
        BY <1>2 DEF LeaveTake, SetsLeaver
      <3>2. QED
        BY <3>1, OneLeaver
    <2>2. /\ sess'[t].party = NoParty /\ sess'[t].joins = sess[t].joins /\ sess'[t].state = sess[t].state
          /\ s # t => sess'[s] = sess[s]
      BY <1>2 DEF LeaveTake, TypeOK, Session
    <2>3. UNCHANGED <<job, fwd>> /\ SameChannels(s)
      BY <1>2, ChannelsKept DEF LeaveTake, hubVars
    <2>4. QED
      BY <1>0, <1>2, <2>1, <2>2, <2>3 DEF LeavesRoom, LeaveTake, Rests
  <1>3. CASE LeaveCleanup(t, a)
    <2>p. PICK p : p = leaver[t][a].party
      OBVIOUS
    <2>n. PICK n : n = leaver[t][a].join
      OBVIOUS
    <2>1. /\ leaver'[t][a] = [at |-> "zrem", party |-> p] /\ OtherLeavers(t, a)
          /\ s # t => leaver'[s] = leaver[s]
      <3>1. SetsLeaver(t, a, [at |-> "zrem", party |-> p])
        BY <1>3, <2>p DEF LeaveCleanup, SetsLeaver
      <3>2. QED
        BY <3>1, OneLeaver
    <2>2. UNCHANGED <<sess, job, fwd>>
      BY <1>3 DEF LeaveCleanup
    <2>3. <<t, n>> \in Subs /\ p \in Rooms
      BY <1>3, <2>p, <2>n, LeaverTyped, ChannelsOfSession DEF LeaveCleanup
    <2>4. ASSUME NEW k \in 1..MaxJoins
          PROVE  /\ s = t /\ k = n => chan'[<<s, k>>].state # "open"
                 /\ s # t \/ k # n => chan'[<<s, k>>] = chan[<<s, k>>]
      <3>1. chan' = [chan EXCEPT ![<<t, n>>].state = "closed"]
        BY <1>3, <2>n, ChannelsOfSession DEF LeaveCleanup, Cleanup
      <3>2. <<s, k>> \in Subs
        BY ChannelsOfSession
      <3>3. QED
        BY <2>3, <3>1, <3>2 DEF TypeOK, Channel
    <2>5. ASSUME NEW k \in 1..MaxJoins, NEW q \in Rooms
          PROVE  Registered(<<s, k>>, q)' <=> Registered(<<s, k>>, q) /\ ~(s = t /\ k = n /\ q = p)
      <3>i. PICK i : i = InstanceOf[<<t, n>>]
        OBVIOUS
      <3>1. rooms' = [rooms EXCEPT ![i][p] = rooms[i][p] \ {<<t, n>>}]
        BY <1>3, <2>p, <2>n, <3>i DEF LeaveCleanup, Cleanup
      <3>2. i \in Instances /\ InstanceOf[<<s, k>>] \in Instances
        BY <2>3, <3>i, ChannelsOfSession
      <3>3. rooms'[InstanceOf[<<s, k>>]][q] =
               IF InstanceOf[<<s, k>>] = i /\ q = p THEN rooms[i][p] \ {<<t, n>>}
                                                    ELSE rooms[InstanceOf[<<s, k>>]][q]
        BY <2>3, <3>1, <3>2 DEF TypeOK
      <3>4. s = t /\ k = n => InstanceOf[<<s, k>>] = i
        BY <3>i
      <3>5. QED
        BY <3>3, <3>4 DEF Registered
    <2>6. leaver[t][a].at = "cleanup"
      BY <1>3 DEF LeaveCleanup
    <2>7. CASE s = t
      BY <1>0, <2>p, <2>n, <2>1, <2>2, <2>4, <2>5, <2>6, <2>7 DEF CleansUp, SameChannel
    <2>8. CASE s # t
      BY <1>0, <2>1, <2>2, <2>4, <2>5, <2>8 DEF Rests, SameChannels, SameChannel
    <2>9. QED
      BY <2>7, <2>8
  <1>4. QED
    BY <1>1, <1>2, <1>3 DEF Leave

(* The frames that come in, and the end of the socket.                     *)
LEMMA FrameKind ==
    ASSUME TypeOK, NEW t \in Sessions,
           \/ \E p \in Rooms : JoinRefused(t, p) \/ JoinGate(t, p)
           \/ Heartbeat(t) \/ LeaveFrame(t) \/ Hangup(t),
           NEW s \in Sessions
    PROVE  IF s = t THEN Rests(s) \/ Gates(s) \/ Beats(s) \/ CallsLeave(s) ELSE Rests(s)
  <1>0. SameForwards(s) /\ SameChannels(s)
    <2>1. UNCHANGED <<rooms, chan, fwd>>
      BY DEF JoinRefused, JoinGate, Heartbeat, LeaveFrame, Hangup, hubVars
    <2>2. QED
      BY <2>1, ChannelsKept DEF SameForwards
  <1>l. ASSUME LeaveByLoop(t), leaver[t][0].at = "none"
        PROVE  /\ s # t => leaver'[s] = leaver[s]
               /\ OtherLeavers(t, 0)
               /\ leaver'[t][0].at = "take" \/ sess[t].party = NoParty
               /\ leaver'[t][0].at \in {"none", "take"}
    <2>1. CASE sess[t].party = NoParty
      BY <1>l, <2>1 DEF LeaveByLoop, OtherLeavers
    <2>2. CASE SetsLeaver(t, 0, LeaveCalled)
      <3>1. 0 \in 0..MaxJoins
        BY ChannelsOfSession
      <3>2. QED
        BY <2>2, <3>1, OneLeaver DEF LeaveCalled
    <2>3. QED
      BY <1>l, <2>1, <2>2 DEF LeaveByLoop, SetsLeaver
  <1>1. ASSUME NEW p \in Rooms, JoinRefused(t, p)
        PROVE  Rests(s)
    BY <1>0, <1>1 DEF JoinRefused, Rests
  <1>2. ASSUME NEW p \in Rooms, JoinGate(t, p)
        PROVE  IF s = t THEN Gates(s) ELSE Rests(s)
    <2>1. job'[t].at = "subscribe" /\ (s # t => job'[s] = job[s])
      BY <1>2 DEF JoinGate, TypeOK
    <2>2. QED
      BY <1>0, <1>l, <1>2, <2>1 DEF JoinGate, Reading, Gates, Rests
  <1>3. CASE Heartbeat(t)
    <2>1. job'[t].at = "touch" /\ job'[t].party = sess[t].party /\ (s # t => job'[s] = job[s])
      BY <1>3 DEF Heartbeat, TypeOK
    <2>2. QED
      BY <1>0, <1>3, <2>1 DEF Heartbeat, Reading, Beats, Rests
  <1>4. CASE LeaveFrame(t)
    BY <1>0, <1>l, <1>4 DEF LeaveFrame, Reading, CallsLeave, Rests
  <1>5. CASE Hangup(t)
    <2>1. /\ sess'[t].party = sess[t].party /\ sess'[t].joins = sess[t].joins
          /\ s # t => sess'[s] = sess[s]
      BY <1>5 DEF Hangup, TypeOK, Session
    <2>2. QED
      BY <1>0, <1>l, <1>5, <2>1 DEF Hangup, Reading, CallsLeave, Rests
  <1>6. QED
    BY <1>1, <1>2, <1>3, <1>4, <1>5

LEMMA SubscribeKind ==
    ASSUME TypeOK, JoinsCounted, NEW t \in Sessions, JoinSubscribe(t), NEW s \in Sessions
    PROVE  IF s = t THEN EntersRoom(s) ELSE Rests(s)
  <1> DEFINE n == sess[t].joins + 1
             p == job[t].party
  <1>1. /\ sess'[t].party = p /\ sess'[t].joins = n /\ sess'[t].state = sess[t].state
        /\ s # t => sess'[s] = sess[s]
    BY DEF JoinSubscribe, TypeOK, Session
  <1>2. /\ job'[t].at = "touch" /\ job'[t].party = p
        /\ s # t => job'[s] = job[s]
    <2>1. job[t] \in Work
      BY WorkTyped DEF JoinSubscribe
    <2>2. QED
      BY <2>1 DEF JoinSubscribe, TypeOK, Work
  <1>3. <<t, n>> \in Subs /\ p \in Rooms
    <2>1. job[t] \in Work /\ sess[t].joins < MaxJoins /\ sess[t].joins \in 0..MaxJoins
      BY WorkTyped, SessionTyped DEF JoinSubscribe, JoinsCounted
    <2>2. n \in 1..MaxJoins
      BY <2>1, ChannelsOfSession
    <2>3. QED
      BY <2>1, <2>2, ChannelsOfSession DEF Work
  <1>4. ASSUME NEW k \in 1..MaxJoins
        PROVE  /\ s = t /\ k = n => chan'[<<s, k>>] = [state |-> "open", buf |-> <<>>]
               /\ s # t \/ k # n => chan'[<<s, k>>] = chan[<<s, k>>] /\ fwd'[<<s, k>>] = fwd[<<s, k>>]
    <2>1. chan' = [chan EXCEPT ![<<t, n>>] = [state |-> "open", buf |-> <<>>]]
      BY ChannelsOfSession DEF JoinSubscribe, Subscribe
    <2>2. fwd' = [fwd EXCEPT ![<<t, n>>] = "run"]
      BY DEF JoinSubscribe
    <2>3. <<s, k>> \in Subs
      BY ChannelsOfSession
    <2>4. QED
      BY <1>3, <2>1, <2>2, <2>3 DEF TypeOK
  <1>5. ASSUME NEW k \in 1..MaxJoins, NEW q \in Rooms
        PROVE  Registered(<<s, k>>, q)' <=> Registered(<<s, k>>, q) \/ (s = t /\ k = n /\ q = p)
    <2> DEFINE i == InstanceOf[<<t, n>>]
    <2>1. rooms' = [rooms EXCEPT ![i][p] = rooms[i][p] \cup {<<t, n>>}]
      BY DEF JoinSubscribe, Subscribe
    <2>2. i \in Instances /\ InstanceOf[<<s, k>>] \in Instances
      BY <1>3, ChannelsOfSession
    <2> HIDE DEF i, p, n
    <2>3. rooms'[InstanceOf[<<s, k>>]][q] =
             IF InstanceOf[<<s, k>>] = i /\ q = p THEN rooms[i][p] \cup {<<t, n>>}
                                                  ELSE rooms[InstanceOf[<<s, k>>]][q]
      BY <1>3, <2>1, <2>2 DEF TypeOK
    <2>4. s = t /\ k = n => InstanceOf[<<s, k>>] = i
      BY DEF i
    <2>5. QED
      BY <2>3, <2>4 DEF Registered
  <1>6. /\ job[t].at = "subscribe" /\ leaver[t][0].at = "none" /\ leaver' = leaver
        /\ chan[<<t, n>>].state = "free"
    BY DEF JoinSubscribe, Subscribe
  <1>7. CASE s = t
    BY <1>1, <1>2, <1>4, <1>5, <1>6, <1>7 DEF EntersRoom, SameChannel
  <1>8. CASE s # t
    BY <1>1, <1>2, <1>4, <1>5, <1>6, <1>8 DEF Rests, SameChannels, SameChannel, SameForwards
  <1>9. QED
    BY <1>7, <1>8

(* The rest of a join, and a heartbeat: the loop works on one room.        *)
Loops(t) ==
    \/ Touch(t) \/ TouchFails(t) \/ TouchBreaks(t) \/ SweepRemove(t) \/ SweepPublish(t)
    \/ ReadMembers(t) \/ SendState(t) \/ AnnounceJoined(t)

LEMMA WorkKind ==
    ASSUME TypeOK, NEW t \in Sessions, Loops(t), NEW s \in Sessions
    PROVE  IF s = t THEN Works(s) ELSE Rests(s)
  <1> DEFINE Follows(j) == j = NoJob \/ (j.at \notin {"idle", "subscribe"} /\ j.party = job[t].party)
  <1>1. job[t] \in Work /\ Working(t)
    BY WorkTyped DEF Loops, Touch, TouchFails, TouchBreaks, SweepRemove, SweepPublish,
       ReadMembers, SendState, AnnounceJoined, Working
  <1>2. /\ UNCHANGED <<rooms, chan, fwd, leaver, sess>>
    BY DEF Loops, Touch, TouchFails, TouchBreaks, SweepRemove, SweepPublish,
       ReadMembers, SendState, AnnounceJoined, hubVars, Broadcast, Publish
  <1>3. \A j \in Work : /\ j.party = job[t].party /\ j.at \notin {"idle", "subscribe"}
                              => Follows(AfterTouch(j)) /\ Follows(GiveUp(j))
                        /\ j.party = job[t].party => 
                              \A a \in {"touch", "drop", "tell", "ids", "state", "announce"} : Follows([j EXCEPT !.at = a])
    BY DEF Work, AfterTouch, GiveUp
  <1>4. \E j : job' = [job EXCEPT ![t] = j] /\ Follows(j)
    <2>1. CASE Touch(t)
      <3> DEFINE stale == Stale(job[t].party) \ {UserOf[t]}
                 j == [job[t] EXCEPT !.added = UserOf[t] \notin Present(job[t].party), !.stale = stale]
      <3>1. j \in Work /\ j.party = job[t].party /\ j.at \notin {"idle", "subscribe"}
        BY <1>1 DEF Work, Working, Stale
      <3>2. job' = [job EXCEPT ![t] = IF stale = {} THEN AfterTouch(j) ELSE [j EXCEPT !.at = "drop"]]
        BY <2>1 DEF Touch
      <3> HIDE DEF j, stale
      <3>3. Follows(IF stale = {} THEN AfterTouch(j) ELSE [j EXCEPT !.at = "drop"])
        BY <1>3, <3>1
      <3>4. QED
        BY <3>2, <3>3
    <2>2. CASE TouchFails(t)
      <3> DEFINE j == [job[t] EXCEPT !.added = UserOf[t] \notin Present(job[t].party)]
      <3>1. j \in Work /\ j.party = job[t].party /\ j.at \notin {"idle", "subscribe"}
        BY <1>1 DEF Work, Working
      <3>2. job' = [job EXCEPT ![t] = GiveUp(job[t])] \/ job' = [job EXCEPT ![t] = GiveUp(j)]
        BY <2>2 DEF TouchFails
      <3> HIDE DEF j
      <3>3. Follows(GiveUp(job[t])) /\ Follows(GiveUp(j))
        BY <1>1, <1>3, <3>1 DEF Working
      <3>4. QED
        BY <3>2, <3>3
    <2>3. CASE TouchBreaks(t)
      BY <1>1, <1>3, <2>3 DEF TouchBreaks, Working
    <2>4. CASE SweepRemove(t) \/ SendState(t) \/ AnnounceJoined(t)
      <3>1. PICK j \in {NoJob, [job[t] EXCEPT !.at = "tell"], [job[t] EXCEPT !.at = "announce"]} :
               job' = [job EXCEPT ![t] = j]
        BY <2>4 DEF SweepRemove, SendState, AnnounceJoined
      <3>2. QED
        BY <1>1, <1>3, <3>1
    <2>5. CASE SweepPublish(t)
      <3> DEFINE Rest(u) == [job[t] EXCEPT !.stale = job[t].stale \ {u}]
      <3>1. PICK u \in job[t].stale :
               job' = [job EXCEPT ![t] = IF Rest(u).stale = {} THEN AfterTouch(Rest(u)) ELSE Rest(u)]
        BY <2>5 DEF SweepPublish
      <3>2. Rest(u) \in Work /\ Rest(u).party = job[t].party /\ Rest(u).at \notin {"idle", "subscribe"}
        BY <1>1 DEF Work, Working
      <3> HIDE DEF Rest
      <3>3. Follows(AfterTouch(Rest(u))) /\ Follows(Rest(u))
        BY <1>3, <3>2
      <3>4. QED
        BY <3>1, <3>3
    <2>6. CASE ReadMembers(t)
      <3> DEFINE j == [job[t] EXCEPT !.at = "state", !.ids = Present(job[t].party)]
      <3>1. Follows(j)
        BY <1>1 DEF Work
      <3>2. job' = [job EXCEPT ![t] = j]
        BY <2>6 DEF ReadMembers
      <3>3. QED
        BY <3>1, <3>2
    <2>7. QED
      BY <2>1, <2>2, <2>3, <2>4, <2>5, <2>6 DEF Loops
  <1>5. Follows(job'[t]) /\ (s # t => job'[s] = job[s])
    BY <1>4 DEF TypeOK
  <1>6. SameChannels(s) /\ SameForwards(s)
    BY <1>2, ChannelsKept DEF SameForwards
  <1>7. QED
    BY <1>1, <1>2, <1>5, <1>6 DEF Works, Rests, Working

LEMMA RelayKind ==
    ASSUME TypeOK, NEW t \in Sessions, NEW j \in 1..MaxJoins,
           Forward(t, j) \/ ForwardEnds(<<t, j>>), NEW s \in Sessions
    PROVE  IF s = t THEN EndsForward(s, j) \/ Rests(s) ELSE Rests(s)
  <1>0. <<t, j>> \in Subs /\ j \in 0..MaxJoins /\ \A k \in 1..MaxJoins : <<s, k>> \in Subs
    BY ChannelsOfSession
  <1>c. SameChannels(s)
    <2>1. CASE Forward(t, j)
      <3>1. chan' = [chan EXCEPT ![<<t, j>>] = [state |-> chan[<<t, j>>].state, buf |-> Tail(chan[<<t, j>>].buf)]]
        BY <1>0, <2>1, ForwardTyped DEF Forward
      <3>2. \A k \in 1..MaxJoins : chan'[<<s, k>>].state = chan[<<s, k>>].state
        BY <1>0, <3>1 DEF TypeOK
      <3>3. rooms' = rooms
        BY <2>1 DEF Forward, Take
      <3>4. QED
        BY <3>2, <3>3 DEF SameChannels, SameChannel, Registered
    <2>2. CASE ForwardEnds(<<t, j>>)
      BY <2>2, ChannelsKept DEF ForwardEnds, hubVars
    <2>3. QED
      BY <2>1, <2>2
  <1>1. CASE fwd' = [fwd EXCEPT ![<<t, j>>] = "done"]
    <2>1. /\ fwd[<<t, j>>] = "run" /\ fwd'[<<t, j>>] = "done"
          /\ \A k \in 1..MaxJoins : s # t \/ k # j => fwd'[<<s, k>>] = fwd[<<s, k>>]
      BY <1>0, <1>1 DEF TypeOK, Forward, ForwardEnds
    <2>2. UNCHANGED <<sess, job>>
      BY DEF Forward, ForwardEnds
    <2>3. CASE leaver' = leaver
      BY <1>c, <2>1, <2>2, <2>3 DEF EndsForward, Rests, OtherLeavers, SameForwards
    <2>4. CASE Forward(t, j) /\ SetsLeaver(t, j, LeaveCalled) /\ Head(chan[<<t, j>>].buf) = Closed
      <3>1. HasClosed(<<t, j>>)
        <4>1. chan[<<t, j>>].buf \in Seq(BusEvent) /\ chan[<<t, j>>].buf # <<>>
          BY <1>0, <2>4 DEF TypeOK, Channel, Forward, Take
        <4>2. 1 \in 1..Len(chan[<<t, j>>].buf) /\ Head(chan[<<t, j>>].buf) = chan[<<t, j>>].buf[1]
          BY <4>1
        <4>3. QED
          BY <2>4, <4>2 DEF HasClosed
      <3>2. /\ leaver'[t][j] = LeaveCalled /\ OtherLeavers(t, j)
            /\ s # t => leaver'[s] = leaver[s]
        BY <1>0, <2>4, OneLeaver
      <3>3. QED
        BY <1>c, <2>1, <2>2, <3>1, <3>2 DEF EndsForward, Rests, SameForwards
    <2>5. QED
      BY <2>3, <2>4 DEF Forward, ForwardEnds, SetsLeaver
  <1>2. CASE UNCHANGED <<fwd, leaver>>
    BY <1>c, <1>2 DEF Forward, ForwardEnds, Rests, SameForwards
  <1>3. QED
    BY <1>1, <1>2 DEF Forward, ForwardEnds

LEMMA CrashKind ==
    ASSUME TypeOK, NEW i \in Instances, Crash(i), NEW s \in Sessions
    PROVE  IF s \in On(i) THEN Dies(s) ELSE Rests(s)
  <1>0. \A k \in 1..MaxJoins : <<s, k>> \in Subs
    BY ChannelsOfSession
  <1>1. CASE s \in On(i)
    <2>1. \A k \in 1..MaxJoins : InstanceOf[<<s, k>>] = i
      BY <1>1, GatewayAssumption DEF On
    <2>2. /\ sess'[s] = [sess[s] EXCEPT !.state = "crashed", !.party = NoParty]
          /\ job'[s] = NoJob /\ \A b \in 0..MaxJoins : leaver'[s][b] = NoLeave
      BY <1>1 DEF Crash
    <2>3. sess'[s].party = NoParty /\ sess'[s].joins = sess[s].joins /\ sess'[s].state = "crashed"
      BY <2>2 DEF TypeOK, Session
    <2>4. \A k \in 1..MaxJoins : fwd'[<<s, k>>] = "none" /\ chan'[<<s, k>>] = FreeChan
      BY <1>0, <1>1 DEF Crash
    <2>5. \A k \in 1..MaxJoins, p \in Rooms : ~Registered(<<s, k>>, p)'
      BY <2>1 DEF Crash, Registered, TypeOK
    <2>6. QED
      BY <1>1, <2>2, <2>3, <2>4, <2>5 DEF Dies
  <1>2. CASE s \notin On(i)
    <2>1. \A k \in 1..MaxJoins : InstanceOf[<<s, k>>] # i /\ InstanceOf[<<s, k>>] \in Instances
      BY <1>0, <1>2, ChannelsOfSession DEF On
    <2>2. sess'[s] = sess[s] /\ job'[s] = job[s] /\ leaver'[s] = leaver[s]
      BY <1>2 DEF Crash, TypeOK
    <2>3. \A k \in 1..MaxJoins : fwd'[<<s, k>>] = fwd[<<s, k>>] /\ chan'[<<s, k>>] = chan[<<s, k>>]
      BY <1>0, <1>2 DEF Crash
    <2>4. \A k \in 1..MaxJoins : rooms'[InstanceOf[<<s, k>>]] = rooms[InstanceOf[<<s, k>>]]
      BY <2>1 DEF Crash, TypeOK
    <2>5. QED
      BY <1>2, <2>2, <2>3, <2>4 DEF Rests, SameForwards, SameChannels, SameChannel, Registered
  <1>3. QED
    BY <1>1, <1>2

LEMMA BusKind ==
    ASSUME TypeOK, NEW s \in Sessions,
           \/ \E c \in Subs : Collect(c)
           \/ \E i \in Instances : Deliver(i)
    PROVE  Rests(s)
  <1>0. \A k \in 1..MaxJoins : <<s, k>> \in Subs
    BY ChannelsOfSession
  <1>1. UNCHANGED <<sess, job, leaver, fwd, rooms>>
    BY DEF Collect, Release, Deliver, Receive, partyVars, sessVars
  <1>2. \A k \in 1..MaxJoins : chan'[<<s, k>>].state = "open" <=> chan[<<s, k>>].state = "open"
    <2>1. ASSUME NEW c \in Subs, Collect(c), NEW k \in 1..MaxJoins
          PROVE  chan'[<<s, k>>].state = "open" <=> chan[<<s, k>>].state = "open"
      BY <1>0, <2>1 DEF Collect, Release, TypeOK, FreeChan
    <2>2. ASSUME NEW i \in Instances, Deliver(i), NEW k \in 1..MaxJoins
          PROVE  chan'[<<s, k>>].state = "open" <=> chan[<<s, k>>].state = "open"
      BY <1>0, <2>2, SMTT(40) DEF Deliver, Receive, Dispatch, TypeOK, Channel
    <2>3. QED
      BY <2>1, <2>2
  <1>3. QED
    BY <1>1, <1>2 DEF Rests, SameForwards, SameChannels, SameChannel, Registered

(* Every step is one of these, seen from any socket.                       *)
LEMMA SocketSteps ==
    ASSUME TypeOK, JoinsCounted, [Next]_vars, NEW s \in Sessions
    PROVE  SocketStep(s)
  <1>1. ASSUME NEW t \in Sessions,
               \/ \E p \in Rooms : JoinRefused(t, p) \/ JoinGate(t, p)
               \/ Heartbeat(t) \/ LeaveFrame(t) \/ Hangup(t)
        PROVE  SocketStep(s)
    BY <1>1, FrameKind DEF SocketStep
  <1>2. ASSUME NEW t \in Sessions, Handle(t) \/ \E j \in 1..MaxJoins : Relay(t, j)
        PROVE  SocketStep(s)
    <2>1. ASSUME NEW a \in 0..MaxJoins, Leave(t, a)
          PROVE  SocketStep(s)
      BY <2>1, LeaveKind DEF SocketStep
    <2>2. ASSUME NEW j \in 1..MaxJoins, Forward(t, j) \/ ForwardEnds(<<t, j>>)
          PROVE  SocketStep(s)
      BY <2>2, RelayKind DEF SocketStep
    <2>3. 0 \in 0..MaxJoins /\ \A j \in 1..MaxJoins : j \in 0..MaxJoins
      BY ChannelsOfSession
    <2>4. CASE Loops(t)
      BY <2>4, WorkKind DEF SocketStep
    <2>5. CASE JoinSubscribe(t)
      BY <2>5, SubscribeKind DEF SocketStep
    <2>6. QED
      BY <1>2, <2>1, <2>2, <2>3, <2>4, <2>5 DEF Handle, Relay, Loops
  <1>3. CASE \/ \E c \in Subs : Collect(c)
             \/ \E i \in Instances : Deliver(i)
    BY <1>3, BusKind DEF SocketStep
  <1>4. CASE \E i \in Instances : Crash(i)
    BY <1>4, CrashKind DEF SocketStep
  <1>5. CASE \/ UNCHANGED vars
             \/ \E p \in Rooms :
                   \/ CloseRow(p) \/ Supersede(p) \/ CloseParty(p) \/ ClosePartyFails(p) \/ Expire(p)
                   \/ \E u \in Users : Age(p, u)
    <2>1. UNCHANGED <<rooms, chan, sess, job, leaver, fwd>>
      BY <1>5 DEF vars, hubVars, sessVars, CloseRow, Supersede, CloseParty, ClosePartyFails,
         Expire, Age, Publish
    <2>2. QED
      BY <2>1, ChannelsKept DEF SocketStep, Rests, SameForwards
  <1>6. QED
    BY <1>1, <1>2, <1>3, <1>4, <1>5 DEF Next

LEMMA JoinsCountedStep ==
    TypeOK /\ JoinsCounted /\ [Next]_vars => JoinsCounted'
  <1> SUFFICES ASSUME TypeOK, JoinsCounted, [Next]_vars, NEW s \in Sessions
               PROVE  /\ job'[s].at = "subscribe" => sess'[s].joins < MaxJoins
                      /\ sess'[s].party # NoParty => sess'[s].joins >= 1
    BY DEF JoinsCounted
  <1>1. SocketStep(s)
    BY SocketSteps
  <1>2. /\ job[s].at = "subscribe" => sess[s].joins < MaxJoins
        /\ sess[s].party # NoParty => sess[s].joins >= 1
        /\ sess[s].joins \in Nat
    BY SessionTyped DEF JoinsCounted
  <1>3. CASE EntersRoom(s)
    BY <1>2, <1>3 DEF EntersRoom
  <1>4. CASE Gates(s)
    BY <1>2, <1>4 DEF Gates
  <1>5. CASE Works(s) \/ Beats(s) \/ Dies(s)
    BY <1>2, <1>5 DEF Works, Beats, Dies, Working, NoJob
  <1>6. CASE Rests(s) \/ CallsLeave(s)
    BY <1>2, <1>6 DEF Rests, CallsLeave
  <1>7. ASSUME NEW a \in 0..MaxJoins,
               LeaveMovesOn(s, a) \/ LeavesRoom(s, a) \/ CleansUp(s, a) \/ EndsForward(s, a)
        PROVE  job'[s] = job[s] /\ sess'[s].joins = sess[s].joins
               /\ sess'[s].party \in {NoParty, sess[s].party}
    BY <1>7 DEF LeaveMovesOn, LeavesRoom, CleansUp, EndsForward
  <1>8. \A j \in 1..MaxJoins : j \in 0..MaxJoins
    BY ChannelsOfSession
  <1>9. QED
    BY <1>1, <1>2, <1>3, <1>4, <1>5, <1>6, <1>7, <1>8 DEF SocketStep

LEMMA GatewayInit ==
    Init => TypeOK /\ JoinsCounted
  <1> SUFFICES ASSUME Init
               PROVE  TypeOK /\ JoinsCounted
    OBVIOUS
  <1>1. wire \in [Instances -> Seq(Envelope)] /\ rooms \in [Instances -> [Rooms -> SUBSET Subs]]
    BY DEF Init, HubInit
  <1>2. chan \in [Subs -> Channel]
    <2>1. FreeChan \in Channel
      BY DEF FreeChan, Channel
    <2>2. QED
      BY <2>1 DEF Init, HubInit
  <1>3. 0 \in 0..MaxCloses /\ 0 \in 0..MaxJoins
    BY GatewayAssumption
  <1>4. leaver \in [Sessions -> [0..MaxJoins -> LeaveState]]
    BY DEF Init, LeaveState
  <1>5. sess \in [Sessions -> Session]
    BY <1>3 DEF Init, Session
  <1>6. QED
    BY <1>1, <1>2, <1>3, <1>4, <1>5
    DEF Init, TypeOK, JoinsCounted, Score, Job, NoJob, View

(* Every step keeps the types: with the joins counted, a join under way    *)
(* never lacks a channel to subscribe with, and every leave finds the      *)
(* channel of its session's room (internal/realtime/party.go).             *)
THEOREM GatewayTypeCorrect == Spec => []TypeOK
<1>1. TypeOK /\ JoinsCounted /\ [Next]_vars => (TypeOK /\ JoinsCounted)'
  BY TypeStep, JoinsCountedStep
<1>2. QED
  BY <1>1, GatewayInit, PTL DEF Spec
----------------------------------------------------------------------------
(* One holder per subscription.                                            *)
LEMMA JoinsFromOutsideStep ==
    TypeOK /\ JoinsCounted /\ JoinsFromOutside /\ [Next]_vars => JoinsFromOutside'
  <1> SUFFICES ASSUME TypeOK, JoinsCounted, JoinsFromOutside, [Next]_vars, NEW s \in Sessions
               PROVE  /\ job'[s].at = "subscribe" /\ leaver'[s][0].at # "take" => sess'[s].party = NoParty
                      /\ job'[s].at \notin {"idle", "subscribe"} => leaver'[s][0].at = "none"
    BY DEF JoinsFromOutside
  <1>1. SocketStep(s)
    BY SocketSteps
  <1>2. /\ job[s].at = "subscribe" /\ leaver[s][0].at # "take" => sess[s].party = NoParty
        /\ job[s].at \notin {"idle", "subscribe"} => leaver[s][0].at = "none"
    BY DEF JoinsFromOutside
  <1>3. 0 \in 0..MaxJoins
    BY ChannelsOfSession
  <1>4. ASSUME NEW a \in 0..MaxJoins, LeaveMovesOn(s, a) \/ LeavesRoom(s, a) \/ CleansUp(s, a)
        PROVE  /\ job'[s] = job[s]
               /\ leaver'[s][0] = leaver[s][0] \/ leaver[s][0].at # "none"
               /\ sess'[s].party = NoParty \/ (sess'[s].party = sess[s].party /\
                     (leaver[s][0].at = "take" => leaver'[s][0].at = "take" \/ sess[s].party = NoParty))
    BY <1>3, <1>4 DEF LeaveMovesOn, LeavesRoom, CleansUp, OtherLeavers
  <1>5. ASSUME NEW j \in 1..MaxJoins, EndsForward(s, j)
        PROVE  job'[s] = job[s] /\ sess'[s] = sess[s] /\ leaver'[s][0] = leaver[s][0]
    BY <1>3, <1>5 DEF EndsForward, OtherLeavers
  <1>6. CASE Rests(s) \/ Gates(s) \/ Beats(s) \/ CallsLeave(s) \/ EntersRoom(s) \/ Works(s) \/ Dies(s)
    BY <1>2, <1>6 DEF Rests, Gates, Beats, CallsLeave, EntersRoom, Works, Working, Dies, NoJob
  <1>7. QED
    BY <1>1, <1>2, <1>4, <1>5, <1>6 DEF SocketStep

LEMMA ForwardsOnceStep ==
    TypeOK /\ JoinsCounted /\ ForwardsOnce /\ [Next]_vars => ForwardsOnce'
  <1> SUFFICES ASSUME TypeOK, JoinsCounted, ForwardsOnce, [Next]_vars,
                      NEW s \in Sessions, NEW j \in 1..MaxJoins
               PROVE  /\ j > sess'[s].joins => fwd'[<<s, j>>] = "none"
                      /\ fwd'[<<s, j>>] # "done" => leaver'[s][j] = NoLeave
    BY DEF ForwardsOnce
  <1>1. SocketStep(s)
    BY SocketSteps
  <1>2. /\ j > sess[s].joins => fwd[<<s, j>>] = "none"
        /\ fwd[<<s, j>>] # "done" => leaver[s][j] = NoLeave
    BY DEF ForwardsOnce
  <1>n. j \in 0..MaxJoins /\ j # 0 /\ j \in Nat /\ sess[s].joins \in Nat
    <2>1. j \in 0..MaxJoins /\ j # 0 /\ j \in Nat
      BY ChannelsOfSession
    <2>2. QED
      BY <2>1, SessionTyped
  <1>3. ASSUME NEW a \in 0..MaxJoins, LeaveMovesOn(s, a) \/ LeavesRoom(s, a) \/ CleansUp(s, a)
        PROVE  /\ sess'[s].joins = sess[s].joins /\ fwd'[<<s, j>>] = fwd[<<s, j>>]
               /\ leaver'[s][j] = leaver[s][j] \/ leaver[s][j] # NoLeave
    BY <1>2, <1>n, <1>3 DEF LeaveMovesOn, LeavesRoom, CleansUp, OtherLeavers, SameForwards, NoLeave
  <1>4. ASSUME NEW k \in 1..MaxJoins, EndsForward(s, k)
        PROVE  /\ j > sess'[s].joins => fwd'[<<s, j>>] = "none"
               /\ fwd'[<<s, j>>] # "done" => leaver'[s][j] = NoLeave
    BY <1>2, <1>n, <1>4 DEF EndsForward, OtherLeavers
  <1>5. CASE Rests(s) \/ Gates(s) \/ Beats(s) \/ CallsLeave(s) \/ Works(s) \/ Dies(s)
    BY <1>2, <1>n, <1>5 DEF Rests, Gates, Beats, CallsLeave, Works, Dies, SameForwards, OtherLeavers
  <1>6. CASE EntersRoom(s)
    BY <1>2, <1>n, <1>6 DEF EntersRoom
  <1>7. QED
    BY <1>1, <1>2, <1>n, <1>3, <1>4, <1>5, <1>6 DEF SocketStep

(* SessionCoherent for one channel, holder by holder.                      *)
OneHolder(s, j) ==
    LET c == <<s, j>>
    IN  /\ chan[c].state = "open" <=> InSession(s, j) \/ \E a \in 0..MaxJoins : Taken(s, a, j)
        /\ \A a, b \in 0..MaxJoins : Taken(s, a, j) /\ Taken(s, b, j) => a = b
        /\ \A a \in 0..MaxJoins : Taken(s, a, j) => ~InSession(s, j)
        /\ \A p \in Rooms : Registered(c, p) <=>
              \/ InSession(s, j) /\ p = sess[s].party
              \/ \E a \in 0..MaxJoins : Taken(s, a, j) /\ p = leaver[s][a].party

LEMMA Holders ==
    SessionCoherent <=> \A s \in Sessions, j \in 1..MaxJoins : OneHolder(s, j)
  <1> SUFFICES ASSUME NEW s \in Sessions, NEW j \in 1..MaxJoins
               PROVE  LET c == <<s, j>>
                          takers == {a \in 0..MaxJoins : Taken(s, a, j)}
                      IN  (/\ chan[c].state = "open" <=> InSession(s, j) \/ takers # {}
                           /\ \A a \in takers : takers = {a} /\ ~InSession(s, j)
                           /\ \A p \in Rooms : Registered(c, p) <=>
                                 \/ InSession(s, j) /\ p = sess[s].party
                                 \/ \E a \in takers : p = leaver[s][a].party)
                          <=> OneHolder(s, j)
    BY DEF SessionCoherent
  <1> DEFINE takers == {a \in 0..MaxJoins : Taken(s, a, j)}
  <1>1. takers # {} <=> \E a \in 0..MaxJoins : Taken(s, a, j)
    OBVIOUS
  <1>2. (\A a \in takers : takers = {a}) <=>
           \A a, b \in 0..MaxJoins : Taken(s, a, j) /\ Taken(s, b, j) => a = b
    OBVIOUS
  <1>3. (\A a \in takers : ~InSession(s, j)) <=>
           \A a \in 0..MaxJoins : Taken(s, a, j) => ~InSession(s, j)
    OBVIOUS
  <1>4. \A p : (\E a \in takers : p = leaver[s][a].party) <=>
                 \E a \in 0..MaxJoins : Taken(s, a, j) /\ p = leaver[s][a].party
    OBVIOUS
  <1> HIDE DEF takers
  <1>5. QED
    BY <1>1, <1>2, <1>3, <1>4 DEF OneHolder, takers

(* A step that neither takes nor gives up a channel of s.                  *)
SameTakers(s, j) ==
    \A a \in 0..MaxJoins :
        /\ Taken(s, a, j)' <=> Taken(s, a, j)
        /\ Taken(s, a, j) => leaver'[s][a].party = leaver[s][a].party

LEMMA HolderStays ==
    ASSUME NEW s, NEW j, OneHolder(s, j), SameTakers(s, j), SameChannel(s, j),
           InSession(s, j)' <=> InSession(s, j),
           InSession(s, j) => sess'[s].party = sess[s].party
    PROVE  OneHolder(s, j)'
  BY DEF OneHolder, SameTakers, SameChannel

LEMMA CoherentStep ==
    TypeOK /\ JoinsCounted /\ JoinsFromOutside /\ ForwardsOnce /\ SessionCoherent /\ [Next]_vars
        => SessionCoherent'
  <1>h. (\A s \in Sessions, j \in 1..MaxJoins : OneHolder(s, j))' => SessionCoherent'
    BY Holders, PTL
  <1> SUFFICES ASSUME TypeOK, JoinsCounted, JoinsFromOutside, ForwardsOnce, SessionCoherent,
                      [Next]_vars, NEW s \in Sessions, NEW j \in 1..MaxJoins
               PROVE  OneHolder(s, j)'
    BY <1>h
  <1>1. SocketStep(s)
    BY SocketSteps
  <1>2. OneHolder(s, j)
    BY Holders
  <1>3. CASE Rests(s) \/ Beats(s) \/ Works(s) \/ Gates(s) \/ CallsLeave(s)
    <2>1. SameTakers(s, j)
      <3>1. CASE leaver'[s] = leaver[s]
        BY <3>1 DEF SameTakers, Taken
      <3>2. CASE OtherLeavers(s, 0) /\ leaver[s][0].at = "none" /\ leaver'[s][0].at \in {"none", "take"}
        BY <3>2 DEF SameTakers, Taken, OtherLeavers
      <3>3. QED
        BY <1>3, <3>1, <3>2 DEF Rests, Beats, Works, Gates, CallsLeave
    <2>2. sess'[s].party = sess[s].party /\ sess'[s].joins = sess[s].joins /\ SameChannel(s, j)
      BY <1>3 DEF Rests, Beats, Works, Gates, CallsLeave, SameChannels
    <2>3. QED
      BY <1>2, <2>1, <2>2, HolderStays DEF InSession
  <1>4. ASSUME NEW a \in 0..MaxJoins, LeaveMovesOn(s, a)
        PROVE  OneHolder(s, j)'
    <2>1. SameTakers(s, j)
      BY <1>4 DEF SameTakers, Taken, LeaveMovesOn, OtherLeavers
    <2>2. sess'[s] = sess[s] /\ SameChannel(s, j)
      BY <1>4 DEF LeaveMovesOn, SameChannels
    <2>3. QED
      BY <1>2, <2>1, <2>2, HolderStays DEF InSession
  <1>5. ASSUME NEW k \in 1..MaxJoins, EndsForward(s, k)
        PROVE  OneHolder(s, j)'
    <2>1. leaver[s][k] = NoLeave
      BY <1>5 DEF EndsForward, ForwardsOnce
    <2>2. SameTakers(s, j)
      BY <1>5, <2>1 DEF SameTakers, Taken, EndsForward, OtherLeavers, NoLeave, LeaveCalled
    <2>3. sess'[s] = sess[s] /\ SameChannel(s, j)
      BY <1>5 DEF EndsForward, SameChannels
    <2>4. QED
      BY <1>2, <2>2, <2>3, HolderStays DEF InSession
  <1>6. ASSUME NEW a \in 0..MaxJoins, LeavesRoom(s, a)
        PROVE  OneHolder(s, j)'
    <2>1. ~InSession(s, j)' /\ SameChannel(s, j)
      BY <1>6 DEF LeavesRoom, InSession, SameChannels
    <2>2. \A b \in 0..MaxJoins : b # a => /\ Taken(s, b, j)' <=> Taken(s, b, j)
                                          /\ leaver'[s][b].party = leaver[s][b].party
      BY <1>6 DEF LeavesRoom, OtherLeavers, Taken
    <2>3. /\ ~Taken(s, a, j) /\ leaver'[s][a].party = sess[s].party
          /\ Taken(s, a, j)' <=> j = sess[s].joins
      BY <1>6 DEF LeavesRoom, Taken
    <2>4. InSession(s, j) <=> j = sess[s].joins
      BY <1>6 DEF LeavesRoom, InSession
    <2>5. CASE j = sess[s].joins
      <3>1. \A b \in 0..MaxJoins : Taken(s, b, j)' <=> b = a
        BY <1>2, <2>2, <2>3, <2>4, <2>5 DEF OneHolder
      <3>2. /\ chan'[<<s, j>>].state = "open"
            /\ \A p \in Rooms : Registered(<<s, j>>, p)' <=> p = leaver'[s][a].party
        BY <1>2, <2>1, <2>3, <2>4, <2>5 DEF OneHolder, SameChannel
      <3>3. QED
        BY <2>1, <3>1, <3>2 DEF OneHolder
    <2>6. CASE j # sess[s].joins
      <3>1. SameTakers(s, j)
        BY <2>2, <2>3, <2>6 DEF SameTakers
      <3>2. QED
        BY <1>2, <2>1, <2>4, <2>6, <3>1, HolderStays
    <2>7. QED
      BY <2>5, <2>6
  <1>7. ASSUME NEW a \in 0..MaxJoins, CleansUp(s, a)
        PROVE  OneHolder(s, j)'
    <2>1. sess'[s] = sess[s] /\ leaver[s][a].at = "cleanup" /\ ~Taken(s, a, j)'
      BY <1>7 DEF CleansUp, Taken
    <2>2. \A b \in 0..MaxJoins : b # a => /\ Taken(s, b, j)' <=> Taken(s, b, j)
                                          /\ leaver'[s][b].party = leaver[s][b].party
      BY <1>7 DEF CleansUp, OtherLeavers, Taken
    <2>3. CASE j = leaver[s][a].join
      <3>1. Taken(s, a, j)
        BY <2>1, <2>3 DEF Taken
      <3>2. ~InSession(s, j)' /\ \A b \in 0..MaxJoins : ~Taken(s, b, j)'
        BY <1>2, <2>1, <2>2, <3>1 DEF OneHolder, InSession
      <3>3. chan'[<<s, j>>].state # "open" /\ \A p \in Rooms : ~Registered(<<s, j>>, p)'
        <4>1. \A p \in Rooms : Registered(<<s, j>>, p) <=> p = leaver[s][a].party
          BY <1>2, <3>1 DEF OneHolder
        <4>2. QED
          BY <1>7, <2>3, <4>1 DEF CleansUp
      <3>4. QED
        BY <3>2, <3>3 DEF OneHolder
    <2>4. CASE j # leaver[s][a].join
      <3>1. SameTakers(s, j)
        BY <2>1, <2>2, <2>4 DEF SameTakers, Taken
      <3>2. SameChannel(s, j)
        BY <1>7, <2>4 DEF CleansUp
      <3>3. QED
        BY <1>2, <2>1, <3>1, <3>2, HolderStays DEF InSession
    <2>5. QED
      BY <2>3, <2>4
  <1>8. CASE EntersRoom(s)
    <2>1. sess[s].party = NoParty /\ ~InSession(s, j) /\ SameTakers(s, j)
      BY <1>8 DEF EntersRoom, JoinsFromOutside, InSession, SameTakers, Taken
    <2>2. job[s].party \in Rooms /\ job[s].party # NoParty
      BY <1>8, WorkTyped, ChannelsOfSession DEF EntersRoom, Work
    <2>3. CASE j = sess[s].joins + 1
      <3>1. /\ InSession(s, j)' /\ chan'[<<s, j>>].state = "open"
            /\ chan[<<s, j>>].state = "free"
        BY <1>8, <2>2, <2>3 DEF EntersRoom, InSession
      <3>2. /\ \A a \in 0..MaxJoins : ~Taken(s, a, j) /\ ~Taken(s, a, j)'
            /\ \A p \in Rooms : ~Registered(<<s, j>>, p)
        BY <1>2, <2>1, <3>1 DEF OneHolder, SameTakers
      <3>3. \A p \in Rooms : Registered(<<s, j>>, p)' <=> p = sess'[s].party
        BY <1>8, <2>3, <3>2 DEF EntersRoom
      <3>4. QED
        BY <3>1, <3>2, <3>3 DEF OneHolder
    <2>4. CASE j # sess[s].joins + 1
      <3>1. ~InSession(s, j)' /\ SameChannel(s, j)
        BY <1>8, <2>4 DEF EntersRoom, InSession
      <3>2. QED
        BY <1>2, <2>1, <3>1, HolderStays
    <2>5. QED
      BY <2>3, <2>4
  <1>9. CASE Dies(s)
    BY <1>9 DEF Dies, FreeChan, OneHolder, InSession, Taken, NoLeave
  <1>10. QED
    BY <1>1, <1>3, <1>4, <1>5, <1>6, <1>7, <1>8, <1>9 DEF SocketStep

LEMMA OwnRegistryStep ==
    TypeOK /\ OwnRegistry /\ [Next]_vars => OwnRegistry'
  <1> SUFFICES ASSUME TypeOK, OwnRegistry, [Next]_vars
               PROVE  \A i \in Instances, p \in Rooms : \A c \in rooms'[i][p] : InstanceOf[c] = i
    BY DEF OwnRegistry
  <1>0. \A i \in Instances, p \in Rooms : \A c \in rooms[i][p] : InstanceOf[c] = i
    BY DEF OwnRegistry
  <1>1. ASSUME NEW t \in Sessions, NEW a \in 0..MaxJoins, LeaveCleanup(t, a)
        PROVE  \A i \in Instances, p \in Rooms : rooms'[i][p] \subseteq rooms[i][p]
    <2> DEFINE d == <<t, leaver[t][a].join>>
               k == InstanceOf[d]
               q == leaver[t][a].party
    <2>1. rooms' = [rooms EXCEPT ![k][q] = rooms[k][q] \ {d}]
      BY <1>1 DEF LeaveCleanup, Cleanup
    <2> HIDE DEF d, k, q
    <2>2. QED
      BY <2>1 DEF TypeOK
  <1>2. ASSUME NEW t \in Sessions, JoinSubscribe(t)
        PROVE  \A i \in Instances, p \in Rooms : \A c \in rooms'[i][p] :
                  c \in rooms[i][p] \/ InstanceOf[c] = i
    <2> DEFINE d == <<t, sess[t].joins + 1>>
               k == InstanceOf[d]
               q == job[t].party
    <2>1. rooms' = [rooms EXCEPT ![k][q] = rooms[k][q] \cup {d}]
      BY <1>2 DEF JoinSubscribe, Subscribe
    <2>2. \A i \in Instances, p \in Rooms : \A c \in rooms'[i][p] :
             c \in rooms[i][p] \/ (c = d /\ i = k)
      <3> HIDE DEF d, k, q
      <3>1. QED
        BY <2>1 DEF TypeOK
    <2>3. QED
      BY <2>2
  <1>3. ASSUME NEW i \in Instances, Crash(i)
        PROVE  \A k \in Instances, p \in Rooms : rooms'[k][p] \subseteq rooms[k][p]
    BY <1>3 DEF Crash, TypeOK
  <1>4. \/ UNCHANGED rooms
        \/ \E t \in Sessions : JoinSubscribe(t) \/ \E a \in 0..MaxJoins : LeaveCleanup(t, a)
        \/ \E i \in Instances : Crash(i)
    <2>1. ASSUME NEW t \in Sessions, NEW a \in 0..MaxJoins, Leave(t, a)
          PROVE  UNCHANGED rooms \/ LeaveCleanup(t, a)
      BY <2>1 DEF Leave, LeaveNothing, LeaveTake, LeaveRemove, LeaveRemoveFails, LeavePublish, hubVars,
         Broadcast, Publish
    <2>2. ASSUME NEW t \in Sessions, Loops(t)
          PROVE  UNCHANGED rooms
      BY <2>2 DEF Loops, Touch, TouchFails, TouchBreaks, SweepRemove, SweepPublish,
         ReadMembers, SendState, AnnounceJoined, hubVars, Broadcast, Publish
    <2>3. 0 \in 0..MaxJoins /\ \A j \in 1..MaxJoins : j \in 0..MaxJoins
      BY ChannelsOfSession
    <2>4. QED
      BY <2>1, <2>2, <2>3, ZenonT(60) DEF Next, Handle, Loops, Relay, JoinRefused, JoinGate, Heartbeat,
         LeaveFrame, Hangup, Forward, ForwardEnds, Take, Collect, Release, Deliver, Receive,
         CloseRow, Supersede, CloseParty, ClosePartyFails, Expire, Age, hubVars, vars, Publish
  <1>5. QED
    BY <1>0, <1>1, <1>2, <1>3, <1>4

(* Word of a close reaches a channel only from the bus, in the room the    *)
(* channel is registered in, and the bus only after the row was closed.    *)
Hears(s, j) ==
    \E i \in Instances :
        /\ wire[i] # <<>> /\ Head(wire[i]).ev = Closed
        /\ <<s, j>> \in rooms[i][Head(wire[i]).room]

LEMMA ClosedHeard ==
    ASSUME TypeOK, [Next]_vars, NEW s \in Sessions, NEW j \in 1..MaxJoins, HasClosed(<<s, j>>)'
    PROVE  HasClosed(<<s, j>>) \/ Hears(s, j)
  <1> DEFINE c == <<s, j>>
  <1>0. c \in Subs /\ 0 \in 0..MaxJoins /\ \A k \in 1..MaxJoins : k \in 0..MaxJoins
    BY ChannelsOfSession
  <1>1. chan[c].buf \in Seq(BusEvent)
    BY <1>0 DEF TypeOK, Channel
  <1>2. PICK k \in 1..Len(chan'[c].buf) : chan'[c].buf[k] = Closed
    BY DEF HasClosed
  <1>3. CASE chan'[c].buf \in {chan[c].buf, <<>>}
    BY <1>2, <1>3 DEF HasClosed
  <1>4. ASSUME NEW d \in Subs, Take(d)
        PROVE  HasClosed(c)
    <2>1. CASE d # c
      BY <1>0, <1>2, <1>4, <2>1 DEF Take, HasClosed, TypeOK
    <2>2. CASE d = c
      <3>1. chan'[c].buf = Tail(chan[c].buf) /\ chan[c].buf # <<>>
        BY <1>0, <1>4, <2>2, ForwardTyped DEF Take, TypeOK
      <3>2. k + 1 \in 1..Len(chan[c].buf) /\ chan'[c].buf[k] = chan[c].buf[k + 1]
        BY <1>1, <1>2, <3>1
      <3>3. QED
        BY <1>2, <3>2 DEF HasClosed
    <2>3. QED
      BY <2>1, <2>2
  <1>5. ASSUME NEW i \in Instances, Receive(i)
        PROVE  HasClosed(c) \/ Hears(s, j)
    <2> DEFINE m == Head(wire[i])
    <2>1. chan'[c] = chan[c] \/ (c \in rooms[i][m.room] /\ chan'[c].buf = Offer(chan[c].buf, m.ev))
      BY <1>0, <1>5 DEF Receive, Dispatch, TypeOK, Channel
    <2>2. CASE chan'[c] = chan[c]
      BY <1>3, <2>2
    <2>3. CASE c \in rooms[i][m.room] /\ chan'[c].buf = Append(chan[c].buf, m.ev)
      <3>1. CASE k \in 1..Len(chan[c].buf)
        <4>1. chan[c].buf[k] = Closed
          BY <1>1, <1>2, <2>3, <3>1
        <4>2. QED
          BY <3>1, <4>1 DEF HasClosed
      <3>2. CASE k \notin 1..Len(chan[c].buf)
        <4>1. k = Len(chan[c].buf) + 1
          BY <1>1, <1>2, <2>3, <3>2
        <4>2. m.ev = Closed
          BY <1>1, <1>2, <2>3, <4>1
        <4>3. QED
          BY <1>5, <2>3, <4>2 DEF Hears, Receive
      <3>3. QED
        BY <3>1, <3>2
    <2>4. QED
      BY <1>3, <2>1, <2>2, <2>3 DEF Offer
  <1>6. ASSUME NEW t \in Sessions, NEW a \in 0..MaxJoins, LeaveCleanup(t, a)
        PROVE  chan'[c].buf = chan[c].buf
    <2>1. chan' = [chan EXCEPT ![<<t, leaver[t][a].join>>].state = "closed"]
      BY <1>6, ChannelsOfSession DEF LeaveCleanup, Cleanup
    <2>2. QED
      BY <1>0, <2>1 DEF TypeOK, Channel
  <1>7. ASSUME NEW t \in Sessions, JoinSubscribe(t)
        PROVE  chan'[c].buf \in {chan[c].buf, <<>>}
    <2>1. chan' = [chan EXCEPT ![<<t, sess[t].joins + 1>>] = [state |-> "open", buf |-> <<>>]]
      BY <1>7, ChannelsOfSession DEF JoinSubscribe, Subscribe
    <2>2. QED
      BY <1>0, <2>1 DEF TypeOK
  <1>8. ASSUME \/ \E d \in Subs : Collect(d)
               \/ \E i \in Instances : Crash(i)
        PROVE  chan'[c].buf \in {chan[c].buf, <<>>}
    <2>1. ASSUME NEW d \in Subs, Collect(d)
          PROVE  chan'[c].buf \in {chan[c].buf, <<>>}
      <3>1. chan' = [chan EXCEPT ![d] = FreeChan]
        BY <2>1 DEF Collect, Release
      <3>2. chan'[c] = chan[c] \/ chan'[c] = FreeChan
        BY <1>0, <3>1 DEF TypeOK
      <3>3. QED
        BY <3>2 DEF FreeChan
    <2>2. ASSUME NEW i \in Instances, Crash(i)
          PROVE  chan'[c].buf \in {chan[c].buf, <<>>}
      <3>1. chan'[c] = chan[c] \/ chan'[c] = FreeChan
        BY <1>0, <2>2 DEF Crash
      <3>2. QED
        BY <3>1 DEF FreeChan
    <2>3. QED
      BY <1>8, <2>1, <2>2
  <1>9. \/ UNCHANGED chan
        \/ \E d \in Subs : Take(d)
        \/ \E i \in Instances : Receive(i) \/ Crash(i)
        \/ \E d \in Subs : Collect(d)
        \/ \E t \in Sessions : JoinSubscribe(t) \/ \E a \in 0..MaxJoins : LeaveCleanup(t, a)
    <2>1. ASSUME NEW t \in Sessions, NEW a \in 0..MaxJoins, Leave(t, a)
          PROVE  UNCHANGED chan \/ LeaveCleanup(t, a)
      BY <2>1 DEF Leave, LeaveNothing, LeaveTake, LeaveRemove, LeaveRemoveFails, LeavePublish, hubVars,
         Broadcast, Publish
    <2>2. ASSUME NEW t \in Sessions, Loops(t)
          PROVE  UNCHANGED chan
      BY <2>2 DEF Loops, Touch, TouchFails, TouchBreaks, SweepRemove, SweepPublish,
         ReadMembers, SendState, AnnounceJoined, hubVars, Broadcast, Publish
    <2>3. ASSUME NEW t \in Sessions, NEW k2 \in 1..MaxJoins, Forward(t, k2) \/ ForwardEnds(<<t, k2>>)
          PROVE  UNCHANGED chan \/ \E d \in Subs : Take(d)
      BY <2>3, ChannelsOfSession DEF Forward, ForwardEnds, hubVars
    <2>4. QED
      BY <1>0, <2>1, <2>2, <2>3 DEF Next, Handle, Loops, Relay, JoinRefused, JoinGate, Heartbeat,
         LeaveFrame, Hangup, Deliver,
         CloseRow, Supersede, CloseParty, ClosePartyFails, Expire, Age, hubVars, vars, Publish
  <1>10. QED
    BY <1>3, <1>4, <1>5, <1>6, <1>7, <1>8, <1>9

(* A row never opens again.                                                *)
LEMMA RowsStayClosed ==
    ASSUME TypeOK, [Next]_vars
    PROVE  /\ row' \in [Rooms -> {"open", "closed"}]
           /\ \A p \in Rooms : row[p] = "closed" => row'[p] = "closed"
  <1>1. ASSUME NEW t \in Sessions, NEW a, Leave(t, a)
        PROVE  UNCHANGED row
    BY <1>1 DEF Leave, LeaveNothing, LeaveTake, LeaveCleanup, LeaveRemove, LeaveRemoveFails, LeavePublish,
       partyVars
  <1>2. ASSUME NEW t \in Sessions, Loops(t)
        PROVE  UNCHANGED row
    BY <1>2 DEF Loops, Touch, TouchFails, TouchBreaks, SweepRemove, SweepPublish,
       ReadMembers, SendState, AnnounceJoined, partyVars
  <1>3. UNCHANGED row \/ \E p \in Rooms : row' = [row EXCEPT ![p] = "closed"]
    BY <1>1, <1>2 DEF Next, Handle, Loops, Relay, JoinRefused, JoinGate, JoinSubscribe, Heartbeat,
       LeaveFrame, Hangup, Forward, ForwardEnds, Collect, Deliver, Crash,
       CloseRow, Supersede, CloseParty, ClosePartyFails, Expire, Age, partyVars, vars
  <1>4. QED
    BY <1>3 DEF TypeOK

LEMMA ClosesKnownStep ==
    ASSUME TypeOK, JoinsCounted, Membership, [Next]_vars
    PROVE  ClosesKnown'
  <1>1. ASSUME NEW p \in Rooms, closing'[p]
        PROVE  row'[p] = "closed"
    <2>1. closing[p] \/ row'[p] = "closed"
      <3>1. ASSUME NEW t \in Sessions, NEW a, Leave(t, a)
            PROVE  UNCHANGED closing
        BY <3>1 DEF Leave, LeaveNothing, LeaveTake, LeaveCleanup, LeaveRemove, LeaveRemoveFails, LeavePublish,
       partyVars
      <3>2. ASSUME NEW t \in Sessions, Loops(t)
            PROVE  UNCHANGED closing
        BY <3>2 DEF Loops, Touch, TouchFails, TouchBreaks, SweepRemove, SweepPublish,
           ReadMembers, SendState, AnnounceJoined, partyVars
      <3>3. \/ UNCHANGED closing
            \/ \E q \in Rooms : CloseRow(q) \/ CloseParty(q) \/ ClosePartyFails(q)
        BY <3>1, <3>2 DEF Next, Handle, Loops, Relay, JoinRefused, JoinGate, JoinSubscribe, Heartbeat,
           LeaveFrame, Hangup, Forward, ForwardEnds, Collect, Deliver, Crash,
           Supersede, Expire, Age, partyVars, vars
      <3>4. QED
        BY <1>1, <3>3 DEF CloseRow, CloseParty, ClosePartyFails, TypeOK
    <2>2. QED
      BY <2>1, RowsStayClosed DEF Membership, ClosesKnown
  <1>2. ASSUME NEW s \in Sessions, NEW j \in 1..MaxJoins, ToldClosed(s, j)'
        PROVE  \E q \in Rooms :
                  /\ row'[q] = "closed"
                  /\ j = sess'[s].joins /\ sess'[s].party # NoParty => q = sess'[s].party
    <2>0. j \in 0..MaxJoins /\ <<s, j>> \in Subs /\ j # 0 /\ j \in Nat
      BY ChannelsOfSession
    <2>1. ToldClosed(s, j) \/ Hears(s, j)
      <3>1. HasClosed(<<s, j>>)' \/ leaver'[s][j].at = "take"
        BY <1>2 DEF ToldClosed
      <3>2. CASE leaver'[s][j].at = "take"
        <4>1. SocketStep(s)
          BY SocketSteps
        <4>2. ASSUME NEW a \in 0..MaxJoins, LeaveMovesOn(s, a) \/ LeavesRoom(s, a) \/ CleansUp(s, a)
              PROVE  leaver[s][j].at = "take"
          BY <2>0, <3>2, <4>2 DEF LeaveMovesOn, LeavesRoom, CleansUp, OtherLeavers
        <4>3. ASSUME NEW k \in 1..MaxJoins, EndsForward(s, k)
              PROVE  leaver[s][j].at = "take" \/ HasClosed(<<s, j>>)
          BY <2>0, <3>2, <4>3 DEF EndsForward, OtherLeavers
        <4>4. CASE Rests(s) \/ Gates(s) \/ Beats(s) \/ CallsLeave(s) \/ EntersRoom(s) \/ Works(s)
          <5>1. leaver'[s][j] = leaver[s][j]
            BY <2>0, <4>4 DEF Rests, Gates, Beats, CallsLeave, EntersRoom, Works, OtherLeavers
          <5>2. QED
            BY <3>2, <5>1 DEF ToldClosed
        <4>d. CASE Dies(s)
          BY <2>0, <3>2, <4>d DEF Dies, NoLeave
        <4>5. QED
          BY <4>1, <4>2, <4>3, <4>4, <4>d DEF SocketStep, ToldClosed
      <3>3. CASE HasClosed(<<s, j>>)'
        BY <3>3, ClosedHeard DEF ToldClosed
      <3>4. QED
        BY <3>1, <3>2, <3>3
    <2>2. PICK q \in Rooms : 
             /\ row[q] = "closed"
             /\ j = sess[s].joins /\ sess[s].party # NoParty => q = sess[s].party
      <3>1. CASE ToldClosed(s, j)
        BY <3>1 DEF Membership, ClosesKnown
      <3>2. CASE Hears(s, j)
        <4>1. PICK i \in Instances : /\ wire[i] # <<>> /\ Head(wire[i]).ev = Closed
                                     /\ <<s, j>> \in rooms[i][Head(wire[i]).room]
          BY <3>2 DEF Hears
        <4> DEFINE r == Head(wire[i]).room
        <4>2. wire[i] \in Seq(Envelope) /\ Head(wire[i]) \in Envelope
          BY <4>1 DEF TypeOK
        <4>3. r \in Rooms /\ 1 \in 1..Len(wire[i]) /\ wire[i][1] = Head(wire[i])
          BY <4>1, <4>2 DEF Envelope
        <4>4. row[r] = "closed"
          BY <4>1, <4>3 DEF Membership, ClosedFrameTruthful
        <4>5. Registered(<<s, j>>, r)
          BY <4>1, <4>3 DEF Membership, OwnRegistry, Registered
        <4>6. InSession(s, j) => r = sess[s].party
          <5>1. OneHolder(s, j)
            BY Holders DEF Membership
          <5>2. QED
            BY <4>3, <4>5, <5>1 DEF OneHolder
        <4>7. QED
          BY <4>3, <4>4, <4>6 DEF InSession
      <3>3. QED
        BY <2>1, <3>1, <3>2
    <2>3. row'[q] = "closed"
      BY <2>2, RowsStayClosed
    <2>4. \/ sess'[s].party = NoParty
          \/ sess'[s].party = sess[s].party /\ sess'[s].joins = sess[s].joins
          \/ j # sess'[s].joins
      <3>1. SocketStep(s)
        BY SocketSteps
      <3>2. CASE EntersRoom(s) /\ j = sess'[s].joins
        <4>1. j = sess[s].joins + 1 /\ sess[s].joins \in Nat
          BY <3>2, SessionTyped DEF EntersRoom
        <4>2. leaver'[s][j] = NoLeave
          BY <2>0, <3>2, <4>1 DEF EntersRoom, Membership, ForwardsOnce
        <4>3. ~HasClosed(<<s, j>>)'
          <5>1. chan'[<<s, j>>].buf = <<>>
            BY <3>2, <4>1 DEF EntersRoom
          <5>2. QED
            BY <5>1 DEF HasClosed
        <4>4. QED
          BY <1>2, <4>2, <4>3 DEF ToldClosed, NoLeave
      <3>3. CASE ~EntersRoom(s)
        BY <3>1, <3>3 DEF SocketStep, Rests, Gates, Beats, CallsLeave, Works, Dies, LeaveMovesOn,
           LeavesRoom, CleansUp, EndsForward
      <3>4. QED
        BY <3>2, <3>3
    <2>5. QED
      BY <2>2, <2>3, <2>4
  <1>3. QED
    BY <1>1, <1>2 DEF ClosesKnown

LEMMA TruthfulStep ==
    ASSUME TypeOK, JoinsCounted, Membership, [Next]_vars
    PROVE  ClosedFrameTruthful'
  <1>0. 0 \in 0..MaxJoins /\ \A j \in 1..MaxJoins : j \in 0..MaxJoins
    BY ChannelsOfSession
  <1>1. ASSUME NEW s \in Sessions, view'[s].phase = "closed"
        PROVE  \E p \in Rooms : row'[p] = "closed"
    <2>1. CASE view[s].phase = "closed"
      BY <2>1, RowsStayClosed DEF Membership, ClosedFrameTruthful
    <2>2. CASE \E t \in Sessions, p \in Rooms : JoinRefused(t, p)
      BY <2>2, RowsStayClosed DEF JoinRefused
    <2>3. ASSUME NEW t \in Sessions, NEW j \in 1..MaxJoins, Forward(t, j),
                 view[s].phase # "closed"
          PROVE  \E p \in Rooms : row[p] = "closed"
      <3> DEFINE c == <<t, j>>
                 ev == Head(chan[c].buf)
      <3>1. c \in Subs /\ Take(c)
        BY <2>3, ChannelsOfSession DEF Forward
      <3>2. chan[c].buf \in Seq(BusEvent) /\ chan[c].buf # <<>> /\ ev \in BusEvent
        BY <3>1, ForwardTyped DEF Take, TypeOK, Channel
      <3>3. s = t /\ view'[s] = Fold(view[s], ev)
        BY <1>1, <2>3 DEF Forward, TypeOK
      <3>4. ev = Closed
        BY <1>1, <2>3, <3>2, <3>3 DEF Fold, BusEvent, Closed, TypeOK, View
      <3>5. HasClosed(c)
        <4>1. 1 \in 1..Len(chan[c].buf) /\ ev = chan[c].buf[1]
          BY <3>2
        <4>2. QED
          BY <3>4, <4>1 DEF HasClosed
      <3>6. QED
        BY <3>5 DEF Membership, ClosesKnown, ToldClosed
    <2>4. ASSUME NEW t \in Sessions, SendState(t), view[s].phase # "closed"
          PROVE  FALSE
      BY <1>1, <2>4 DEF SendState, TypeOK
    <2>5. \/ UNCHANGED view
          \/ \E t \in Sessions : \/ \E p \in Rooms : JoinRefused(t, p)
                                 \/ SendState(t)
                                 \/ \E j \in 1..MaxJoins : Forward(t, j)
      <3>1. ASSUME NEW t \in Sessions, NEW a, Leave(t, a)
            PROVE  UNCHANGED view
        BY <3>1 DEF Leave, LeaveNothing, LeaveTake, LeaveCleanup, LeaveRemove, LeaveRemoveFails,
           LeavePublish
      <3>2. ASSUME NEW t \in Sessions, Loops(t)
            PROVE  UNCHANGED view \/ SendState(t)
        BY <3>2 DEF Loops, Touch, TouchFails, TouchBreaks, SweepRemove, SweepPublish,
           ReadMembers, AnnounceJoined
      <3>3. QED
        BY <3>1, <3>2 DEF Next, Handle, Loops, Relay, JoinGate, JoinSubscribe, Heartbeat,
           LeaveFrame, Hangup, ForwardEnds, Collect, Deliver, Crash,
           CloseRow, Supersede, CloseParty, ClosePartyFails, Expire, Age, sessVars, vars
    <2>6. QED
      BY <1>1, <2>1, <2>2, <2>3, <2>4, <2>5, RowsStayClosed
  <1>2. ASSUME NEW i \in Instances, NEW k \in 1..Len(wire'[i]), wire'[i][k].ev = Closed
        PROVE  row'[wire'[i][k].room] = "closed"
    <2>0. wire[i] \in Seq(Envelope) /\ \A n \in 1..Len(wire[i]) : wire[i][n] \in Envelope
      BY DEF TypeOK
    <2>1. ASSUME NEW n \in 1..Len(wire[i]), wire[i][n].ev = Closed
          PROVE  wire[i][n].room \in Rooms /\ row'[wire[i][n].room] = "closed"
      BY <2>0, <2>1, RowsStayClosed DEF Membership, ClosedFrameTruthful, Envelope
    <2>2. ASSUME NEW p \in Rooms, NEW ev, Publish(p, ev), ev = Closed => row'[p] = "closed"
          PROVE  row'[wire'[i][k].room] = "closed"
      <3>1. wire'[i] = Append(wire[i], Message(p, ev))
        BY <2>2 DEF Publish
      <3>2. CASE k \in 1..Len(wire[i])
        <4>1. wire'[i][k] = wire[i][k]
          BY <2>0, <3>1, <3>2
        <4>2. QED
          BY <1>2, <2>1, <3>2, <4>1
      <3>3. CASE k \notin 1..Len(wire[i])
        <4>1. k = Len(wire[i]) + 1
          BY <2>0, <3>1, <3>3
        <4>2. wire'[i][k] = Message(p, ev)
          BY <2>0, <3>1, <4>1
        <4>3. QED
          BY <1>2, <2>2, <4>2 DEF Message
      <3>4. QED
        BY <3>2, <3>3
    <2>3. CASE wire'[i] \in {wire[i], <<>>}
      BY <1>2, <2>1, <2>3
    <2>4. ASSUME NEW x \in Instances, Deliver(x)
          PROVE  row'[wire'[i][k].room] = "closed"
      <3>1. wire'[i] = wire[i] \/ (wire'[i] = Tail(wire[i]) /\ wire[i] # <<>>)
        BY <2>4 DEF Deliver, Receive, TypeOK
      <3>2. CASE wire'[i] = Tail(wire[i]) /\ wire[i] # <<>>
        <4>1. k + 1 \in 1..Len(wire[i]) /\ wire'[i][k] = wire[i][k + 1]
          BY <2>0, <3>2
        <4>2. QED
          BY <1>2, <2>1, <4>1
      <3>3. QED
        BY <2>3, <3>1, <3>2
    <2>5. ASSUME NEW t \in Sessions, NEW a \in 0..MaxJoins, Leave(t, a)
          PROVE  row'[wire'[i][k].room] = "closed"
      <3>1. CASE LeavePublish(t, a)
        <4>1. leaver[t][a].party \in Rooms
          BY <3>1, LeaverTyped DEF LeavePublish
        <4>2. Left(UserOf[t]) # Closed
          BY DEF Left, Closed
        <4>3. QED
          BY <2>2, <2>3, <3>1, <4>1, <4>2 DEF LeavePublish, Broadcast, hubVars
      <3>2. CASE ~LeavePublish(t, a)
        BY <2>3, <2>5, <3>2 DEF Leave, LeaveNothing, LeaveTake, LeaveCleanup, LeaveRemove, LeaveRemoveFails,
           Cleanup, hubVars
      <3>3. QED
        BY <3>1, <3>2
    <2>6. ASSUME NEW t \in Sessions, Loops(t)
          PROVE  row'[wire'[i][k].room] = "closed"
      <3>1. job[t] \in Work
        BY <2>6, WorkTyped DEF Loops, Touch, TouchFails, TouchBreaks, SweepRemove, SweepPublish,
           ReadMembers, SendState, AnnounceJoined
      <3>2. job[t].party \in Rooms
        BY <3>1 DEF Work
      <3>3. \A u : Left(u) # Closed /\ Joined(u) # Closed
        BY DEF Left, Joined, Closed
      <3>4. UNCHANGED wire \/ \E u : Publish(job[t].party, Left(u)) \/ Publish(job[t].party, Joined(u))
        BY <2>6 DEF Loops, Touch, TouchFails, TouchBreaks, SweepRemove, SweepPublish,
           ReadMembers, SendState, AnnounceJoined, Broadcast, hubVars
      <3>5. QED
        BY <2>2, <2>3, <3>2, <3>3, <3>4
    <2>7. ASSUME NEW p \in Rooms, CloseParty(p)
          PROVE  row'[wire'[i][k].room] = "closed"
      <3>1. row'[p] = "closed"
        BY <2>7, RowsStayClosed DEF CloseParty, Membership, ClosesKnown
      <3>2. QED
        BY <2>2, <2>7, <3>1 DEF CloseParty
    <2>8. ASSUME NEW x \in Instances, Crash(x)
          PROVE  wire'[i] \in {wire[i], <<>>}
      BY <2>8 DEF Crash, TypeOK
    <2>9. CASE UNCHANGED wire
      BY <2>3, <2>9
    <2>10. QED
      BY <1>0, <2>3, <2>4, <2>5, <2>6, <2>7, <2>8, <2>9, ZenonT(60) DEF Next, Handle, Loops, Relay, JoinRefused,
         JoinGate, JoinSubscribe, Subscribe, Heartbeat, LeaveFrame, Hangup, Forward, Take,
         ForwardEnds, Collect, Release, CloseRow, Supersede, ClosePartyFails, Expire, Age,
         hubVars, vars
  <1>3. QED
    BY <1>1, <1>2 DEF ClosedFrameTruthful

LEMMA MembershipInit ==
    Init => Membership
  <1> SUFFICES ASSUME Init
               PROVE  Membership
    OBVIOUS
  <1>2. \A s \in Sessions : /\ job[s].at = "idle" /\ sess[s].party = NoParty /\ view[s].phase = "connecting"
                            /\ \A a \in 0..MaxJoins : leaver[s][a] = NoLeave
    BY DEF Init, NoJob
  <1>3. \A s \in Sessions, j \in 1..MaxJoins :
           /\ fwd[<<s, j>>] = "none" /\ chan[<<s, j>>] = FreeChan
           /\ j \in 0..MaxJoins
    <2>1. /\ \A s \in Sessions, j \in 1..MaxJoins : <<s, j>> \in Subs
          /\ \A j \in 1..MaxJoins : j \in 0..MaxJoins
      BY ChannelsOfSession
    <2>2. QED
      BY <2>1 DEF Init, HubInit
  <1>4. 0 \in 0..MaxJoins
    BY ChannelsOfSession
  <1>5. \A i \in Instances : wire[i] = <<>> /\ \A p \in Rooms : rooms[i][p] = {}
    BY DEF Init, HubInit
  <1>6. \A s \in Sessions, j \in 1..MaxJoins : ~ToldClosed(s, j)
    <2>1. ASSUME NEW s \in Sessions, NEW j \in 1..MaxJoins
          PROVE  ~HasClosed(<<s, j>>)
      <3>1. chan[<<s, j>>].buf = <<>>
        BY <1>3 DEF FreeChan
      <3>2. QED
        BY <3>1 DEF HasClosed
    <2>2. \A s \in Sessions, j \in 1..MaxJoins : leaver[s][j].at = "none"
      BY <1>2, <1>3 DEF NoLeave
    <2>3. QED
      BY <2>1, <2>2 DEF ToldClosed
  <1>7. JoinsFromOutside /\ OwnRegistry /\ ForwardsOnce
    BY <1>2, <1>3, <1>4, <1>5 DEF JoinsFromOutside, OwnRegistry, ForwardsOnce, NoLeave
  <1>8. SessionCoherent
    <2>1. ASSUME NEW s \in Sessions, NEW j \in 1..MaxJoins
          PROVE  /\ chan[<<s, j>>].state # "open" /\ sess[s].party = NoParty
                 /\ \A a \in 0..MaxJoins : leaver[s][a] = NoLeave
                 /\ \A p \in Rooms : ~Registered(<<s, j>>, p)
      <3>1. InstanceOf[<<s, j>>] \in Instances
        BY ChannelsOfSession
      <3>2. QED
        BY <1>2, <1>3, <1>5, <3>1 DEF Registered, FreeChan
    <2>2. QED
      BY <2>1, Holders DEF OneHolder, InSession, Taken, NoLeave
  <1>9. ClosesKnown
    BY <1>6 DEF ClosesKnown, Init
  <1>10. ClosedFrameTruthful
    BY <1>2, <1>5 DEF ClosedFrameTruthful
  <1>11. QED
    BY <1>7, <1>8, <1>9, <1>10 DEF Membership

LEMMA MembershipStep ==
    ASSUME TypeOK, JoinsCounted, Membership, [Next]_vars
    PROVE  (TypeOK /\ JoinsCounted /\ Membership)'
  <1>1. (TypeOK /\ JoinsCounted)'
    BY TypeStep, JoinsCountedStep
  <1>2. (JoinsFromOutside /\ OwnRegistry /\ SessionCoherent /\ ForwardsOnce)'
    BY JoinsFromOutsideStep, OwnRegistryStep, CoherentStep, ForwardsOnceStep DEF Membership
  <1>3. (ClosesKnown /\ ClosedFrameTruthful)'
    BY ClosesKnownStep, TruthfulStep
  <1>4. QED
    BY <1>1, <1>2, <1>3 DEF Membership

(* Every open subscription has one holder, the session in the room of its  *)
(* newest join or one leave that is about to clean it up, and is           *)
(* registered in that holder's room only, whatever the read loop, detached *)
(* leaves and a dying process do in whatever order; and nobody is told of  *)
(* a close before the row is closed (party.go, hub.go, close.go).          *)
THEOREM GatewayMembershipCoherent == Spec => []MembershipCoherent
<1>1. Init => TypeOK /\ JoinsCounted /\ Membership
  BY GatewayInit, MembershipInit
<1>2. TypeOK /\ JoinsCounted /\ Membership /\ [Next]_vars => (TypeOK /\ JoinsCounted /\ Membership)'
  BY MembershipStep
<1>3. Membership => MembershipCoherent
  BY DEF Membership, MembershipCoherent
<1>4. QED
  BY <1>1, <1>2, <1>3, PTL DEF Spec
----------------------------------------------------------------------------
(* Nobody is listed without a reason.                                      *)
LEMMA LateLeaveStays ==
    ASSUME TypeOK, JoinsCounted, [Next]_vars, NEW s \in Sessions, NEW p \in Rooms, LateLeave(s, p)
    PROVE  LateLeave(s, p)'
  <1>1. sess'[s].joins = sess[s].joins \/ sess'[s].joins = sess[s].joins + 1
    <2>1. SocketStep(s)
      BY SocketSteps
    <2>2. QED
      BY <2>1 DEF SocketStep, Rests, Gates, Beats, CallsLeave, EntersRoom, Works, Dies,
         LeaveMovesOn, LeavesRoom, CleansUp, EndsForward
  <1>2. sess'[s].joins > 1
    <2>1. sess[s].joins > 1 /\ sess[s].joins \in Nat
      BY SessionTyped DEF LateLeave
    <2>2. QED
      BY <1>1, <2>1
  <1>3. \E q \in Rooms \ {p} : row'[q] = "closed"
    BY RowsStayClosed DEF LateLeave
  <1>4. QED
    BY <1>2, <1>3 DEF LateLeave

LEMMA WorksStep ==
    ASSUME TypeOK, JoinsCounted, Membership, WorksOnItsRoom, [Next]_vars
    PROVE  WorksOnItsRoom'
  <1> SUFFICES ASSUME NEW s \in Sessions, Working(s)',
                      NEW r, r = job'[s].party
               PROVE  sess'[s].party = r \/ row'[r] = "closed" \/ LateLeave(s, r)'
    BY DEF WorksOnItsRoom, Working, LateLeave
  <1>p. PICK p : p = job[s].party
    OBVIOUS
  <1>1. SocketStep(s)
    BY SocketSteps
  <1>2. Working(s) => p \in Rooms /\ leaver[s][0].at = "none"
    <2>1. Working(s) => job[s] \in Work
      BY WorkTyped DEF Working
    <2>2. QED
      BY <1>p, <2>1 DEF Working, Work, Membership, JoinsFromOutside
  <1>3. ASSUME Working(s), job'[s].party = p, sess'[s].party = sess[s].party
        PROVE  \/ sess'[s].party = p
               \/ row'[p] = "closed"
               \/ LateLeave(s, p)'
    BY <1>p, <1>2, <1>3, RowsStayClosed, LateLeaveStays DEF WorksOnItsRoom, Working
  <1>4. CASE Rests(s) \/ CallsLeave(s) \/ Works(s)
    <2>1. Working(s) /\ job'[s].party = p /\ sess'[s].party = sess[s].party
      BY <1>p, <1>4 DEF Rests, CallsLeave, Works, Working, NoJob
    <2>2. QED
      BY <1>3, <2>1
  <1>5. CASE Gates(s) \/ Beats(s) \/ EntersRoom(s) \/ Dies(s)
    BY <1>5 DEF Gates, Beats, EntersRoom, Dies, Working, NoJob
  <1>6. ASSUME NEW a \in 0..MaxJoins, LeaveMovesOn(s, a) \/ CleansUp(s, a)
        PROVE  Working(s) /\ job'[s].party = p /\ sess'[s].party = sess[s].party
    BY <1>p, <1>6 DEF LeaveMovesOn, CleansUp, Working
  <1>7. ASSUME NEW j \in 1..MaxJoins, EndsForward(s, j)
        PROVE  Working(s) /\ job'[s].party = p /\ sess'[s].party = sess[s].party
    BY <1>p, <1>7 DEF EndsForward, Working
  <1>8. ASSUME NEW a \in 0..MaxJoins, LeavesRoom(s, a)
        PROVE  row'[p] = "closed" \/ LateLeave(s, p)'
    <2>1. Working(s) /\ leaver[s][a].at = "take" /\ sess[s].party # NoParty
      BY <1>8 DEF LeavesRoom, Working
    <2>2. a \in 1..MaxJoins
      <3>1. a # 0
        BY <1>2, <2>1
      <3>2. QED
        BY <3>1, ChannelsOfSession
    <2>3. ~(a > sess[s].joins)
      <3>1. leaver[s][a] # NoLeave
        BY <2>1 DEF NoLeave
      <3>2. fwd[<<s, a>>] = "done"
        BY <2>2, <3>1 DEF Membership, ForwardsOnce
      <3>3. QED
        BY <2>2, <3>2 DEF Membership, ForwardsOnce
    <2>4. PICK q \in Rooms : row[q] = "closed" /\ (a = sess[s].joins => q = sess[s].party)
      BY <2>1, <2>2 DEF Membership, ClosesKnown, ToldClosed
    <2>5. CASE q = p \/ row[p] = "closed"
      BY <1>2, <2>1, <2>4, <2>5, RowsStayClosed
    <2>6. CASE q # p /\ row[p] # "closed"
      <3>1. a # sess[s].joins => sess[s].joins > 1
        <4>1. a >= 1 /\ a \in Nat
          BY <2>2, ChannelsOfSession
        <4>2. sess[s].joins \in Nat
          BY SessionTyped
        <4>3. QED
          BY <2>3, <4>1, <4>2
      <3>2. LateLeave(s, p)
        BY <1>p, <1>2, <2>1, <2>4, <2>6, <3>1 DEF WorksOnItsRoom, Working, LateLeave
      <3>3. QED
        BY <1>2, <2>1, <3>2, LateLeaveStays
    <2>7. QED
      BY <2>5, <2>6
  <1>9. QED
    <2>1. ASSUME NEW a \in 0..MaxJoins, LeavesRoom(s, a)
          PROVE  job'[s].party = p
      BY <1>p, <2>1 DEF LeavesRoom
    <2>2. QED
      BY <1>1, <1>3, <1>4, <1>5, <1>6, <1>7, <1>8, <2>1 DEF SocketStep

(* Who appears in a room's presence set was touched by a socket at work.   *)
LEMMA Appears ==
    ASSUME TypeOK, [Next]_vars, NEW p \in Rooms, NEW u \in Users,
           u \in Present(p)', u \notin Present(p)
    PROVE  \E t \in Sessions :
              /\ UserOf[t] = u /\ Working(t) /\ job[t].party = p
              /\ sess'[t] = sess[t]
  <1>0. present'[p][u] # "absent" /\ present[p][u] = "absent"
    BY DEF Present
  <1>1. ASSUME NEW q \in Rooms, NEW us, Absent(q, us)
        PROVE  FALSE
    <2>1. [v \in Users |-> IF v \in us THEN "absent" ELSE present[q][v]][u] \in {"absent", present[q][u]}
      OBVIOUS
    <2>2. QED
      BY <1>0, <1>1, <2>1 DEF Absent, TypeOK
  <1>2. ASSUME NEW t \in Sessions, Touch(t) \/ TouchFails(t)
        PROVE  UserOf[t] = u /\ Working(t) /\ job[t].party = p /\ sess'[t] = sess[t]
    <2>1. job[t] \in Work /\ UserOf[t] \in Users
      BY <1>2, WorkTyped DEF Touch, TouchFails
    <2>2. job[t].party \in Rooms
      BY <2>1 DEF Work
    <2>3. present' = [present EXCEPT ![job[t].party][UserOf[t]] = "fresh"]
      BY <1>0, <1>2 DEF Touch, TouchFails
    <2>4. UserOf[t] = u /\ job[t].party = p
      BY <1>0, <2>1, <2>2, <2>3 DEF TypeOK
    <2>5. QED
      BY <1>2, <2>4 DEF Touch, TouchFails, Working
  <1>3. ASSUME NEW t \in Sessions, NEW a \in 0..MaxJoins, Leave(t, a)
        PROVE  FALSE
    <2>1. CASE LeaveRemove(t, a)
      <3>1. leaver[t][a].party \in Rooms
        BY <2>1, LeaverTyped DEF LeaveRemove
      <3>2. QED
        BY <1>1, <2>1, <3>1 DEF LeaveRemove
    <2>2. CASE UNCHANGED present
      BY <1>0, <2>2
    <2>3. QED
      BY <1>3, <2>1, <2>2 DEF Leave, LeaveNothing, LeaveTake, LeaveCleanup, LeaveRemoveFails, LeavePublish, partyVars
  <1>4. ASSUME NEW t \in Sessions, SweepRemove(t)
        PROVE  FALSE
    <2>1. job[t] \in Work
      BY <1>4, WorkTyped DEF SweepRemove
    <2>2. job[t].party \in Rooms
      BY <2>1 DEF Work
    <2>3. QED
      BY <1>1, <1>4, <2>2 DEF SweepRemove
  <1>5. ASSUME NEW q \in Rooms, NEW v \in Users, Age(q, v)
        PROVE  FALSE
    BY <1>0, <1>5 DEF Age, TypeOK
  <1>6. 0 \in 0..MaxJoins /\ \A j \in 1..MaxJoins : j \in 0..MaxJoins
    BY ChannelsOfSession
  <1>7. ASSUME UNCHANGED present
        PROVE  FALSE
    BY <1>0, <1>7
  <1>8. \E t \in Sessions : Touch(t) \/ TouchFails(t)
    BY <1>1, <1>3, <1>4, <1>5, <1>6, <1>7, ZenonT(60) DEF Next, Handle, Relay, JoinRefused, JoinGate, JoinSubscribe,
       Heartbeat, LeaveFrame, Hangup, TouchBreaks, SweepPublish, ReadMembers, SendState,
       AnnounceJoined, Forward, ForwardEnds, Collect, Deliver, Crash,
       CloseRow, Supersede, CloseParty, ClosePartyFails, Expire, partyVars, vars
  <1>9. QED
    BY <1>2, <1>8

LEMMA GhostStep ==
    ASSUME "leave" \notin RedisFails, TypeOK, JoinsCounted, Membership, GhostInv, [Next]_vars
    PROVE  NoGhosts'
  <1> SUFFICES ASSUME NEW p \in Rooms, row'[p] = "open", NEW u \in Present(p)'
               PROVE  \E s \in Sessions :
                         UserOf[s] = u /\ (Engaged(s, p)' \/ sess'[s].state = "crashed" \/ LateLeave(s, p)')
    BY DEF NoGhosts
  <1>1. row[p] = "open" /\ u \in Users
    BY RowsStayClosed DEF TypeOK, Present
  <1>2. CASE u \notin Present(p)
    <2>1. PICK t \in Sessions : /\ UserOf[t] = u /\ Working(t) /\ job[t].party = p
                                /\ sess'[t] = sess[t]
      BY <1>1, <1>2, Appears
    <2>2. sess[t].party = p \/ LateLeave(t, p)
      BY <1>1, <2>1 DEF GhostInv, WorksOnItsRoom, Working
    <2>3. QED
      BY <2>1, <2>2, LateLeaveStays DEF Engaged
  <1>3. CASE u \in Present(p)
    <2>1. PICK s \in Sessions :
             UserOf[s] = u /\ (Engaged(s, p) \/ sess[s].state = "crashed" \/ LateLeave(s, p))
      BY <1>1, <1>3 DEF GhostInv, NoGhosts
    <2>2. SocketStep(s)
      BY SocketSteps
    <2>3. CASE LateLeave(s, p)
      BY <2>1, <2>3, LateLeaveStays
    <2>4. CASE sess[s].state = "crashed"
      <3>1. sess'[s].state = "crashed"
        BY <2>2, <2>4 DEF SocketStep, Rests, Gates, Beats, CallsLeave, EntersRoom, Works, Dies,
           LeaveMovesOn, LeavesRoom, CleansUp, EndsForward
      <3>2. QED
        BY <2>1, <3>1
    <2>5. CASE sess[s].party = p
      <3>1. p # NoParty
        BY ChannelsOfSession
      <3>2. ASSUME NEW a \in 0..MaxJoins, LeavesRoom(s, a)
            PROVE  Engaged(s, p)'
        BY <2>5, <3>2 DEF LeavesRoom, Engaged
      <3>3. ~EntersRoom(s)
        <4>1. EntersRoom(s) => sess[s].party = NoParty
          BY DEF EntersRoom, Membership, JoinsFromOutside
        <4>2. QED
          BY <2>5, <3>1, <4>1
      <3>4. sess'[s].party = p \/ Engaged(s, p)' \/ sess'[s].state = "crashed"
        <4>1. ~EntersRoom(s) =>
                 \/ sess'[s].party = sess[s].party \/ sess'[s].state = "crashed"
                 \/ \E a \in 0..MaxJoins : LeavesRoom(s, a)
          BY <2>2 DEF SocketStep, Rests, Gates, Beats, CallsLeave, Works, Dies,
             LeaveMovesOn, CleansUp, EndsForward
        <4>2. QED
          BY <2>5, <3>2, <3>3, <4>1
      <3>5. QED
        BY <2>1, <3>4 DEF Engaged
    <2>6. CASE job[s].at # "idle" /\ job[s].party = p
      <3>1. CASE Works(s) /\ job'[s] = NoJob
        <4>1. sess[s].party = p \/ LateLeave(s, p)
          BY <1>1, <2>6, <3>1 DEF GhostInv, WorksOnItsRoom, Works, Working
        <4>2. sess'[s] = sess[s]
          BY <3>1 DEF Works
        <4>3. QED
          BY <2>1, <4>1, <4>2, LateLeaveStays DEF Engaged
      <3>2. CASE ~(Works(s) /\ job'[s] = NoJob)
        <4>1. ASSUME NEW a \in 0..MaxJoins, LeaveMovesOn(s, a) \/ LeavesRoom(s, a) \/ CleansUp(s, a)
              PROVE  job'[s] = job[s]
          BY <4>1 DEF LeaveMovesOn, LeavesRoom, CleansUp
        <4>2. ASSUME NEW j \in 1..MaxJoins, EndsForward(s, j)
              PROVE  job'[s] = job[s]
          BY <4>2 DEF EndsForward
        <4>3. (job'[s].at # "idle" /\ job'[s].party = p) \/ sess'[s].state = "crashed"
          BY <2>2, <2>6, <3>2, <4>1, <4>2 DEF SocketStep, Rests, Gates, Beats, CallsLeave, EntersRoom,
             Works, Working, Dies
        <4>4. QED
          BY <2>1, <4>3 DEF Engaged
      <3>3. QED
        BY <3>1, <3>2
    <2>7. ASSUME NEW j \in 0..MaxJoins, leaver[s][j].at \in {"cleanup", "zrem"}, leaver[s][j].party = p
          PROVE  \/ leaver'[s][j].at \in {"cleanup", "zrem"} /\ leaver'[s][j].party = p
                 \/ sess'[s].state = "crashed"
      <3>1. ASSUME NEW a \in 0..MaxJoins, LeaveMovesOn(s, a)
            PROVE  leaver'[s][j] = leaver[s][j]
        <4>1. a # j
          <5>1. present'[p][u] # "absent"
            BY DEF Present
          <5>2. QED
            BY <2>1, <2>7, <3>1, <5>1 DEF LeaveMovesOn
        <4>2. QED
          BY <3>1, <4>1 DEF LeaveMovesOn, OtherLeavers
      <3>2. ASSUME NEW a \in 0..MaxJoins, LeavesRoom(s, a)
            PROVE  leaver'[s][j] = leaver[s][j]
        BY <2>7, <3>2 DEF LeavesRoom, OtherLeavers
      <3>c. ASSUME NEW a \in 0..MaxJoins, CleansUp(s, a)
            PROVE  leaver'[s][j].at \in {"cleanup", "zrem"} /\ leaver'[s][j].party = p
        BY <2>7, <3>c DEF CleansUp, OtherLeavers
      <3>3. ASSUME NEW k \in 1..MaxJoins, EndsForward(s, k)
            PROVE  leaver'[s][j] = leaver[s][j]
        <4>1. leaver[s][k] = NoLeave
          BY <3>3 DEF EndsForward, Membership, ForwardsOnce
        <4>2. j # k
          BY <2>7, <4>1 DEF NoLeave
        <4>3. QED
          BY <3>3, <4>2 DEF EndsForward, OtherLeavers
      <3>4. CASE Gates(s) \/ CallsLeave(s)
        BY <2>7, <3>4 DEF Gates, CallsLeave, OtherLeavers
      <3>5. CASE Rests(s) \/ Beats(s) \/ EntersRoom(s) \/ Works(s)
        BY <2>7, <3>5 DEF Rests, Beats, EntersRoom, Works
      <3>6. CASE Dies(s)
        BY <3>6 DEF Dies
      <3>7. QED
        BY <2>2, <2>7, <3>1, <3>2, <3>c, <3>3, <3>4, <3>5, <3>6 DEF SocketStep
    <2>8. QED
      BY <2>1, <2>3, <2>4, <2>5, <2>6, <2>7 DEF Engaged
  <1>4. QED
    BY <1>2, <1>3

(* As long as no leave's ZREM fails, whatever else in Redis may, whoever   *)
(* is listed in an open room has a socket there, one on its way in or out, *)
(* one that died with its process, or one whose late leave took the wrong  *)
(* room: leave, teardown and the sweep leave no other ghosts               *)
(* (touchPresence, leave in party.go).  With a failed ZREM there is one    *)
(* more, which the heartbeats of others or the key's TTL must remove.      *)
THEOREM GatewayNoGhosts ==
    ASSUME "leave" \notin RedisFails
    PROVE  Spec => []NoGhosts
<1>1. Init => TypeOK /\ JoinsCounted /\ Membership /\ GhostInv
  <2> SUFFICES ASSUME Init
               PROVE  TypeOK /\ JoinsCounted /\ Membership /\ GhostInv
    OBVIOUS
  <2>1. TypeOK /\ JoinsCounted /\ Membership
    BY GatewayInit, MembershipInit
  <2>2. WorksOnItsRoom
    BY DEF Init, WorksOnItsRoom, NoJob
  <2>3. NoGhosts
    BY DEF Init, NoGhosts, Present
  <2>4. QED
    BY <2>1, <2>2, <2>3 DEF GhostInv
<1>2. TypeOK /\ JoinsCounted /\ Membership /\ GhostInv /\ [Next]_vars
         => (TypeOK /\ JoinsCounted /\ Membership /\ GhostInv)'
  BY MembershipStep, WorksStep, GhostStep DEF GhostInv
<1>3. GhostInv => NoGhosts
  BY DEF GhostInv
<1>4. QED
  BY <1>1, <1>2, <1>3, PTL DEF Spec
=============================================================================
