---------------------------- MODULE PartyClient ----------------------------
(***************************************************************************)
(* A viewer's party page (app/parties/[id]/party-client.tsx, live-chat.tsx)*)
(* over its socket hook (lib/hooks/use-party.ts) and the fold of frames    *)
(* into a room (lib/parties.ts), with the API's side of the socket as far  *)
(* as the page can tell it: the first-frame authentication, the join that  *)
(* subscribes, snapshots and answers in separate steps, and the chat,      *)
(* whose id, backlog and broadcast are three commands.  Presence, the      *)
(* shared clock and delivery are the subject of the other party modules.   *)
(*                                                                         *)
(* The page may be left and opened again: each visit runs the effect with  *)
(* variables of its own, and what an earlier visit left running goes on.   *)
(***************************************************************************)
EXTENDS Naturals, Sequences, FiniteSets, SequencesExt

CONSTANTS
    Speakers,   \* members who talk; the viewer is one of them
    Me,         \* the viewer
    ChatCap,    \* CHAT_CAP, and the length of the API's backlog
    MaxLines,   \* chat lines (bound)
    MaxVisits,  \* times the page is opened (bound)
    MaxDrops,   \* lost connections, lost frames, expired tokens, failed joins
                \* and refreshes (bound)
    MaxFrames   \* frames on their way to the page (bound)

ASSUME PartyClientAssumption ==
    /\ Me \in Speakers /\ IsFiniteSet(Speakers)
    /\ {ChatCap, MaxLines, MaxVisits, MaxDrops, MaxFrames} \subseteq Nat

VARIABLES
    row,        \* the party: "open", "ending" (its row is closed), "ended"
                \* (and everybody was told)
    lines,      \* ids handed out so far
    backlog,    \* the API's chat list
    saying,     \* saying[u]: the message u's session is publishing
    token,      \* the access token: "none", "good" or "expired"
    visit,      \* the visit that shows the page; 0 before the first
    shown,      \* the page is on screen
    eff,        \* eff[v]: the effect of visit v
    sock,       \* sock[v]: its socket and the session at the other end
    snap,       \* the snapshot useParty keeps
    missed,     \* history: messages this session's socket lost
    drops       \* faults so far

vars == <<row, lines, backlog, saying, token, visit, shown, eff, sock, snap, missed, drops>>
api == <<row, lines, backlog, saying>>

Visits == 1 .. MaxVisits
Fatal == {"not_found", "forbidden", "conflict"}

Idle == [at |-> "idle", id |-> 0]
NoEffect == [at |-> "none", closedByUs |-> FALSE, needsRefresh |-> FALSE, beating |-> FALSE]
NoSocket == [state |-> "none", token |-> "none", backlog |-> <<>>, out |-> <<>>]
EmptyRoom == [connection |-> "connecting", party |-> "none", chat |-> <<>>,
              error |-> "none", notice |-> FALSE]

Init ==
    /\ row = "open" /\ lines = 0 /\ backlog = <<>> /\ saying = [u \in Speakers |-> Idle]
    /\ token \in {"none", "good", "expired"}
    /\ visit = 0 /\ shown = FALSE
    /\ eff = [v \in Visits |-> NoEffect]
    /\ sock = [v \in Visits |-> NoSocket]
    /\ snap = EmptyRoom /\ missed = {} /\ drops = 0

Faulty == drops < MaxDrops /\ drops' = drops + 1

-----------------------------------------------------------------------------
(* The fold of frames into the room: lib/parties.ts.                       *)

Recent(s) == IF Len(s) <= ChatCap THEN s ELSE SubSeq(s, Len(s) - ChatCap + 1, Len(s))

(* A fault ChatShowsRoom must notice: a known id is appended again.        *)
AppendAlways(chat, id) == Recent(Append(chat, id))

AppendChat(chat, id) == IF Contains(chat, id) THEN chat ELSE Recent(Append(chat, id))

(* applyFrame: a state frame replaces the room, a message joins it.        *)
Fold(room, f) ==
    CASE f.op = "state"  -> [room EXCEPT !.party = "open", !.chat = Recent(f.chat),
                                         !.error = "none", !.notice = FALSE]
      [] f.op = "chat"   -> [room EXCEPT !.chat = AppendChat(@, f.id), !.notice = FALSE]
      [] f.op = "closed" -> IF room.party = "open" THEN [room EXCEPT !.party = "closed"] ELSE room
      [] f.op = "error" /\ f.code \in Fatal \cup {"unauthorized"} -> [room EXCEPT !.error = f.code]
      [] OTHER           -> [room EXCEPT !.notice = TRUE]

Frame(op, id, chat, code) == [op |-> op, id |-> id, chat |-> chat, code |-> code]
Error(code) == Frame("error", 0, <<>>, code)

Connection(c) == snap' = [snap EXCEPT !.connection = c]

(* The page (PartyClient's returns, ConnectionPill and the controls).      *)
Ended(room) == room.party # "none" /\ (room.party = "closed" \/ room.error = "conflict")

Screen(room) ==
    CASE room.party = "none" -> IF room.error = "none" THEN "skeleton" ELSE "cannot_join"
      [] Ended(room) -> "ended"
      [] OTHER -> "room"

CanTalk(room) == Screen(room) = "room" /\ room.connection = "live"

-----------------------------------------------------------------------------
(* connect() after its refresh, if it needed one: without a token it waits *)
(* for the next try, else it opens the socket.                             *)
ProceedTo(v, tok) ==
    IF tok = "none"
    THEN /\ eff' = [eff EXCEPT ![v] = [@ EXCEPT !.at = "waiting", !.needsRefresh = TRUE]]
         /\ Connection("reconnecting")
         /\ UNCHANGED sock
    ELSE /\ eff' = [eff EXCEPT ![v] = [@ EXCEPT !.at = "opening", !.needsRefresh = FALSE]]
         /\ sock' = [sock EXCEPT ![v] = [NoSocket EXCEPT !.state = "dialing"]]
         /\ UNCHANGED snap

(* The effect runs on mount, for a fresh snapshot.                         *)
Visit ==
    /\ ~shown /\ visit < MaxVisits
    /\ visit' = visit + 1 /\ shown' = TRUE
    /\ IF token = "none"
       THEN /\ eff' = [eff EXCEPT ![visit + 1] = [@ EXCEPT !.at = "waiting", !.needsRefresh = TRUE]]
            /\ snap' = [EmptyRoom EXCEPT !.connection = "reconnecting"]
            /\ UNCHANGED sock
       ELSE /\ eff' = [eff EXCEPT ![visit + 1] = [@ EXCEPT !.at = "opening"]]
            /\ sock' = [sock EXCEPT ![visit + 1] = [NoSocket EXCEPT !.state = "dialing"]]
            /\ snap' = EmptyRoom
    /\ missed' = {}
    /\ UNCHANGED <<api, token, drops>>

(* A fault ComesBack must notice: the token is used as it is.              *)
RetryStale(v) ==
    /\ eff[v].at = "waiting"
    /\ ProceedTo(v, token)
    /\ UNCHANGED <<api, token, visit, shown, missed, drops>>

(* The retry timer: refresh first when the token was missing or refused.   *)
Retry(v) ==
    /\ eff[v].at = "waiting"
    /\ IF eff[v].needsRefresh
       THEN /\ eff' = [eff EXCEPT ![v] = [@ EXCEPT !.at = "refreshing", !.needsRefresh = FALSE]]
            /\ UNCHANGED <<sock, snap>>
       ELSE ProceedTo(v, token)
    /\ UNCHANGED <<api, token, visit, shown, missed, drops>>

(* A fault NoOrphans must notice: the page may have been left meanwhile.   *)
RefreshedUnaware(v) ==
    /\ eff[v].at = "refreshing"
    /\ \/ token' = "good" /\ UNCHANGED drops
       \/ token' = "none" /\ Faulty
    /\ ProceedTo(v, token')
    /\ UNCHANGED <<api, visit, shown, missed>>

(* refreshSession answers; a failure leaves no token.                      *)
Refreshed(v) ==
    /\ eff[v].at = "refreshing"
    /\ \/ token' = "good" /\ UNCHANGED drops
       \/ token' = "none" /\ Faulty
    /\ IF eff[v].closedByUs
       THEN eff' = [eff EXCEPT ![v].at = "over"] /\ UNCHANGED <<sock, snap>>
       ELSE ProceedTo(v, token')
    /\ UNCHANGED <<api, visit, shown, missed>>

(* onopen: auth and join leave at once, the heartbeat starts.              *)
Opened(v) ==
    /\ eff[v].at = "opening" /\ sock[v].state = "dialing"
    /\ eff' = [eff EXCEPT ![v] = [@ EXCEPT !.at = "open", !.beating = TRUE]]
    /\ sock' = [sock EXCEPT ![v] = [@ EXCEPT !.state = "auth", !.token = token]]
    /\ missed' = {}
    /\ UNCHANGED <<api, token, visit, shown, snap, drops>>

(* A fault TypeOK must notice: the heartbeat goes on.                      *)
ClosedBeating(v) ==
    /\ sock' = [sock EXCEPT ![v] = NoSocket]
    /\ eff' = [eff EXCEPT ![v].at = IF eff[v].closedByUs THEN "over" ELSE "waiting"]
    /\ IF eff[v].closedByUs THEN UNCHANGED snap ELSE Connection("reconnecting")

(* A fault PillIsTrue must notice: nobody is told.                         *)
ClosedQuietly(v) ==
    /\ sock' = [sock EXCEPT ![v] = NoSocket]
    /\ eff' = [eff EXCEPT ![v] = [@ EXCEPT !.at = IF eff[v].closedByUs
                                                  THEN "over" ELSE "waiting",
                                           !.beating = FALSE]]
    /\ UNCHANGED snap

(* onclose: the heartbeat stops, and unless the effect is over a retry is  *)
(* scheduled.                                                              *)
Closed(v) ==
    /\ sock' = [sock EXCEPT ![v] = NoSocket]
    /\ IF eff[v].closedByUs
       THEN eff' = [eff EXCEPT ![v] = [@ EXCEPT !.at = "over", !.beating = FALSE]] /\ UNCHANGED snap
       ELSE /\ eff' = [eff EXCEPT ![v] = [@ EXCEPT !.at = "waiting", !.beating = FALSE]]
            /\ Connection("reconnecting")

ConnectionLost(v) ==
    /\ eff[v].at \in {"opening", "open"} /\ Faulty
    /\ Closed(v)
    /\ UNCHANGED <<api, token, visit, shown, missed>>

(* The API closed the socket and everything it sent has been read.         *)
ConnectionClosed(v) ==
    /\ eff[v].at = "open" /\ sock[v].state = "shut" /\ sock[v].out = <<>>
    /\ Closed(v)
    /\ UNCHANGED <<api, token, visit, shown, missed, drops>>

(* onmessage.  A fatal error closes the socket, and with it whatever was   *)
(* still on its way.                                                       *)
Receive(v) ==
    LET f == Head(sock[v].out)
        fatal == f.op = "error" /\ f.code \in Fatal
    IN  /\ eff[v].at = "open" /\ sock[v].out # <<>>
        /\ snap' = [Fold(snap, f) EXCEPT !.connection =
                       CASE f.op = "state" -> "live"
                         [] f.op = "closed" \/ fatal -> "closed"
                         [] OTHER -> @]
        /\ eff' = [eff EXCEPT ![v] =
                     [@ EXCEPT !.closedByUs = eff[v].closedByUs \/ f.op = "closed" \/ fatal,
                               !.needsRefresh = eff[v].needsRefresh \/ f.code = "unauthorized",
                               !.at = IF fatal THEN "over" ELSE "open",
                               !.beating = eff[v].beating /\ ~fatal]]
        /\ sock' = [sock EXCEPT ![v] = IF fatal THEN NoSocket
                                            ELSE [@ EXCEPT !.out = Tail(sock[v].out)]]
        /\ UNCHANGED <<api, token, visit, shown, missed, drops>>

(* The effect's clean-up: the timer, the heartbeat and the socket go; a    *)
(* refresh under way does not.                                             *)
Leave ==
    /\ shown
    /\ shown' = FALSE
    /\ eff' = [eff EXCEPT ![visit] =
                 [@ EXCEPT !.closedByUs = TRUE, !.beating = FALSE,
                           !.at = IF eff[visit].at = "refreshing" THEN "refreshing" ELSE "over",
                           !.needsRefresh = FALSE]]
    /\ sock' = [sock EXCEPT ![visit] = NoSocket]
    /\ missed' = {} /\ snap' = EmptyRoom
    /\ UNCHANGED <<api, token, visit, drops>>

-----------------------------------------------------------------------------
(* The session at the other end.                                           *)

Push(v, f, state) ==
    sock' = [sock EXCEPT ![v] = [@ EXCEPT !.out = Append(sock[v].out, f), !.state = state]]

(* The first frame's token, and the join's gate.  A join that cannot read  *)
(* the party answers an error the page takes for a rejected message.       *)
Authenticate(v) ==
    /\ sock[v].state = "auth"
    /\ IF sock[v].token = "good"
       THEN sock' = [sock EXCEPT ![v] = [@ EXCEPT !.state = "join", !.token = "none"]]
       ELSE Push(v, Error("unauthorized"), "shut")
    /\ UNCHANGED <<api, token, visit, shown, eff, snap, missed, drops>>

JoinGate(v) ==
    /\ sock[v].state = "join"
    /\ IF row = "open" THEN sock' = [sock EXCEPT ![v].state = "subscribed"]
       ELSE Push(v, Error("conflict"), "refused")
    /\ UNCHANGED <<api, token, visit, shown, eff, snap, missed, drops>>

JoinBreaks(v) ==
    /\ sock[v].state = "join" /\ Faulty
    /\ Push(v, Error("internal_error"), "refused")
    /\ UNCHANGED <<api, token, visit, shown, eff, snap, missed>>

ReadBacklog(v) ==
    /\ sock[v].state = "subscribed"
    /\ sock' = [sock EXCEPT ![v] = [@ EXCEPT !.state = "snapshot", !.backlog = backlog]]
    /\ UNCHANGED <<api, token, visit, shown, eff, snap, missed, drops>>

SendState(v) ==
    /\ sock[v].state \in {"snapshot", "snapshot_left"}
    /\ sock' = [sock EXCEPT ![v] =
                  [@ EXCEPT !.out = Append(sock[v].out, Frame("state", 0, sock[v].backlog, "none")),
                            !.state = IF sock[v].state = "snapshot" THEN "room" ELSE "left",
                            !.backlog = <<>>]]
    /\ UNCHANGED <<api, token, visit, shown, eff, snap, missed, drops>>

(* The composer sends and forgets.  The session answers with an error, or  *)
(* publishes: id, backlog, broadcast.                                      *)
Say(u) ==
    /\ saying[u] = Idle /\ lines < MaxLines
    /\ u = Me => shown /\ CanTalk(snap) /\ sock[visit].state = "room"
    /\ lines' = lines + 1
    /\ saying' = [saying EXCEPT ![u] = [at |-> "append", id |-> lines + 1]]
    /\ UNCHANGED <<row, backlog, token, visit, shown, eff, sock, snap, missed, drops>>

Bounce ==
    /\ shown /\ CanTalk(snap) /\ sock[visit].state \in {"room", "left"} /\ Faulty
    /\ Push(visit, Error(IF sock[visit].state = "room" THEN "rate_limited" ELSE "bad_request"),
            sock[visit].state)
    /\ UNCHANGED <<api, token, visit, shown, eff, snap, missed>>

AppendBacklog(u) ==
    /\ saying[u].at = "append"
    /\ backlog' = Recent(Append(backlog, saying[u].id))
    /\ saying' = [saying EXCEPT ![u].at = "publish"]
    /\ UNCHANGED <<row, lines, token, visit, shown, eff, sock, snap, missed, drops>>

(* Subscribed sockets get what is published, in front of a state frame     *)
(* that is not sent yet.                                                   *)
Subscribed(v) == sock[v].state \in {"subscribed", "snapshot", "room"}
Hears(f, state(_)) ==
    sock' = [v \in Visits |->
               IF Subscribed(v) THEN [sock[v] EXCEPT !.out = Append(@, f), !.state = state(@)]
               ELSE sock[v]]
Room == \A v \in Visits : Len(sock[v].out) < MaxFrames

(* A message whose snapshot was read and whose state frame is not sent     *)
(* will be overwritten by it.                                              *)
Publish(u) ==
    /\ saying[u].at = "publish" /\ Room
    /\ saying' = [saying EXCEPT ![u] = Idle]
    /\ \/ /\ Hears(Frame("chat", saying[u].id, <<>>, "none"), LAMBDA s : s)
          /\ missed' = IF visit > 0 /\ sock[visit].state = "snapshot"
                       THEN missed \cup {saying[u].id} ELSE missed
          /\ UNCHANGED drops
       \/ /\ Faulty
          /\ missed' = missed \cup {saying[u].id}
          /\ UNCHANGED sock
    /\ UNCHANGED <<row, lines, backlog, token, visit, shown, eff, snap>>

(* The end: the row first, then the broadcast, which takes every session   *)
(* out of the room once it has relayed it, one that is still joining too.  *)
End ==
    /\ row = "open"
    /\ row' = "ending"
    /\ UNCHANGED <<lines, backlog, saying, token, visit, shown, eff, sock, snap, missed, drops>>

AfterClosed(s) == IF s = "room" THEN "left" ELSE "snapshot_left"

Broadcast ==
    /\ row = "ending" /\ Room
    /\ row' = "ended" /\ backlog' = <<>>
    /\ Hears(Frame("closed", 0, <<>>, "none"), AfterClosed)
    /\ UNCHANGED <<lines, saying, token, visit, shown, eff, snap, missed, drops>>

TokenExpires ==
    /\ token = "good" /\ Faulty
    /\ token' = "expired"
    /\ UNCHANGED <<api, visit, shown, eff, sock, snap, missed>>

-----------------------------------------------------------------------------
Steps(v) ==
    \/ Retry(v) \/ Refreshed(v) \/ Opened(v) \/ ConnectionClosed(v) \/ Receive(v)
    \/ Authenticate(v) \/ JoinGate(v) \/ ReadBacklog(v) \/ SendState(v)

Next ==
    \/ Visit \/ Leave \/ Bounce \/ End \/ Broadcast \/ TokenExpires
    \/ \E v \in Visits : Steps(v) \/ ConnectionLost(v) \/ JoinBreaks(v)
    \/ \E u \in Speakers : Say(u) \/ AppendBacklog(u) \/ Publish(u)

(* Timers fire, the API and the browser handle what reaches them; visitors,*)
(* speakers, hosts and faults owe nothing.                                 *)
Spec == Init /\ [][Next]_vars /\ \A v \in Visits : WF_vars(Steps(v))
-----------------------------------------------------------------------------
Ids == 1 .. MaxLines
FrameOK(f) ==
    /\ f.op \in {"state", "chat", "closed", "error"} /\ f.id \in Ids \cup {0}
    /\ ToSet(f.chat) \subseteq Ids

TypeOK ==
    /\ row \in {"open", "ending", "ended"} /\ lines \in 0 .. MaxLines
    /\ ToSet(backlog) \subseteq Ids /\ Len(backlog) <= ChatCap
    /\ saying \in [Speakers -> [at : {"idle", "append", "publish"}, id : Ids \cup {0}]]
    /\ token \in {"none", "good", "expired"} /\ visit \in 0 .. MaxVisits /\ shown \in BOOLEAN
    /\ eff \in [Visits -> [at : {"none", "waiting", "refreshing", "opening", "open", "over"},
                           closedByUs : BOOLEAN, needsRefresh : BOOLEAN, beating : BOOLEAN]]
    /\ \A v \in Visits : eff[v].beating <=> eff[v].at = "open"
    /\ \A v \in Visits : \A k \in 1 .. Len(sock[v].out) : FrameOK(sock[v].out[k])
    /\ Len(snap.chat) <= ChatCap /\ missed \subseteq Ids /\ drops \in 0 .. MaxDrops

(* A page that was left holds no socket, opens none and sends no           *)
(* heartbeats, whatever it was waiting for when it was left: the heartbeat *)
(* would keep its member in the room for good.                             *)
NoOrphans ==
    \A v \in Visits : v # visit \/ ~shown => eff[v].at \notin {"opening", "open"}

(* Once everything sent has been read, the page shows every message in the *)
(* backlog, or as many as it keeps, each once.  A message is missing only  *)
(* if its frame was lost, or was published while the join held a snapshot  *)
(* without it (applyFrame: a state frame replaces the chat).               *)
Settled == /\ shown /\ eff[visit].at = "open" /\ sock[visit].state = "room"
           /\ sock[visit].out = <<>> /\ \A u \in Speakers : saying[u] = Idle

ChatShowsRoom ==
    /\ Cardinality(ToSet(snap.chat)) = Len(snap.chat)
    /\ Settled => Len(snap.chat) = ChatCap \/ ToSet(backlog) \ missed \subseteq ToSet(snap.chat)

(* The pill says "Ended" only of a party whose row is closed, and "Live"   *)
(* only over a socket that is open, unless the end was read before the     *)
(* state frame of the join it overtook.                                    *)
PillIsTrue ==
    shown => /\ Ended(snap) => row # "open"
             /\ Screen(snap) = "room" /\ snap.connection = "live"
                   => eff[visit].at = "open" \/ eff[visit].closedByUs

(* A page that stays open gets into the room or learns that there is none, *)
(* whatever tokens and connections were lost on the way; only a join the   *)
(* API failed to serve is not tried again.                                 *)
ComesBack ==
    \A v \in Visits :
        shown /\ visit = v
            ~> \/ ~shown \/ snap.connection \in {"live", "closed"}
               \/ sock[v].state = "refused"
=============================================================================
