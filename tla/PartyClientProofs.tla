------------------------- MODULE PartyClientProofs -------------------------
(***************************************************************************)
(* The party page, for any numbers of speakers, visits, lines and faults:  *)
(* what its variables hold (TypeOK), that a page that was left runs        *)
(* nothing (NoOrphans), that the pill tells the truth (PillIsTrue) and     *)
(* that the chat is the room's (ChatShowsRoom).                            *)
(***************************************************************************)
EXTENDS PartyClient, FiniteSetTheorems, TLAPS

(* What the variables hold, in full.                                       *)
Codes == Fatal \cup {"none", "unauthorized", "internal_error", "rate_limited", "bad_request"}
Lines == Seq(Ids)
Frames == [op : {"chat"}, id : Ids, chat : Lines, code : Codes] \cup
          [op : {"state", "closed", "error"}, id : {0}, chat : Lines, code : Codes]
Effects == [at : {"none", "waiting", "refreshing", "opening", "open", "over"},
            closedByUs : BOOLEAN, needsRefresh : BOOLEAN, beating : BOOLEAN]
SocketStates == {"none", "dialing", "auth", "join", "subscribed", "snapshot", "snapshot_left",
                 "room", "left", "refused", "shut"}
Sockets == [state : SocketStates, token : {"none", "good", "expired"},
            backlog : Lines, out : Seq(Frames)]
Snapshots == [connection : {"connecting", "reconnecting", "live", "closed"},
              party : {"none", "open", "closed"}, chat : Lines, error : Codes, notice : BOOLEAN]
Sayings == [at : {"idle", "append", "publish"}, id : 0 .. MaxLines]

Types ==
    /\ row \in {"open", "ending", "ended"} /\ lines \in 0 .. MaxLines
    /\ backlog \in Lines /\ Len(backlog) <= ChatCap
    /\ saying \in [Speakers -> Sayings]
    /\ token \in {"none", "good", "expired"} /\ visit \in 0 .. MaxVisits /\ shown \in BOOLEAN
    /\ eff \in [Visits -> Effects]
    /\ sock \in [Visits -> Sockets]
    /\ snap \in Snapshots /\ Len(snap.chat) <= ChatCap
    /\ missed \subseteq Ids /\ drops \in 0 .. MaxDrops

(* An effect beats over an open socket only; the page on screen has run    *)
(* its effect, a visit to come has not, and one that is past has been told *)
(* to close: all that may be left of it is a refresh.                      *)
Effective ==
    /\ \A v \in Visits : eff[v].beating <=> eff[v].at = "open"
    /\ shown => visit # 0 /\ eff[visit].at # "none"
    /\ \A v \in Visits : v > visit => eff[v] = NoEffect
    /\ \A v \in Visits : v < visit \/ (v = visit /\ ~shown) =>
          eff[v].closedByUs /\ eff[v].at \in {"over", "refreshing"}

(* Nobody is told of the end of a party before its row is closed, and what *)
(* the snapshot says of the end and of the connection it was told.         *)
EndTold(f) == f.op = "closed" \/ f.code = "conflict"
Told ==
    /\ \A v \in Visits : \A k \in 1 .. Len(sock[v].out) : EndTold(sock[v].out[k]) => row # "open"
    /\ snap.party = "closed" \/ snap.error = "conflict" => row # "open"
    /\ shown /\ snap.connection = "live" => eff[visit].at = "open" \/ eff[visit].closedByUs

(* No message twice, in any list of them.                                  *)
Distinct(s) == \A m, n \in 1 .. Len(s) : s[m] = s[n] => m = n
NothingTwice ==
    /\ \A u \in Speakers : saying[u].at # "idle" => saying[u].id \in 1 .. lines
    /\ \A u, w \in Speakers :
          saying[u].at # "idle" /\ saying[w].at # "idle" /\ saying[u].id = saying[w].id => u = w
    /\ \A u \in Speakers : saying[u].at = "append" => saying[u].id \notin ToSet(backlog)
    /\ ToSet(backlog) \subseteq 1 .. lines
    /\ Distinct(backlog) /\ Distinct(snap.chat)
    /\ \A v \in Visits :
          /\ Distinct(sock[v].backlog) /\ Len(sock[v].backlog) <= ChatCap
          /\ \A k \in 1 .. Len(sock[v].out) :
                Distinct(sock[v].out[k].chat) /\ Len(sock[v].out[k].chat) <= ChatCap

(* The messages the page on screen must have once it has read what is on   *)
(* its way, and where it has them from: the state frame of the join, or    *)
(* the chat it shows, or a frame of their own.                             *)
Publishing == {saying[u].id : u \in {w \in Speakers : saying[w].at = "publish"}}
Needed == (ToSet(backlog) \ missed) \ Publishing

BeforeState == {"dialing", "auth", "join", "subscribed", "snapshot"}
IsState(out, k) == out[k].op = "state"
NoState(out) == \A k \in 1 .. Len(out) : ~IsState(out, k)
ComesIn(x, out, k) == \E j \in 1 .. Len(out) : j > k /\ out[j].op = "chat" /\ out[j].id = x
StateComes(need, out) ==
    \E k \in 1 .. Len(out) :
        /\ IsState(out, k)
        /\ \A j \in 1 .. Len(out) : IsState(out, j) => j = k
        /\ \A x \in need : x \in ToSet(out[k].chat) \/ ComesIn(x, out, k)
StateRead(need, chat, out) ==
    /\ NoState(out)
    /\ \/ Len(chat) = ChatCap
       \/ \A x \in need : x \in ToSet(chat) \/ ComesIn(x, out, 0)
ShowsAll(need, chat, out) == StateComes(need, out) \/ StateRead(need, chat, out)
Awaited == \A v \in Visits : sock[v].state \in BeforeState => NoState(sock[v].out)
Complete ==
    shown /\ eff[visit].at = "open" =>
        /\ sock[visit].state = "snapshot" => Needed \subseteq ToSet(sock[visit].backlog)
        /\ sock[visit].state = "room" => ShowsAll(Needed, snap.chat, sock[visit].out)
Covered == Awaited /\ Complete

Inv == Types /\ Effective /\ Told /\ NothingTwice /\ Covered
----------------------------------------------------------------------------
(* What the last ChatCap of a sequence are.                                *)
LEMMA RecentIs ==
    ASSUME NEW S, NEW s \in Seq(S)
    PROVE  /\ Recent(s) \in Seq(S) /\ Len(Recent(s)) <= ChatCap
           /\ ToSet(Recent(s)) \subseteq ToSet(s)
           /\ Distinct(s) => Distinct(Recent(s))
           /\ Len(s) <= ChatCap => Recent(s) = s
           /\ Len(s) > ChatCap => Len(Recent(s)) = ChatCap
  <1>1. ChatCap \in Nat
    BY PartyClientAssumption
  <1>2. CASE Len(s) <= ChatCap
    BY <1>1, <1>2 DEF Recent
  <1>3. CASE Len(s) > ChatCap
    <2> DEFINE d == Len(s) - ChatCap
    <2>1. Recent(s) = SubSeq(s, d + 1, Len(s))
      BY <1>1, <1>3 DEF Recent
    <2>2. d \in Nat /\ Len(s) \in Nat /\ Len(s) = d + ChatCap
      BY <1>1, <1>3
    <2> HIDE DEF d
    <2>3. /\ Recent(s) \in Seq(S) /\ Len(Recent(s)) = ChatCap
          /\ \A k \in 1 .. ChatCap : Recent(s)[k] = s[d + k] /\ d + k \in 1 .. Len(s)
      BY <1>1, <2>1, <2>2
    <2>4. ToSet(Recent(s)) \subseteq ToSet(s)
      BY <2>3 DEF ToSet
    <2>5. Distinct(s) => Distinct(Recent(s))
      BY <1>1, <2>2, <2>3 DEF Distinct
    <2>6. QED
      BY <1>3, <2>3, <2>4, <2>5
  <1>4. QED
    BY <1>1, <1>2, <1>3

LEMMA AppendIs ==
    ASSUME NEW S, NEW s \in Seq(S), NEW x \in S
    PROVE  /\ Append(s, x) \in Seq(S) /\ ToSet(Append(s, x)) = ToSet(s) \cup {x}
           /\ Distinct(s) /\ x \notin ToSet(s) => Distinct(Append(s, x))
  <1>1. /\ Len(Append(s, x)) = Len(s) + 1 /\ Append(s, x)[Len(s) + 1] = x
        /\ \A k \in 1 .. Len(s) : Append(s, x)[k] = s[k]
    OBVIOUS
  <1>2. 1 .. Len(s) + 1 = (1 .. Len(s)) \cup {Len(s) + 1} /\ Len(s) \in Nat
    OBVIOUS
  <1>3. ToSet(Append(s, x)) = ToSet(s) \cup {x}
    BY <1>1, <1>2 DEF ToSet
  <1>4. Distinct(s) /\ x \notin ToSet(s) => Distinct(Append(s, x))
    BY <1>1, <1>2 DEF Distinct, ToSet
  <1>5. QED
    BY <1>3, <1>4

(* A message joins the chat unless it is there.                            *)
LEMMA ChatIs ==
    ASSUME NEW S, NEW s \in Seq(S), NEW x \in S, Len(s) <= ChatCap
    PROVE  /\ AppendChat(s, x) \in Seq(S) /\ Len(AppendChat(s, x)) <= ChatCap
           /\ Distinct(s) => Distinct(AppendChat(s, x))
           /\ \/ Len(AppendChat(s, x)) = ChatCap
              \/ ToSet(AppendChat(s, x)) = ToSet(s) \cup {x}
           /\ Len(s) = ChatCap => Len(AppendChat(s, x)) = ChatCap
  <1>1. ChatCap \in Nat /\ Len(s) \in Nat
    BY PartyClientAssumption
  <1>2. Contains(s, x) <=> x \in ToSet(s)
    BY DEF Contains, ToSet
  <1>3. CASE Contains(s, x)
    BY <1>2, <1>3 DEF AppendChat
  <1>4. CASE ~Contains(s, x)
    <2>1. AppendChat(s, x) = Recent(Append(s, x))
      BY <1>4 DEF AppendChat
    <2>2. Append(s, x) \in Seq(S) /\ Len(Append(s, x)) = Len(s) + 1
      OBVIOUS
    <2>3. Distinct(s) => Distinct(Recent(Append(s, x)))
      BY <1>2, <1>4, <2>2, AppendIs, RecentIs
    <2>4. PICK t \in Seq(S) : t = Append(s, x)
      BY <2>2
    <2>5. /\ Recent(t) \in Seq(S) /\ Len(Recent(t)) <= ChatCap
          /\ Len(t) <= ChatCap => Recent(t) = t
          /\ Len(t) > ChatCap => Len(Recent(t)) = ChatCap
      BY RecentIs
    <2>6. ToSet(t) = ToSet(s) \cup {x} /\ Len(t) = Len(s) + 1
      BY <2>2, <2>4, AppendIs
    <2>7. Len(Recent(t)) = ChatCap \/ ToSet(Recent(t)) = ToSet(s) \cup {x}
      BY <1>1, <2>5, <2>6
    <2>8. Len(s) = ChatCap => Len(Recent(t)) = ChatCap
      BY <1>1, <2>5, <2>6
    <2>9. QED
      BY <2>1, <2>3, <2>4, <2>5, <2>7, <2>8
  <1>5. QED
    BY <1>3, <1>4

----------------------------------------------------------------------------
(* The types.                                                              *)
LEMMA FrameIs ==
    ASSUME NEW o, NEW i, NEW c \in Lines, NEW d \in Codes,
           \/ o = "chat" /\ i \in Ids
           \/ o \in {"state", "closed", "error"} /\ i = 0
    PROVE  /\ Frame(o, i, c, d) \in Frames /\ Frame(o, i, c, d).op = o
           /\ Frame(o, i, c, d).id = i /\ Frame(o, i, c, d).chat = c /\ Frame(o, i, c, d).code = d
  BY DEF Frame, Frames

LEMMA ErrorIs ==
    ASSUME NEW d \in Codes
    PROVE  /\ Error(d) \in Frames /\ Error(d).op = "error" /\ Error(d).code = d
           /\ Error(d).chat = <<>> /\ Error(d).id = 0
  <1>1. <<>> \in Lines
    BY DEF Lines
  <1>2. QED
    BY <1>1, FrameIs DEF Error

(* A socket that a frame is sent to, and its state from then on.           *)
Sent(x, f, st) == [x EXCEPT !.out = Append(x.out, f), !.state = st]

LEMMA SentIs ==
    ASSUME NEW x \in Sockets, NEW f \in Frames, NEW st \in SocketStates
    PROVE  /\ Sent(x, f, st) \in Sockets /\ Sent(x, f, st).out = Append(x.out, f)
           /\ Sent(x, f, st).state = st /\ Sent(x, f, st).backlog = x.backlog
  <1>1. x.out \in Seq(Frames)
    BY DEF Sockets
  <1>2. Append(x.out, f) \in Seq(Frames)
    BY <1>1
  <1>3. PICK o \in Seq(Frames) : o = Append(x.out, f)
    BY <1>2
  <1>4. Sent(x, f, st) = [x EXCEPT !.out = o, !.state = st]
    BY <1>3 DEF Sent
  <1>5. QED
    BY <1>3, <1>4 DEF Sockets

(* A frame is sent to one socket, and what else becomes of it is a state.  *)
LEMMA PushIs ==
    ASSUME sock \in [Visits -> Sockets], NEW v \in Visits, NEW f \in Frames,
           NEW s \in SocketStates, Push(v, f, s)
    PROVE  /\ sock' \in [Visits -> Sockets]
           /\ \A w \in Visits \ {v} : sock'[w] = sock[w]
           /\ sock'[v].out = Append(sock[v].out, f) /\ sock'[v].state = s
           /\ sock'[v].backlog = sock[v].backlog
  <1> DEFINE new == Sent(sock[v], f, s)
  <1>1. sock[v] \in Sockets
    OBVIOUS
  <1>2. sock' = [sock EXCEPT ![v] = new]
    BY DEF Push, Sent
  <1>3. /\ new \in Sockets /\ new.out = Append(sock[v].out, f) /\ new.state = s
        /\ new.backlog = sock[v].backlog
    BY <1>1, SentIs
  <1> HIDE DEF new
  <1>4. QED
    BY <1>2, <1>3

LEMMA FoldTyped ==
    ASSUME NEW r \in Snapshots, Len(r.chat) <= ChatCap, NEW f \in Frames
    PROVE  Fold(r, f) \in Snapshots /\ Len(Fold(r, f).chat) <= ChatCap
  <1>1. r.chat \in Lines /\ f.chat \in Lines /\ f.code \in Codes
    BY DEF Snapshots, Frames
  <1>2. Recent(f.chat) \in Lines /\ Len(Recent(f.chat)) <= ChatCap
    BY <1>1, RecentIs DEF Lines
  <1>3. CASE f.op = "state"
    <2>1. Fold(r, f) = [r EXCEPT !.party = "open", !.chat = Recent(f.chat),
                                 !.error = "none", !.notice = FALSE]
      BY <1>3 DEF Fold
    <2>2. QED
      BY <1>2, <2>1 DEF Snapshots, Codes
  <1>4. CASE f.op = "chat"
    <2>1. Fold(r, f) = [r EXCEPT !.chat = AppendChat(r.chat, f.id), !.notice = FALSE]
      BY <1>4 DEF Fold
    <2>2. f.id \in Ids
      BY <1>4 DEF Frames
    <2>3. AppendChat(r.chat, f.id) \in Lines /\ Len(AppendChat(r.chat, f.id)) <= ChatCap
      BY <1>1, <2>2, ChatIs DEF Lines
    <2>4. QED
      BY <2>1, <2>3 DEF Snapshots
  <1>5. CASE f.op = "closed"
    <2>1. Fold(r, f) \in {r, [r EXCEPT !.party = "closed"]}
      BY <1>5 DEF Fold
    <2>2. QED
      BY <2>1 DEF Snapshots
  <1>6. CASE f.op = "error"
    <2>1. Fold(r, f) \in {[r EXCEPT !.error = f.code], [r EXCEPT !.notice = TRUE]}
      BY <1>6 DEF Fold
    <2>2. QED
      BY <1>1, <2>1 DEF Snapshots
  <1>7. QED
    BY <1>3, <1>4, <1>5, <1>6 DEF Frames

(* What every subscribed socket hears.                                     *)
LEMMA ClosedHears ==
    ASSUME sock \in [Visits -> Sockets], NEW f \in Frames, Hears(f, AfterClosed)
    PROVE  /\ sock' \in [Visits -> Sockets]
           /\ \A v \in Visits :
                /\ sock'[v].backlog = sock[v].backlog
                /\ \/ ~Subscribed(v) /\ sock'[v] = sock[v]
                   \/ /\ Subscribed(v) /\ sock'[v].out = Append(sock[v].out, f)
                      /\ sock'[v].state \in {"left", "snapshot_left"}
  <1> DEFINE new(v) == Sent(sock[v], f, AfterClosed(sock[v].state))
  <1>1. sock' = [v \in Visits |-> IF Subscribed(v) THEN new(v) ELSE sock[v]]
    BY DEF Hears, Sent
  <1>2. ASSUME NEW v \in Visits
        PROVE  /\ new(v) \in Sockets /\ new(v).out = Append(sock[v].out, f)
               /\ new(v).state \in {"left", "snapshot_left"} /\ new(v).backlog = sock[v].backlog
    <2>1. sock[v] \in Sockets
      OBVIOUS
    <2>2. AfterClosed(sock[v].state) \in {"left", "snapshot_left"}
      BY DEF AfterClosed
    <2>3. AfterClosed(sock[v].state) \in SocketStates
      BY <2>2 DEF SocketStates
    <2>4. QED
      BY <2>1, <2>2, <2>3, SentIs
  <1> HIDE DEF new
  <1>3. QED
    BY <1>1, <1>2

LEMMA ChatHears ==
    ASSUME sock \in [Visits -> Sockets], NEW f \in Frames, Hears(f, LAMBDA s : s)
    PROVE  /\ sock' \in [Visits -> Sockets]
           /\ \A v \in Visits :
                /\ sock'[v].backlog = sock[v].backlog /\ sock'[v].state = sock[v].state
                /\ \/ ~Subscribed(v) /\ sock'[v] = sock[v]
                   \/ Subscribed(v) /\ sock'[v].out = Append(sock[v].out, f)
  <1> DEFINE new(v) == Sent(sock[v], f, sock[v].state)
  <1>1. sock' = [v \in Visits |-> IF Subscribed(v) THEN new(v) ELSE sock[v]]
    BY DEF Hears, Sent
  <1>2. ASSUME NEW v \in Visits
        PROVE  /\ new(v) \in Sockets /\ new(v).out = Append(sock[v].out, f)
               /\ new(v).state = sock[v].state /\ new(v).backlog = sock[v].backlog
    <2>1. sock[v] \in Sockets
      OBVIOUS
    <2>2. sock[v].state \in SocketStates
      BY <2>1 DEF Sockets
    <2>3. QED
      BY <2>1, <2>2, SentIs
  <1> HIDE DEF new
  <1>3. QED
    BY <1>1, <1>2

(* What an effect may become.                                              *)
LEMMA EffectTyped ==
    ASSUME NEW e \in Effects, NEW a \in {"none", "waiting", "refreshing", "opening", "open", "over"},
           NEW b \in BOOLEAN
    PROVE  /\ [e EXCEPT !.at = a] \in Effects
           /\ [e EXCEPT !.at = a, !.needsRefresh = b] \in Effects
           /\ [e EXCEPT !.at = a, !.beating = b] \in Effects
  BY DEF Effects

LEMMA ConnectionTyped ==
    ASSUME NEW r \in Snapshots, Len(r.chat) <= ChatCap,
           NEW c \in {"connecting", "reconnecting", "live", "closed"}
    PROVE  /\ [r EXCEPT !.connection = c] \in Snapshots
           /\ Len([r EXCEPT !.connection = c].chat) <= ChatCap
           /\ [r EXCEPT !.connection = c].chat = r.chat
           /\ EmptyRoom \in Snapshots /\ Len(EmptyRoom.chat) <= ChatCap
  <1>1. ChatCap \in Nat /\ <<>> \in Lines
    BY PartyClientAssumption DEF Lines
  <1>2. EmptyRoom \in Snapshots /\ EmptyRoom.chat = <<>>
    BY <1>1 DEF EmptyRoom, Snapshots, Codes
  <1>3. QED
    BY <1>1, <1>2 DEF Snapshots

LEMMA FaultyTyped ==
    ASSUME Types, Faulty \/ UNCHANGED drops
    PROVE  drops' \in 0 .. MaxDrops
  BY PartyClientAssumption DEF Types, Faulty

LEMMA NoSocketTyped ==
    NoSocket \in Sockets /\ [NoSocket EXCEPT !.state = "dialing"] \in Sockets
  <1>1. <<>> \in Lines /\ <<>> \in Seq(Frames)
    BY DEF Lines
  <1>2. QED
    BY <1>1 DEF NoSocket, Sockets, SocketStates

(* The parts of the state that most steps leave alone.                     *)
ApiTyped ==
    /\ row \in {"open", "ending", "ended"} /\ lines \in 0 .. MaxLines
    /\ backlog \in Lines /\ Len(backlog) <= ChatCap
    /\ saying \in [Speakers -> Sayings]
PageTyped ==
    /\ eff \in [Visits -> Effects] /\ sock \in [Visits -> Sockets]
    /\ snap \in Snapshots /\ Len(snap.chat) <= ChatCap

LEMMA ProceedTyped ==
    ASSUME Types, NEW v \in Visits, NEW tok, ProceedTo(v, tok)
    PROVE  PageTyped'
  <1>1. eff[v] \in Effects /\ snap \in Snapshots /\ Len(snap.chat) <= ChatCap
    BY DEF Types
  <1>2. CASE tok = "none"
    <2>1. eff' = [eff EXCEPT ![v] = [eff[v] EXCEPT !.at = "waiting", !.needsRefresh = TRUE]]
      BY <1>2 DEF ProceedTo
    <2>2. eff' \in [Visits -> Effects]
      BY <1>1, <2>1, EffectTyped DEF Types
    <2>3. snap' \in Snapshots /\ Len(snap'.chat) <= ChatCap
      BY <1>1, <1>2, ConnectionTyped DEF ProceedTo, Connection
    <2>4. QED
      BY <1>2, <2>2, <2>3 DEF ProceedTo, PageTyped, Types
  <1>3. CASE tok # "none"
    <2>1. eff' = [eff EXCEPT ![v] = [eff[v] EXCEPT !.at = "opening", !.needsRefresh = FALSE]]
      BY <1>3 DEF ProceedTo
    <2>2. eff' \in [Visits -> Effects]
      BY <1>1, <2>1, EffectTyped DEF Types
    <2>3. sock' \in [Visits -> Sockets]
      BY <1>3, NoSocketTyped DEF ProceedTo, Types
    <2>4. QED
      BY <1>3, <2>2, <2>3 DEF ProceedTo, PageTyped, Types
  <1>4. QED
    BY <1>2, <1>3

LEMMA ClosedTyped ==
    ASSUME Types, NEW v \in Visits, Closed(v)
    PROVE  PageTyped'
  <1>1. eff[v] \in Effects /\ snap \in Snapshots /\ Len(snap.chat) <= ChatCap
    BY DEF Types
  <1>2. sock' \in [Visits -> Sockets]
    BY NoSocketTyped DEF Closed, Types
  <1>3. eff' \in [Visits -> Effects]
    <2>1. PICK a \in {"over", "waiting"} :
             eff' = [eff EXCEPT ![v] = [eff[v] EXCEPT !.at = a, !.beating = FALSE]]
      BY DEF Closed
    <2>2. QED
      BY <1>1, <2>1, EffectTyped DEF Types
  <1>4. snap' = snap \/ snap' = [snap EXCEPT !.connection = "reconnecting"]
    BY DEF Closed, Connection
  <1>5. snap' \in Snapshots /\ Len(snap'.chat) <= ChatCap
    BY <1>1, <1>4, ConnectionTyped
  <1>6. QED
    BY <1>2, <1>3, <1>5 DEF PageTyped

LEMMA TypesOf ==
    ASSUME ApiTyped', PageTyped', Types, UNCHANGED <<token, visit, shown, missed>>,
           Faulty \/ UNCHANGED drops
    PROVE  Types'
  BY FaultyTyped DEF ApiTyped, PageTyped, Types

(* The page's own steps.                                                   *)
LEMMA VisitTyped ==
    ASSUME Types, Effective, Visit
    PROVE  Types'
  <1>1. visit + 1 \in Visits /\ visit' \in 0 .. MaxVisits
    BY PartyClientAssumption DEF Visit, Types, Visits
  <1>2. eff[visit + 1] \in Effects
    BY <1>1 DEF Types
  <1>3. eff' \in [Visits -> Effects]
    <2>1. \/ eff' = [eff EXCEPT ![visit + 1] = [eff[visit + 1] EXCEPT !.at = "waiting", !.needsRefresh = TRUE]]
          \/ eff' = [eff EXCEPT ![visit + 1] = [eff[visit + 1] EXCEPT !.at = "opening"]]
      BY DEF Visit
    <2>2. QED
      BY <1>2, <2>1, EffectTyped DEF Types
  <1>4. sock' \in [Visits -> Sockets]
    BY NoSocketTyped DEF Visit, Types
  <1>5. snap' \in Snapshots /\ Len(snap'.chat) <= ChatCap
    <2>1. EmptyRoom \in Snapshots /\ Len(EmptyRoom.chat) <= ChatCap
      BY ConnectionTyped DEF Types
    <2>2. QED
      BY <2>1, ConnectionTyped DEF Visit
  <1>6. QED
    BY <1>1, <1>3, <1>4, <1>5 DEF Visit, Types, api

LEMMA ReceiveTyped ==
    ASSUME Types, NEW v \in Visits, Receive(v)
    PROVE  PageTyped'
  <1> DEFINE f == Head(sock[v].out)
             fatal == f.op = "error" /\ f.code \in Fatal
  <1>1. sock[v] \in Sockets /\ eff[v] \in Effects /\ snap \in Snapshots /\ Len(snap.chat) <= ChatCap
    BY DEF Types
  <1>2. sock[v].out \in Seq(Frames) /\ sock[v].out # <<>>
    BY <1>1 DEF Receive, Sockets
  <1>3. f \in Frames /\ Tail(sock[v].out) \in Seq(Frames)
    BY <1>2
  <1>4. Fold(snap, f) \in Snapshots /\ Len(Fold(snap, f).chat) <= ChatCap
    BY <1>1, <1>3, FoldTyped
  <1>5. snap' \in Snapshots /\ Len(snap'.chat) <= ChatCap
    <2>1. Fold(snap, f).connection \in {"connecting", "reconnecting", "live", "closed"}
      BY <1>4 DEF Snapshots
    <2>2. PICK c \in {"connecting", "reconnecting", "live", "closed"} :
             snap' = [Fold(snap, f) EXCEPT !.connection = c]
      BY <2>1 DEF Receive
    <2> HIDE DEF f
    <2>3. QED
      BY <1>4, <2>2, ConnectionTyped
  <1>6. eff' \in [Visits -> Effects]
    <2>1. PICK b \in BOOLEAN, n \in BOOLEAN, a \in {"over", "open"}, t \in BOOLEAN :
             eff' = [eff EXCEPT ![v] = [eff[v] EXCEPT !.closedByUs = b, !.needsRefresh = n,
                                                      !.at = a, !.beating = t]]
      <3> DEFINE b == eff[v].closedByUs \/ f.op = "closed" \/ fatal
                 n == eff[v].needsRefresh \/ f.code = "unauthorized"
                 a == IF fatal THEN "over" ELSE "open"
                 t == eff[v].beating /\ ~fatal
      <3>1. eff' = [eff EXCEPT ![v] = [eff[v] EXCEPT !.closedByUs = b, !.needsRefresh = n,
                                                      !.at = a, !.beating = t]]
        BY DEF Receive
      <3>2. b \in BOOLEAN /\ n \in BOOLEAN /\ t \in BOOLEAN
        BY <1>1 DEF Effects
      <3>3. a \in {"over", "open"}
        OBVIOUS
      <3> HIDE DEF b, n, a, t
      <3>4. QED
        BY <3>1, <3>2, <3>3
    <2>2. QED
      BY <1>1, <2>1 DEF Types, Effects
  <1>7. sock' \in [Visits -> Sockets]
    <2>1. \/ sock' = [sock EXCEPT ![v] = NoSocket]
          \/ sock' = [sock EXCEPT ![v] = [sock[v] EXCEPT !.out = Tail(sock[v].out)]]
      BY DEF Receive
    <2>2. [sock[v] EXCEPT !.out = Tail(sock[v].out)] \in Sockets
      BY <1>1, <1>3 DEF Sockets
    <2>3. QED
      BY <2>1, <2>2, NoSocketTyped DEF Types
  <1>8. QED
    BY <1>5, <1>6, <1>7 DEF PageTyped

LEMMA LeaveTyped ==
    ASSUME Types, Effective, Leave
    PROVE  Types'
  <1>1. visit \in Visits
    BY PartyClientAssumption DEF Leave, Effective, Types, Visits
  <1>2. eff[visit] \in Effects
    BY <1>1 DEF Types
  <1>3. eff' \in [Visits -> Effects]
    <2>1. PICK a \in {"over", "refreshing"} :
             eff' = [eff EXCEPT ![visit] = [eff[visit] EXCEPT !.closedByUs = TRUE, !.beating = FALSE,
                                                      !.at = a, !.needsRefresh = FALSE]]
      BY DEF Leave
    <2>2. QED
      BY <1>2, <2>1 DEF Types, Effects
  <1>4. sock' \in [Visits -> Sockets]
    BY NoSocketTyped DEF Leave, Types
  <1>5. snap' \in Snapshots /\ Len(snap'.chat) <= ChatCap
    BY ConnectionTyped DEF Types, Leave
  <1>6. QED
    BY <1>3, <1>4, <1>5 DEF Leave, Types, api

LEMMA PageStepTyped ==
    ASSUME Types, NEW v \in Visits,
           \/ Retry(v) \/ Refreshed(v) \/ Opened(v) \/ ConnectionClosed(v) \/ ConnectionLost(v)
           \/ Receive(v)
    PROVE  Types'
  <1>0. eff[v] \in Effects /\ sock[v] \in Sockets
    BY DEF Types
  <1>1. CASE Retry(v)
    <2>1. PageTyped'
      <3>1. CASE eff[v].needsRefresh
        <4>1. eff' = [eff EXCEPT ![v] = [eff[v] EXCEPT !.at = "refreshing", !.needsRefresh = FALSE]]
          BY <1>1, <3>1 DEF Retry
        <4>2. eff' \in [Visits -> Effects]
          BY <1>0, <4>1, EffectTyped DEF Types
        <4>3. QED
          BY <1>1, <3>1, <4>2 DEF Retry, PageTyped, Types
      <3>2. CASE ~eff[v].needsRefresh
        BY <1>1, <3>2, ProceedTyped DEF Retry
      <3>3. QED
        BY <3>1, <3>2
    <2>2. QED
      BY <1>1, <2>1, TypesOf DEF Retry, ApiTyped, Types, api
  <1>2. CASE Refreshed(v)
    <2>1. PageTyped'
      <3>1. CASE eff[v].closedByUs
        <4>1. eff' = [eff EXCEPT ![v] = [eff[v] EXCEPT !.at = "over"]] /\ UNCHANGED <<sock, snap>>
          BY <1>2, <3>1 DEF Refreshed
        <4>2. eff' \in [Visits -> Effects]
          BY <1>0, <4>1, EffectTyped DEF Types
        <4>3. QED
          BY <4>1, <4>2 DEF PageTyped, Types
      <3>2. CASE ~eff[v].closedByUs
        BY <1>2, <3>2, ProceedTyped DEF Refreshed
      <3>3. QED
        BY <3>1, <3>2
    <2>2. token' \in {"none", "good", "expired"} /\ (Faulty \/ UNCHANGED drops)
      BY <1>2 DEF Refreshed
    <2>3. drops' \in 0 .. MaxDrops
      BY <2>2, FaultyTyped
    <2>4. UNCHANGED <<row, lines, backlog, saying, visit, shown, missed>>
      BY <1>2 DEF Refreshed, api
    <2>5. QED
      BY <2>1, <2>2, <2>3, <2>4 DEF Types, PageTyped
  <1>3. CASE Opened(v)
    <2>1. eff' = [eff EXCEPT ![v] = [eff[v] EXCEPT !.at = "open", !.beating = TRUE]]
      BY <1>3 DEF Opened
    <2>2. eff' \in [Visits -> Effects]
      BY <1>0, <2>1, EffectTyped DEF Types
    <2>3. [sock[v] EXCEPT !.state = "auth", !.token = token] \in Sockets
      BY <1>0 DEF Types, Sockets, SocketStates
    <2>4. sock' \in [Visits -> Sockets]
      BY <1>3, <2>3 DEF Opened, Types
    <2>5. UNCHANGED <<row, lines, backlog, saying, token, visit, shown, snap, drops>> /\ missed' = {}
      BY <1>3 DEF Opened, api
    <2>6. QED
      BY <2>2, <2>4, <2>5 DEF Types
  <1>4. CASE ConnectionClosed(v) \/ ConnectionLost(v)
    <2>1. Closed(v) /\ UNCHANGED <<api, token, visit, shown, missed>> /\ (Faulty \/ UNCHANGED drops)
      BY <1>4 DEF ConnectionClosed, ConnectionLost
    <2>2. PageTyped'
      BY <2>1, ClosedTyped
    <2>3. QED
      BY <2>1, <2>2, TypesOf DEF ApiTyped, Types, api
  <1>5. CASE Receive(v)
    BY <1>5, ReceiveTyped, TypesOf DEF Receive, ApiTyped, Types, api
  <1>6. QED
    BY <1>1, <1>2, <1>3, <1>4, <1>5

(* The session's steps: what a frame pushed to a socket is.                *)
LEMMA SessionIs ==
    ASSUME sock \in [Visits -> Sockets], row \in {"open", "ending", "ended"},
           backlog \in Lines, NEW v \in Visits,
           \/ Authenticate(v) \/ JoinGate(v) \/ JoinBreaks(v) \/ ReadBacklog(v) \/ SendState(v)
    PROVE  /\ sock' \in [Visits -> Sockets]
           /\ \A w \in Visits \ {v} : sock'[w] = sock[w]
           /\ \/ /\ sock[v].state \in {"auth", "join"}
                 /\ sock'[v].state \in {"join", "subscribed"}
                 /\ sock'[v].out = sock[v].out /\ sock'[v].backlog = sock[v].backlog
              \/ /\ sock[v].state = "subscribed" /\ sock'[v].state = "snapshot"
                 /\ sock'[v].out = sock[v].out /\ sock'[v].backlog = backlog
              \/ /\ sock'[v].state \in {"shut", "refused"} /\ sock'[v].backlog = sock[v].backlog
                 /\ \E d \in {"unauthorized", "conflict", "internal_error"} :
                       /\ d = "conflict" => row # "open"
                       /\ sock'[v].out = Append(sock[v].out, Error(d))
              \/ /\ \/ sock[v].state = "snapshot" /\ sock'[v].state = "room"
                    \/ sock'[v].state = "left"
                 /\ sock'[v].backlog = <<>>
                 /\ sock'[v].out = Append(sock[v].out, Frame("state", 0, sock[v].backlog, "none"))
  <1>0. sock[v] \in Sockets
    OBVIOUS
  <1>1. \A d \in {"unauthorized", "conflict", "internal_error"} : Error(d) \in Frames
    BY ErrorIs DEF Codes, Fatal
  <1>2. {"shut", "refused"} \subseteq SocketStates
    BY DEF SocketStates
  <1>4. CASE Authenticate(v)
    <2>1. CASE sock[v].token = "good"
      <3>1. sock' = [sock EXCEPT ![v] = [sock[v] EXCEPT !.state = "join", !.token = "none"]]
        BY <1>4, <2>1 DEF Authenticate
      <3>2. [sock[v] EXCEPT !.state = "join", !.token = "none"] \in Sockets
        BY <1>0 DEF Sockets, SocketStates
      <3>3. sock[v].state = "auth"
        BY <1>4 DEF Authenticate
      <3>4. /\ [sock[v] EXCEPT !.state = "join", !.token = "none"].state = "join"
            /\ [sock[v] EXCEPT !.state = "join", !.token = "none"].out = sock[v].out
            /\ [sock[v] EXCEPT !.state = "join", !.token = "none"].backlog = sock[v].backlog
        BY <1>0 DEF Sockets
      <3>5. QED
        BY <3>1, <3>2, <3>3, <3>4
    <2>2. CASE sock[v].token # "good"
      <3>1. Push(v, Error("unauthorized"), "shut")
        BY <1>4, <2>2 DEF Authenticate
      <3>2. QED
        BY <1>1, <1>2, <3>1, PushIs
    <2>3. QED
      BY <2>1, <2>2
  <1>5. CASE JoinGate(v)
    <2>1. CASE row = "open"
      <3>1. sock' = [sock EXCEPT ![v] = [sock[v] EXCEPT !.state = "subscribed"]]
        BY <1>5, <2>1 DEF JoinGate
      <3>2. [sock[v] EXCEPT !.state = "subscribed"] \in Sockets
        BY <1>0 DEF Sockets, SocketStates
      <3>3. sock[v].state = "join"
        BY <1>5 DEF JoinGate
      <3>4. /\ [sock[v] EXCEPT !.state = "subscribed"].state = "subscribed"
            /\ [sock[v] EXCEPT !.state = "subscribed"].out = sock[v].out
            /\ [sock[v] EXCEPT !.state = "subscribed"].backlog = sock[v].backlog
        BY <1>0 DEF Sockets
      <3>5. QED
        BY <3>1, <3>2, <3>3, <3>4
    <2>2. CASE row # "open"
      <3>1. Push(v, Error("conflict"), "refused")
        BY <1>5, <2>2 DEF JoinGate
      <3>2. QED
        BY <1>1, <1>2, <2>2, <3>1, PushIs
    <2>3. QED
      BY <2>1, <2>2
  <1>6. CASE JoinBreaks(v)
    <2>1. Push(v, Error("internal_error"), "refused")
      BY <1>6 DEF JoinBreaks
    <2>2. QED
      BY <1>1, <1>2, <2>1, PushIs
  <1>7. CASE ReadBacklog(v)
    <2> DEFINE new == [sock[v] EXCEPT !.state = "snapshot", !.backlog = backlog]
    <2>1. sock' = [sock EXCEPT ![v] = new] /\ sock[v].state = "subscribed"
      BY <1>7 DEF ReadBacklog
    <2>2. new \in Sockets /\ new.state = "snapshot" /\ new.out = sock[v].out /\ new.backlog = backlog
      BY <1>0 DEF Sockets, SocketStates
    <2> HIDE DEF new
    <2>3. QED
      BY <2>1, <2>2
  <1>8. CASE SendState(v)
    <2> DEFINE f == Frame("state", 0, sock[v].backlog, "none")
    <2>1. sock[v].backlog \in Lines /\ sock[v].out \in Seq(Frames) /\ "none" \in Codes
      BY <1>0 DEF Sockets, Codes
    <2>2. f \in Frames
      BY <2>1, FrameIs
    <2> HIDE DEF f
    <2>3. PICK o \in Seq(Frames) : o = Append(sock[v].out, f)
      <3>1. Append(sock[v].out, f) \in Seq(Frames)
        BY <2>1, <2>2
      <3>2. QED
        BY <3>1
    <2>4. PICK st \in {"room", "left"} :
             /\ sock' = [sock EXCEPT ![v] = [sock[v] EXCEPT !.out = o, !.state = st, !.backlog = <<>>]]
             /\ st = "room" => sock[v].state = "snapshot"
      BY <1>8, <2>3 DEF SendState, f
    <2> DEFINE new == [sock[v] EXCEPT !.out = o, !.state = st, !.backlog = <<>>]
    <2>5. <<>> \in Lines
      BY DEF Lines
    <2>6. new \in Sockets /\ new.state = st /\ new.out = o /\ new.backlog = <<>>
      BY <1>0, <2>5 DEF Sockets, SocketStates
    <2> HIDE DEF new
    <2>7. sock' = [sock EXCEPT ![v] = new]
      BY <2>4 DEF new
    <2>8. sock' \in [Visits -> Sockets] /\ sock'[v] = new /\ \A w \in Visits \ {v} : sock'[w] = sock[w]
      BY <2>6, <2>7
    <2>9. QED
      BY <2>3, <2>4, <2>6, <2>8 DEF f
  <1>9. QED
    BY <1>4, <1>5, <1>6, <1>7, <1>8

(* A rejected message: an error joins what is on its way.                  *)
LEMMA BounceIs ==
    ASSUME Types, Effective, Bounce
    PROVE  /\ sock' \in [Visits -> Sockets] /\ visit \in Visits
           /\ \A w \in Visits \ {visit} : sock'[w] = sock[w]
           /\ sock'[visit].state = sock[visit].state /\ sock'[visit].state \in {"room", "left"}
           /\ sock'[visit].backlog = sock[visit].backlog
           /\ \E d \in {"rate_limited", "bad_request"} :
                 sock'[visit].out = Append(sock[visit].out, Error(d))
  <1>1. visit \in Visits
    BY PartyClientAssumption DEF Bounce, Effective, Types, Visits
  <1>2. PICK d \in {"rate_limited", "bad_request"} : Push(visit, Error(d), sock[visit].state)
    BY DEF Bounce
  <1>3. Error(d) \in Frames
    BY ErrorIs DEF Codes
  <1>4. sock[visit].state \in {"room", "left"} /\ sock[visit].state \in SocketStates
    BY DEF Bounce, SocketStates
  <1>5. sock \in [Visits -> Sockets]
    BY DEF Types
  <1>6. QED
    BY <1>1, <1>2, <1>3, <1>4, <1>5, PushIs

(* The backlog takes a message.                                            *)
LEMMA AppendBacklogIs ==
    ASSUME Types, NothingTwice, NEW u \in Speakers, AppendBacklog(u)
    PROVE  /\ saying[u].at = "append" /\ saying[u].id \in Ids /\ saying[u].id \in 1 .. lines
           /\ saying' = [saying EXCEPT ![u] = [at |-> "publish", id |-> saying[u].id]]
           /\ backlog' \in Lines /\ Len(backlog') <= ChatCap
           /\ ToSet(backlog') \subseteq ToSet(backlog) \cup {saying[u].id}
           /\ Distinct(backlog')
  <1>1. saying[u].at = "append" /\ saying[u].id \in 1 .. lines /\ saying[u] \in Sayings
    BY DEF AppendBacklog, NothingTwice, Types
  <1>2. saying[u].id \in Ids
    BY <1>1, PartyClientAssumption DEF Types, Ids
  <1>3. [saying[u] EXCEPT !.at = "publish"] = [at |-> "publish", id |-> saying[u].id]
    BY <1>1 DEF Sayings
  <1>4. backlog' = Recent(Append(backlog, saying[u].id)) /\ saying' = [saying EXCEPT ![u].at = "publish"]
    BY DEF AppendBacklog
  <1>a. Append(backlog, saying[u].id) \in Lines
    BY <1>2 DEF Types, Lines
  <1>5. PICK t \in Lines : t = Append(backlog, saying[u].id)
    BY <1>a
  <1>6. ToSet(t) = ToSet(backlog) \cup {saying[u].id} /\ Distinct(t)
    BY <1>1, <1>2, <1>5, AppendIs DEF Types, Lines, NothingTwice
  <1>7. /\ Recent(t) \in Lines /\ Len(Recent(t)) <= ChatCap
        /\ ToSet(Recent(t)) \subseteq ToSet(t) /\ Distinct(Recent(t))
    BY <1>6, RecentIs DEF Lines
  <1>8. saying' = [saying EXCEPT ![u] = [at |-> "publish", id |-> saying[u].id]]
    BY <1>3, <1>4
  <1>9. QED
    BY <1>1, <1>2, <1>4, <1>5, <1>6, <1>7, <1>8

(* A message is broadcast, or lost on the way.                             *)
LEMMA PublishIs ==
    ASSUME Types, NothingTwice, NEW u \in Speakers, Publish(u)
    PROVE  /\ saying[u].at = "publish" /\ saying[u].id \in Ids
           /\ saying' = [saying EXCEPT ![u] = Idle]
           /\ sock' \in [Visits -> Sockets]
           /\ \A v \in Visits : sock'[v].backlog = sock[v].backlog /\ sock'[v].state = sock[v].state
           /\ \/ sock' = sock /\ missed' = missed \cup {saying[u].id}
              \/ /\ missed' = IF visit > 0 /\ sock[visit].state = "snapshot"
                              THEN missed \cup {saying[u].id} ELSE missed
                 /\ \A v \in Visits :
                       \/ ~Subscribed(v) /\ sock'[v] = sock[v]
                       \/ /\ Subscribed(v)
                          /\ sock'[v].out = Append(sock[v].out, Frame("chat", saying[u].id, <<>>, "none"))
  <1>1. saying[u].at = "publish" /\ saying[u].id \in 1 .. lines /\ saying' = [saying EXCEPT ![u] = Idle]
    BY DEF Publish, NothingTwice
  <1>2. saying[u].id \in Ids
    BY <1>1, PartyClientAssumption DEF Types, Ids
  <1> DEFINE f == Frame("chat", saying[u].id, <<>>, "none")
  <1>a. <<>> \in Lines /\ "none" \in Codes
    BY DEF Lines, Codes
  <1>3. f \in Frames
    BY <1>2, <1>a, FrameIs
  <1>4. sock \in [Visits -> Sockets]
    BY DEF Types
  <1>5. CASE sock' = sock /\ missed' = missed \cup {saying[u].id}
    BY <1>1, <1>2, <1>4, <1>5
  <1>6. CASE /\ Hears(f, LAMBDA s : s)
             /\ missed' = IF visit > 0 /\ sock[visit].state = "snapshot"
                          THEN missed \cup {saying[u].id} ELSE missed
    <2> HIDE DEF f
    <2>1. /\ sock' \in [Visits -> Sockets]
          /\ \A v \in Visits :
                /\ sock'[v].backlog = sock[v].backlog /\ sock'[v].state = sock[v].state
                /\ \/ ~Subscribed(v) /\ sock'[v] = sock[v]
                   \/ Subscribed(v) /\ sock'[v].out = Append(sock[v].out, f)
      BY <1>3, <1>4, <1>6, ChatHears
    <2>2. QED
      BY <1>1, <1>2, <1>6, <2>1 DEF f
  <1>7. QED
    BY <1>5, <1>6 DEF Publish

(* Everybody is told of the end.                                           *)
LEMMA BroadcastIs ==
    ASSUME Types, Broadcast
    PROVE  /\ sock' \in [Visits -> Sockets]
           /\ \A v \in Visits :
                /\ sock'[v].backlog = sock[v].backlog
                /\ \/ ~Subscribed(v) /\ sock'[v] = sock[v]
                   \/ /\ Subscribed(v)
                      /\ sock'[v].out = Append(sock[v].out, Frame("closed", 0, <<>>, "none"))
                      /\ sock'[v].state \in {"left", "snapshot_left"}
  <1> DEFINE f == Frame("closed", 0, <<>>, "none")
  <1>a. <<>> \in Lines /\ "none" \in Codes
    BY DEF Lines, Codes
  <1>1. f \in Frames
    BY <1>a, FrameIs
  <1>2. sock \in [Visits -> Sockets] /\ Hears(f, AfterClosed)
    BY DEF Types, Broadcast
  <1> HIDE DEF f
  <1>3. QED
    BY <1>1, <1>2, ClosedHears DEF f

LEMMA RoomTyped ==
    ASSUME Types, Effective, NothingTwice,
           \/ Bounce \/ End \/ Broadcast \/ TokenExpires
           \/ \E u \in Speakers : Say(u) \/ AppendBacklog(u) \/ Publish(u)
    PROVE  Types'
  <1>1. CASE Bounce
    <2>1. sock' \in [Visits -> Sockets]
      BY <1>1, BounceIs
    <2>2. UNCHANGED <<row, lines, backlog, saying, token, visit, shown, eff, snap, missed>>
          /\ Faulty
      BY <1>1 DEF Bounce, api
    <2>3. QED
      BY <2>1, <2>2, FaultyTyped DEF Types
  <1>2. CASE End
    BY <1>2 DEF End, Types
  <1>3. CASE Broadcast
    <2>1. sock' \in [Visits -> Sockets]
      BY <1>3, BroadcastIs
    <2>2. backlog' \in Lines /\ Len(backlog') <= ChatCap
      BY <1>3, PartyClientAssumption DEF Broadcast, Lines
    <2>3. row' = "ended" /\ UNCHANGED <<lines, saying, token, visit, shown, eff, snap, missed, drops>>
      BY <1>3 DEF Broadcast
    <2>4. QED
      BY <2>1, <2>2, <2>3 DEF Types
  <1>4. CASE TokenExpires
    <2>1. UNCHANGED <<row, lines, backlog, saying, visit, shown, eff, sock, snap, missed>>
          /\ token' = "expired" /\ Faulty
      BY <1>4 DEF TokenExpires, api
    <2>2. QED
      BY <2>1, FaultyTyped DEF Types
  <1>5. ASSUME NEW u \in Speakers, Say(u) PROVE Types'
    <2>1. lines' = lines + 1 /\ lines + 1 \in 0 .. MaxLines
      BY <1>5, PartyClientAssumption DEF Say, Types
    <2>2. [at |-> "append", id |-> lines + 1] \in Sayings
      BY <2>1 DEF Sayings
    <2>3. saying' \in [Speakers -> Sayings]
      BY <1>5, <2>2 DEF Say, Types
    <2>4. UNCHANGED <<row, backlog, token, visit, shown, eff, sock, snap, missed, drops>>
      BY <1>5 DEF Say
    <2>5. QED
      BY <2>1, <2>3, <2>4 DEF Types
  <1>6. ASSUME NEW u \in Speakers, AppendBacklog(u) PROVE Types'
    <2>1. [at |-> "publish", id |-> saying[u].id] \in Sayings
      BY <1>6 DEF Types, Sayings
    <2>2. saying' \in [Speakers -> Sayings]
      BY <1>6, <2>1, AppendBacklogIs DEF Types
    <2>3. UNCHANGED <<row, lines, token, visit, shown, eff, sock, snap, missed, drops>>
      BY <1>6 DEF AppendBacklog
    <2>4. backlog' \in Lines /\ Len(backlog') <= ChatCap
      BY <1>6, AppendBacklogIs
    <2>5. QED
      BY <2>2, <2>3, <2>4 DEF Types
  <1>7. ASSUME NEW u \in Speakers, Publish(u) PROVE Types'
    <2>1. Idle \in Sayings
      BY PartyClientAssumption DEF Idle, Sayings
    <2>2. saying' \in [Speakers -> Sayings]
      BY <1>7, <2>1, PublishIs DEF Types
    <2>3. sock' \in [Visits -> Sockets] /\ missed' \subseteq Ids
      BY <1>7, PublishIs DEF Types
    <2>4. UNCHANGED <<row, lines, backlog, token, visit, shown, eff, snap>>
          /\ (Faulty \/ UNCHANGED drops)
      BY <1>7 DEF Publish
    <2>5. QED
      BY <2>2, <2>3, <2>4, FaultyTyped DEF Types
  <1>8. QED
    BY <1>1, <1>2, <1>3, <1>4, <1>5, <1>6, <1>7

LEMMA TypesStep ==
    ASSUME Types, Effective, NothingTwice, [Next]_vars
    PROVE  Types'
  <1>1. CASE UNCHANGED vars
    BY <1>1 DEF vars, Types
  <1>2. CASE Visit \/ Leave
    BY <1>2, VisitTyped, LeaveTyped
  <1>3. CASE \/ Bounce \/ End \/ Broadcast \/ TokenExpires
             \/ \E u \in Speakers : Say(u) \/ AppendBacklog(u) \/ Publish(u)
    BY <1>3, RoomTyped
  <1>4. ASSUME NEW v \in Visits,
               \/ Retry(v) \/ Refreshed(v) \/ Opened(v) \/ ConnectionClosed(v)
               \/ ConnectionLost(v) \/ Receive(v)
        PROVE  Types'
    BY <1>4, PageStepTyped
  <1>5. ASSUME NEW v \in Visits,
               \/ Authenticate(v) \/ JoinGate(v) \/ JoinBreaks(v) \/ ReadBacklog(v) \/ SendState(v)
        PROVE  Types'
    <2>1. sock' \in [Visits -> Sockets]
      BY <1>5, SessionIs DEF Types
    <2>2. UNCHANGED <<row, lines, backlog, saying, token, visit, shown, eff, snap, missed>>
          /\ (Faulty \/ UNCHANGED drops)
      BY <1>5 DEF Authenticate, JoinGate, JoinBreaks, ReadBacklog, SendState, api
    <2>3. QED
      BY <2>1, <2>2, FaultyTyped DEF Types
  <1>6. QED
    BY <1>1, <1>2, <1>3, <1>4, <1>5 DEF Next, Steps
----------------------------------------------------------------------------
(* What becomes of the effects.                                            *)

(* The steps of one effect, and what they need of it.                      *)
LEMMA EffectSteps ==
    ASSUME Types, NEW v \in Visits,
           \/ Retry(v) \/ Refreshed(v) \/ Opened(v) \/ ConnectionClosed(v) \/ ConnectionLost(v)
           \/ Receive(v)
    PROVE  /\ \A w \in Visits \ {v} : eff'[w] = eff[w] /\ sock'[w] = sock[w]
           /\ eff[v].at \in {"waiting", "refreshing", "opening", "open"}
           /\ eff[v].at = "refreshing" /\ eff[v].closedByUs =>
                 eff'[v] = [eff[v] EXCEPT !.at = "over"] /\ snap' = snap
           /\ eff[v].closedByUs => eff'[v].closedByUs
           /\ eff'[v].at # "none"
           /\ UNCHANGED <<visit, shown>>
  <1>1. eff \in [Visits -> Effects] /\ sock \in [Visits -> Sockets] /\ eff[v] \in Effects
    BY DEF Types
  <1>2. CASE Retry(v) \/ (Refreshed(v) /\ ~eff[v].closedByUs)
    <2>1. PICK e \in {[eff[v] EXCEPT !.at = "refreshing", !.needsRefresh = FALSE],
                      [eff[v] EXCEPT !.at = "waiting", !.needsRefresh = TRUE],
                      [eff[v] EXCEPT !.at = "opening", !.needsRefresh = FALSE]} :
             eff' = [eff EXCEPT ![v] = e]
      BY <1>2 DEF Retry, Refreshed, ProceedTo
    <2>2. e.at \in {"refreshing", "waiting", "opening"} /\ e.closedByUs = eff[v].closedByUs
      BY <1>1, <2>1 DEF Effects
    <2>3. \A w \in Visits \ {v} : sock'[w] = sock[w]
      BY <1>1, <1>2 DEF Retry, Refreshed, ProceedTo
    <2>4. /\ UNCHANGED <<visit, shown>>
          /\ eff[v].at = "waiting" \/ (eff[v].at = "refreshing" /\ ~eff[v].closedByUs)
      BY <1>2 DEF Retry, Refreshed
    <2>5. eff'[v] = e /\ \A w \in Visits \ {v} : eff'[w] = eff[w]
      BY <1>1, <2>1
    <2> HIDE <2>1
    <2>6. QED
      BY <2>2, <2>3, <2>4, <2>5
  <1>3. CASE Refreshed(v) /\ eff[v].closedByUs
    <2>1. /\ eff' = [eff EXCEPT ![v] = [eff[v] EXCEPT !.at = "over"]] /\ UNCHANGED <<sock, snap>>
          /\ UNCHANGED <<visit, shown>> /\ eff[v].at = "refreshing"
      BY <1>3 DEF Refreshed
    <2>2. [eff[v] EXCEPT !.at = "over"].closedByUs = eff[v].closedByUs
          /\ [eff[v] EXCEPT !.at = "over"].at = "over"
      BY <1>1 DEF Effects
    <2>3. QED
      BY <1>1, <2>1, <2>2
  <1>4. CASE Opened(v)
    <2>1. /\ eff' = [eff EXCEPT ![v] = [eff[v] EXCEPT !.at = "open", !.beating = TRUE]]
          /\ UNCHANGED <<visit, shown>> /\ eff[v].at = "opening"
      BY <1>4 DEF Opened
    <2>2. [eff[v] EXCEPT !.at = "open", !.beating = TRUE].closedByUs = eff[v].closedByUs
          /\ [eff[v] EXCEPT !.at = "open", !.beating = TRUE].at = "open"
      BY <1>1 DEF Effects
    <2>3. \A w \in Visits \ {v} : sock'[w] = sock[w]
      BY <1>1, <1>4 DEF Opened
    <2>4. QED
      BY <1>1, <2>1, <2>2, <2>3
  <1>5. CASE ConnectionClosed(v) \/ ConnectionLost(v)
    <2>1. Closed(v) /\ UNCHANGED <<visit, shown>> /\ eff[v].at \in {"opening", "open"}
      BY <1>5 DEF ConnectionClosed, ConnectionLost
    <2>2. PICK a \in {"over", "waiting"} :
             eff' = [eff EXCEPT ![v] = [eff[v] EXCEPT !.at = a, !.beating = FALSE]]
      BY <2>1 DEF Closed
    <2>3. [eff[v] EXCEPT !.at = a, !.beating = FALSE].closedByUs = eff[v].closedByUs
          /\ [eff[v] EXCEPT !.at = a, !.beating = FALSE].at = a
      BY <1>1 DEF Effects
    <2>4. \A w \in Visits \ {v} : sock'[w] = sock[w]
      BY <1>1, <2>1 DEF Closed
    <2>5. QED
      BY <1>1, <2>1, <2>2, <2>3, <2>4
  <1>6. CASE Receive(v)
    <2> DEFINE f == Head(sock[v].out)
               fatal == f.op = "error" /\ f.code \in Fatal
               e == [eff[v] EXCEPT !.closedByUs = eff[v].closedByUs \/ f.op = "closed" \/ fatal,
                                   !.needsRefresh = eff[v].needsRefresh \/ f.code = "unauthorized",
                                   !.at = IF fatal THEN "over" ELSE "open",
                                   !.beating = eff[v].beating /\ ~fatal]
    <2>1. /\ eff' = [eff EXCEPT ![v] = e]
          /\ UNCHANGED <<visit, shown>> /\ eff[v].at = "open"
      BY <1>6 DEF Receive
    <2>2. (eff[v].closedByUs => e.closedByUs) /\ e.at # "none"
      BY <1>1 DEF Effects
    <2>3. \A w \in Visits \ {v} : sock'[w] = sock[w]
      BY <1>1, <1>6 DEF Receive
    <2> HIDE DEF e
    <2>4. QED
      BY <1>1, <2>1, <2>2, <2>3
  <1>7. QED
    BY <1>2, <1>3, <1>4, <1>5, <1>6

(* Only an open socket is beaten for.                                      *)
LEMMA BeatingKept ==
    ASSUME Types, NEW v \in Visits, eff[v].beating <=> eff[v].at = "open",
           \/ Retry(v) \/ Refreshed(v) \/ Opened(v) \/ ConnectionClosed(v) \/ ConnectionLost(v)
           \/ Receive(v)
    PROVE  eff'[v].beating <=> eff'[v].at = "open"
  <1>1. eff \in [Visits -> Effects] /\ eff[v] \in Effects
    BY DEF Types
  <1>2. CASE Retry(v) \/ Refreshed(v)
    <2>1. PICK e \in {[eff[v] EXCEPT !.at = "refreshing", !.needsRefresh = FALSE],
                      [eff[v] EXCEPT !.at = "waiting", !.needsRefresh = TRUE],
                      [eff[v] EXCEPT !.at = "opening", !.needsRefresh = FALSE],
                      [eff[v] EXCEPT !.at = "over"]} :
             eff' = [eff EXCEPT ![v] = e]
      BY <1>2 DEF Retry, Refreshed, ProceedTo
    <2>2. e.at # "open" /\ e.beating = eff[v].beating
      BY <1>1, <2>1 DEF Effects
    <2>3. eff[v].at # "open"
      BY <1>2 DEF Retry, Refreshed
    <2>4. eff'[v] = e
      BY <1>1, <2>1
    <2>5. QED
      BY <2>2, <2>3, <2>4
  <1>3. CASE Opened(v)
    <2>1. eff' = [eff EXCEPT ![v] = [eff[v] EXCEPT !.at = "open", !.beating = TRUE]]
      BY <1>3 DEF Opened
    <2>2. QED
      BY <1>1, <2>1 DEF Effects
  <1>4. CASE ConnectionClosed(v) \/ ConnectionLost(v)
    <2>1. PICK a \in {"over", "waiting"} :
             eff' = [eff EXCEPT ![v] = [eff[v] EXCEPT !.at = a, !.beating = FALSE]]
      BY <1>4 DEF Closed, ConnectionClosed, ConnectionLost
    <2>2. QED
      BY <1>1, <2>1 DEF Effects
  <1>5. CASE Receive(v)
    <2> DEFINE f == Head(sock[v].out)
               fatal == f.op = "error" /\ f.code \in Fatal
               b == eff[v].closedByUs \/ f.op = "closed" \/ fatal
               n == eff[v].needsRefresh \/ f.code = "unauthorized"
    <2>1. /\ eff' = [eff EXCEPT ![v] = [eff[v] EXCEPT !.closedByUs = b, !.needsRefresh = n,
                        !.at = IF fatal THEN "over" ELSE "open", !.beating = eff[v].beating /\ ~fatal]]
          /\ eff[v].at = "open"
      BY <1>5 DEF Receive
    <2> HIDE DEF b, n
    <2>2. CASE fatal
      BY <1>1, <2>1, <2>2 DEF Effects
    <2>3. CASE ~fatal
      BY <1>1, <2>1, <2>3 DEF Effects
    <2>4. QED
      BY <2>2, <2>3
  <1>6. QED
    BY <1>2, <1>3, <1>4, <1>5

LEMMA EffectiveStep ==
    ASSUME Types, Effective, [Next]_vars
    PROVE  Effective'
  <1>0. visit \in 0 .. MaxVisits /\ MaxVisits \in Nat /\ Visits = 1 .. MaxVisits
        /\ eff \in [Visits -> Effects]
    BY PartyClientAssumption DEF Types, Visits
  <1>1. CASE Visit
    <2> DEFINE n == visit + 1
    <2>1. n \in Visits /\ visit' = n /\ shown' = TRUE /\ ~shown
      BY <1>0, <1>1 DEF Visit
    <2>2. PICK e \in {[NoEffect EXCEPT !.at = "waiting", !.needsRefresh = TRUE],
                      [NoEffect EXCEPT !.at = "opening"]} : eff' = [eff EXCEPT ![n] = e]
      <3>1. eff[n] = NoEffect
        BY <1>0, <2>1 DEF Effective
      <3>2. QED
        BY <1>1, <3>1 DEF Visit
    <2>3. e.at \in {"waiting", "opening"} /\ e.beating = FALSE
      BY <2>2 DEF NoEffect
    <2>4. \A v \in Visits : eff'[v] = IF v = n THEN e ELSE eff[v]
      BY <1>0, <2>2
    <2>5. \A v \in Visits : v < n => v < visit \/ (v = visit /\ ~shown)
      BY <1>0, <2>1
    <2>6. \A v \in Visits : v > n => v > visit
      BY <1>0, <2>1
    <2>7. n # 0 /\ ~(n > n) /\ ~(n < n)
      BY <1>0
    <2> HIDE DEF n
    <2>8. QED
      BY <2>1, <2>3, <2>4, <2>5, <2>6, <2>7 DEF Effective
  <1>2. CASE Leave
    <2>1. visit \in Visits /\ shown' = FALSE /\ visit' = visit /\ shown
      BY <1>0, <1>2 DEF Effective, Leave
    <2>2. PICK a \in {"refreshing", "over"} :
             eff' = [eff EXCEPT ![visit] = [eff[visit] EXCEPT !.closedByUs = TRUE, !.beating = FALSE,
                                                              !.at = a, !.needsRefresh = FALSE]]
      BY <1>2 DEF Leave
    <2>3. PICK e \in Effects : /\ eff' = [eff EXCEPT ![visit] = e]
                               /\ e.closedByUs /\ ~e.beating /\ e.at \in {"refreshing", "over"}
      <3>1. eff[visit] \in Effects
        BY <1>0, <2>1
      <3>2. [eff[visit] EXCEPT !.closedByUs = TRUE, !.beating = FALSE,
                               !.at = a, !.needsRefresh = FALSE] \in Effects
        BY <2>2, <3>1 DEF Effects
      <3>3. QED
        BY <2>2, <3>1, <3>2 DEF Effects
    <2>4. \A v \in Visits : eff'[v] = IF v = visit THEN e ELSE eff[v]
      BY <1>0, <2>3
    <2>5. \A v \in Visits : v > visit => v # visit
      BY <1>0
    <2>6. QED
      BY <2>1, <2>3, <2>4, <2>5 DEF Effective
  <1>3. ASSUME NEW v \in Visits,
               \/ Retry(v) \/ Refreshed(v) \/ Opened(v) \/ ConnectionClosed(v)
               \/ ConnectionLost(v) \/ Receive(v)
        PROVE  Effective'
    <2>1. /\ \A w \in Visits \ {v} : eff'[w] = eff[w]
          /\ eff[v].at \in {"waiting", "refreshing", "opening", "open"}
          /\ eff[v].at = "refreshing" /\ eff[v].closedByUs => eff'[v] = [eff[v] EXCEPT !.at = "over"]
          /\ eff'[v].at # "none" /\ visit' = visit /\ shown' = shown
      BY <1>3, EffectSteps
    <2>2. eff'[v].beating <=> eff'[v].at = "open"
      BY <1>3, BeatingKept DEF Effective
    <2>3. ~(v > visit)
      BY <2>1 DEF Effective, NoEffect
    <2>4. v < visit \/ (v = visit /\ ~shown) => eff'[v].closedByUs /\ eff'[v].at = "over"
      <3>1. [eff[v] EXCEPT !.at = "over"].closedByUs = eff[v].closedByUs
            /\ [eff[v] EXCEPT !.at = "over"].at = "over"
        BY <1>0 DEF Effects
      <3>2. QED
        BY <2>1, <3>1 DEF Effective
    <2>5. shown => eff'[visit].at # "none"
      BY <1>0, <2>1 DEF Effective
    <2>6. QED
      BY <2>1, <2>2, <2>3, <2>4, <2>5 DEF Effective
  <1>4. CASE UNCHANGED <<eff, visit, shown>>
    BY <1>4 DEF Effective
  <1>5. QED
    BY <1>1, <1>2, <1>3, <1>4 DEF Next, Steps, vars, Bounce, End, Broadcast, TokenExpires, Say,
       AppendBacklog, Publish, Authenticate, JoinGate, JoinBreaks, ReadBacklog, SendState

(* A page that was left runs nothing: its socket is not open.              *)
LEMMA OpenIsShown ==
    ASSUME Types, Effective, NEW v \in Visits, eff[v].at \in {"opening", "open", "waiting"}
    PROVE  v = visit /\ shown
  <1>1. ~(v > visit) /\ ~(v < visit) /\ ~(v = visit /\ ~shown)
    BY DEF Effective, NoEffect
  <1>2. v \in Nat /\ visit \in Nat
    BY PartyClientAssumption DEF Types, Visits
  <1>3. QED
    BY <1>1, <1>2 DEF Types
----------------------------------------------------------------------------
(* What becomes of the sockets: a step leaves one as it is, replaces it,   *)
(* moves it on without a frame, reads a frame or sends one.                *)
Replaced(v) == sock'[v].out = <<>> /\ sock'[v].backlog = <<>>
Moved(v) ==
    /\ sock'[v].out = sock[v].out /\ sock'[v].backlog \in {sock[v].backlog, backlog}
    /\ sock[v].state \in BeforeState
Read(v) ==
    /\ sock[v].out # <<>> /\ sock'[v].out = Tail(sock[v].out)
    /\ sock'[v].backlog = sock[v].backlog /\ sock'[v].state = sock[v].state
SentTo(v, f) ==
    /\ sock'[v].out = Append(sock[v].out, f) /\ sock'[v].backlog \in {sock[v].backlog, <<>>}
    /\ EndTold(f) => row' # "open"
    /\ f.chat \in {<<>>, sock[v].backlog}
    /\ sock'[v].state \in BeforeState => f.op # "state" /\ sock[v].state \in BeforeState
SocketStep(v) ==
    \/ sock'[v] = sock[v] \/ Replaced(v) \/ Moved(v) \/ Read(v)
    \/ \E f \in Frames : SentTo(v, f)

LEMMA SessionSteps ==
    ASSUME Types, NEW v \in Visits,
           \/ Authenticate(v) \/ JoinGate(v) \/ JoinBreaks(v) \/ ReadBacklog(v) \/ SendState(v)
    PROVE  \A w \in Visits : SocketStep(w)
  <1> DEFINE f == Frame("state", 0, sock[v].backlog, "none")
  <1>1. row' = row
    BY DEF Authenticate, JoinGate, JoinBreaks, ReadBacklog, SendState, api
  <1>2. sock[v] \in Sockets /\ sock[v].backlog \in Lines /\ "none" \in Codes
    BY DEF Types, Sockets, Codes
  <1>3. f \in Frames /\ f.op = "state" /\ f.code = "none" /\ f.chat = sock[v].backlog
    BY <1>2, FrameIs
  <1>4. /\ \A w \in Visits \ {v} : sock'[w] = sock[w]
        /\ \/ Moved(v)
           \/ /\ sock'[v].state \in {"shut", "refused"} /\ sock'[v].backlog = sock[v].backlog
              /\ \E d \in {"unauthorized", "conflict", "internal_error"} :
                    /\ d = "conflict" => row # "open"
                    /\ sock'[v].out = Append(sock[v].out, Error(d))
           \/ /\ sock'[v].state \in {"room", "left"}
              /\ sock'[v].backlog = <<>> /\ sock'[v].out = Append(sock[v].out, f)
    <2> HIDE DEF f
    <2>1. row \in {"open", "ending", "ended"} /\ backlog \in Lines /\ sock \in [Visits -> Sockets]
      BY DEF Types
    <2>2. QED
      BY <2>1, SessionIs DEF Moved, BeforeState, f
  <1> HIDE DEF f
  <1>5. ASSUME NEW d \in {"unauthorized", "conflict", "internal_error"}, d = "conflict" => row # "open",
               sock'[v].state \in {"shut", "refused"}, sock'[v].backlog = sock[v].backlog,
               sock'[v].out = Append(sock[v].out, Error(d))
        PROVE  SocketStep(v)
    <2>1. d \in Codes
      BY <1>5 DEF Codes, Fatal
    <2>2. Error(d) \in Frames /\ Error(d).op = "error" /\ Error(d).code = d /\ Error(d).chat = <<>>
      BY <2>1, ErrorIs
    <2>3. SentTo(v, Error(d))
      BY <1>1, <1>5, <2>2 DEF SentTo, EndTold, BeforeState
    <2>4. QED
      BY <2>2, <2>3 DEF SocketStep
  <1>6. ASSUME sock'[v].state \in {"room", "left"}, sock'[v].backlog = <<>>,
               sock'[v].out = Append(sock[v].out, f)
        PROVE  SocketStep(v)
    <2>1. SentTo(v, f)
      BY <1>1, <1>3, <1>6 DEF SentTo, EndTold, BeforeState
    <2>2. QED
      BY <1>3, <2>1 DEF SocketStep
  <1>7. QED
    BY <1>4, <1>5, <1>6 DEF SocketStep

LEMMA ReplacedIs ==
    ASSUME sock \in [Visits -> Sockets], NEW v \in Visits, NEW w \in Visits,
           \/ sock' = [sock EXCEPT ![v] = NoSocket]
           \/ sock' = [sock EXCEPT ![v] = [NoSocket EXCEPT !.state = "dialing"]]
    PROVE  SocketStep(w)
  BY DEF NoSocket, SocketStep, Replaced

LEMMA SocketSteps ==
    ASSUME Types, Effective, NothingTwice, [Next]_vars, NEW w \in Visits
    PROVE  SocketStep(w)
  <1>0. sock \in [Visits -> Sockets]
    BY DEF Types
  <1>1. CASE UNCHANGED sock
    BY <1>1 DEF SocketStep
  <1>2. CASE Visit
    <2>1. visit + 1 \in Visits
      BY <1>2, PartyClientAssumption DEF Visit, Types, Visits
    <2>2. sock' = sock \/ sock' = [sock EXCEPT ![visit + 1] = [NoSocket EXCEPT !.state = "dialing"]]
      BY <1>2 DEF Visit
    <2>3. QED
      BY <1>0, <1>1, <2>1, <2>2, ReplacedIs
  <1>3. CASE Leave
    <2>1. visit \in Visits
      BY <1>3, PartyClientAssumption DEF Leave, Effective, Types, Visits
    <2>2. QED
      BY <1>0, <1>3, <2>1, ReplacedIs DEF Leave
  <1>4. CASE Bounce
    <2>1. /\ \A x \in Visits \ {visit} : sock'[x] = sock[x]
          /\ sock'[visit].state \in {"room", "left"}
          /\ sock'[visit].backlog = sock[visit].backlog
      BY <1>4, BounceIs
    <2>2. PICK d \in {"rate_limited", "bad_request"} : sock'[visit].out = Append(sock[visit].out, Error(d))
      BY <1>4, BounceIs
    <2>3. d \in Codes
      BY DEF Codes
    <2>4. Error(d) \in Frames /\ Error(d).op = "error" /\ Error(d).code = d /\ Error(d).chat = <<>>
      BY <2>3, ErrorIs
    <2>5. SentTo(visit, Error(d))
      BY <2>1, <2>2, <2>4 DEF SentTo, EndTold, BeforeState
    <2>6. QED
      BY <2>1, <2>4, <2>5 DEF SocketStep
  <1>5. CASE Broadcast
    <2> DEFINE f == Frame("closed", 0, <<>>, "none")
    <2>1. <<>> \in Lines /\ "none" \in Codes
      BY DEF Lines, Codes
    <2>2. f \in Frames /\ f.op = "closed" /\ f.chat = <<>>
      BY <2>1, FrameIs
    <2>3. /\ sock'[w].backlog = sock[w].backlog
          /\ \/ sock'[w] = sock[w]
             \/ /\ sock'[w].out = Append(sock[w].out, f)
                /\ sock'[w].state \in {"left", "snapshot_left"}
      BY <1>5, BroadcastIs
    <2>4. row' = "ended"
      BY <1>5 DEF Broadcast
    <2> HIDE DEF f
    <2>5. sock'[w] = sock[w] \/ SentTo(w, f)
      BY <2>2, <2>3, <2>4 DEF SentTo, BeforeState
    <2>6. QED
      BY <2>2, <2>5 DEF SocketStep
  <1>6. ASSUME NEW u \in Speakers, Publish(u) PROVE SocketStep(w)
    <2> DEFINE f == Frame("chat", saying[u].id, <<>>, "none")
    <2>1. /\ saying[u].id \in Ids
          /\ sock'[w].backlog = sock[w].backlog /\ sock'[w].state = sock[w].state
          /\ sock'[w] = sock[w] \/ sock'[w].out = Append(sock[w].out, f)
      BY <1>6, PublishIs
    <2>2. <<>> \in Lines /\ "none" \in Codes
      BY DEF Lines, Codes
    <2>3. f \in Frames /\ f.op = "chat" /\ f.chat = <<>> /\ f.code = "none"
      BY <2>1, <2>2, FrameIs
    <2> HIDE DEF f
    <2>4. sock'[w] = sock[w] \/ SentTo(w, f)
      BY <2>1, <2>3 DEF SentTo, EndTold
    <2>5. QED
      BY <2>3, <2>4 DEF SocketStep
  <1>7. ASSUME NEW v \in Visits, Retry(v) \/ Refreshed(v) \/ ConnectionClosed(v) \/ ConnectionLost(v)
        PROVE  SocketStep(w)
    <2>1. \/ sock' = sock \/ sock' = [sock EXCEPT ![v] = NoSocket]
          \/ sock' = [sock EXCEPT ![v] = [NoSocket EXCEPT !.state = "dialing"]]
      BY <1>7 DEF Retry, Refreshed, ProceedTo, ConnectionClosed, ConnectionLost, Closed
    <2>2. QED
      BY <1>0, <1>1, <2>1, ReplacedIs
  <1>8. ASSUME NEW v \in Visits, Opened(v) PROVE SocketStep(w)
    <2>1. /\ sock' = [sock EXCEPT ![v] = [sock[v] EXCEPT !.state = "auth", !.token = token]]
          /\ sock[v].state = "dialing"
      BY <1>8 DEF Opened
    <2>2. /\ [sock[v] EXCEPT !.state = "auth", !.token = token].out = sock[v].out
          /\ [sock[v] EXCEPT !.state = "auth", !.token = token].backlog = sock[v].backlog
      BY <1>0 DEF Sockets
    <2>3. sock'[w] = sock[w] \/ Moved(w)
      BY <1>0, <2>1, <2>2 DEF Moved, BeforeState
    <2>4. QED
      BY <2>3 DEF SocketStep
  <1>9. ASSUME NEW v \in Visits, Receive(v) PROVE SocketStep(w)
    <2>1. /\ sock[v].out # <<>>
          /\ \/ sock' = [sock EXCEPT ![v] = NoSocket]
             \/ sock' = [sock EXCEPT ![v] = [sock[v] EXCEPT !.out = Tail(sock[v].out)]]
      BY <1>9 DEF Receive
    <2>2. CASE sock' = [sock EXCEPT ![v] = NoSocket]
      BY <1>0, <2>2, ReplacedIs
    <2>3. CASE sock' = [sock EXCEPT ![v] = [sock[v] EXCEPT !.out = Tail(sock[v].out)]]
      <3> DEFINE new == [sock[v] EXCEPT !.out = Tail(sock[v].out)]
      <3>1. new.out = Tail(sock[v].out) /\ new.backlog = sock[v].backlog /\ new.state = sock[v].state
        BY <1>0 DEF Sockets
      <3> HIDE DEF new
      <3>2. sock'[w] = IF w = v THEN new ELSE sock[w]
        BY <1>0, <2>3 DEF new
      <3>3. sock'[w] = sock[w] \/ Read(w)
        BY <2>1, <3>1, <3>2 DEF Read
      <3>4. QED
        BY <3>3 DEF SocketStep
    <2>4. QED
      BY <2>1, <2>2, <2>3
  <1>10. ASSUME NEW v \in Visits,
                \/ Authenticate(v) \/ JoinGate(v) \/ JoinBreaks(v) \/ ReadBacklog(v) \/ SendState(v)
         PROVE  SocketStep(w)
    BY <1>10, SessionSteps
  <1>11. CASE \/ UNCHANGED vars \/ End \/ TokenExpires \/ \E u \in Speakers : Say(u) \/ AppendBacklog(u)
    BY <1>1, <1>11 DEF vars, End, TokenExpires, Say, AppendBacklog
  <1>12. QED
    BY <1>2, <1>3, <1>4, <1>5, <1>6, <1>7, <1>8, <1>9, <1>10, <1>11 DEF Next, Steps

(* What holds of every frame on its way holds after a step, if it holds of *)
(* a frame that is sent.                                                   *)
LEMMA QueueKept ==
    ASSUME NEW P, NEW s \in Seq(Frames), NEW t,
           \A k \in 1 .. Len(s) : s[k] \in P,
           \/ t = s \/ t = <<>> \/ (s # <<>> /\ t = Tail(s))
           \/ \E f \in Frames : f \in P /\ t = Append(s, f)
    PROVE  \A k \in 1 .. Len(t) : t[k] \in P
  <1>1. CASE t = s \/ t = <<>>
    BY <1>1
  <1>2. CASE s # <<>> /\ t = Tail(s)
    BY <1>2
  <1>3. CASE \E f \in Frames : f \in P /\ t = Append(s, f)
    <2>1. PICK f \in Frames : f \in P /\ t = Append(s, f)
      BY <1>3
    <2>2. \A k \in 1 .. Len(t) : t[k] = f \/ (k \in 1 .. Len(s) /\ t[k] = s[k])
      BY <2>1
    <2>3. QED
      BY <2>1, <2>2
  <1>4. QED
    BY <1>1, <1>2, <1>3

LEMMA RowKept ==
    ASSUME [Next]_vars, row # "open"
    PROVE  row' # "open"
  BY DEF Next, vars, api, Steps, Visit, Leave, Bounce, End, Broadcast, TokenExpires, Say,
     AppendBacklog, Publish, Authenticate, JoinGate, JoinBreaks, ReadBacklog, SendState, Retry,
     Refreshed, Opened, ConnectionLost, ConnectionClosed, Receive

LEMMA ToldFrames ==
    ASSUME Types, Effective, NothingTwice, Told, [Next]_vars, NEW v \in Visits
    PROVE  \A k \in 1 .. Len(sock'[v].out) : EndTold(sock'[v].out[k]) => row' # "open"
  <1> DEFINE P == {f \in Frames : EndTold(f) => row' # "open"}
  <1>1. sock[v].out \in Seq(Frames)
    BY DEF Types, Sockets
  <1>2. \A k \in 1 .. Len(sock[v].out) : sock[v].out[k] \in P
    BY <1>1, RowKept DEF Told
  <1>3. \/ sock'[v].out = sock[v].out \/ sock'[v].out = <<>>
        \/ (sock[v].out # <<>> /\ sock'[v].out = Tail(sock[v].out))
        \/ \E f \in Frames : f \in P /\ sock'[v].out = Append(sock[v].out, f)
    BY SocketSteps DEF SocketStep, Replaced, Moved, Read, SentTo
  <1> HIDE DEF P
  <1>4. \A k \in 1 .. Len(sock'[v].out) : sock'[v].out[k] \in P
    BY <1>1, <1>2, <1>3, QueueKept
  <1>5. QED
    BY <1>4 DEF P

(* What the fold says of the end is what it was told.                      *)
LEMMA FoldTold ==
    ASSUME NEW r \in Snapshots, NEW f \in Frames,
           Fold(r, f).party = "closed" \/ Fold(r, f).error = "conflict"
    PROVE  r.party = "closed" \/ r.error = "conflict" \/ EndTold(f)
  <1>1. CASE f.op = "state"
    <2>1. Fold(r, f).party = "open" /\ Fold(r, f).error = "none"
      BY <1>1 DEF Fold, Snapshots
    <2>2. QED
      BY <2>1
  <1>2. CASE f.op = "chat"
    <2>1. Fold(r, f).party = r.party /\ Fold(r, f).error = r.error
      BY <1>2 DEF Fold, Snapshots
    <2>2. QED
      BY <2>1
  <1>3. CASE f.op = "closed"
    BY <1>3 DEF EndTold
  <1>4. CASE f.op = "error"
    <2>1. Fold(r, f) \in {[r EXCEPT !.error = f.code], [r EXCEPT !.notice = TRUE]}
      BY <1>4 DEF Fold
    <2>2. Fold(r, f).party = r.party /\ Fold(r, f).error \in {f.code, r.error}
      BY <2>1 DEF Snapshots
    <2>3. QED
      BY <2>2 DEF EndTold
  <1>5. QED
    BY <1>1, <1>2, <1>3, <1>4 DEF Frames

(* What a frame makes of the connection and of its effect.                 *)
LEMMA ReceiveIs ==
    ASSUME Types, Effective, NEW v \in Visits, Receive(v)
    PROVE  /\ v = visit /\ shown /\ eff[v].at = "open" /\ UNCHANGED <<visit, shown>>
           /\ sock[v].out \in Seq(Frames) /\ sock[v].out # <<>> /\ Head(sock[v].out) \in Frames
           /\ snap'.party = Fold(snap, Head(sock[v].out)).party
           /\ snap'.error = Fold(snap, Head(sock[v].out)).error
           /\ snap'.chat = Fold(snap, Head(sock[v].out)).chat
           /\ eff'[v].at = "open" \/ eff'[v].closedByUs
           /\ eff'[v].at = "open" => sock'[v].out = Tail(sock[v].out)
                                     /\ sock'[v].state = sock[v].state
  <1> DEFINE f == Head(sock[v].out)
             fatal == f.op = "error" /\ f.code \in Fatal
             b == eff[v].closedByUs \/ f.op = "closed" \/ fatal
             n == eff[v].needsRefresh \/ f.code = "unauthorized"
             t == eff[v].beating /\ ~fatal
  <1>1. sock[v] \in Sockets /\ eff[v] \in Effects /\ sock \in [Visits -> Sockets]
        /\ eff \in [Visits -> Effects] /\ snap \in Snapshots /\ Len(snap.chat) <= ChatCap
    BY DEF Types
  <1>2. sock[v].out \in Seq(Frames) /\ sock[v].out # <<>> /\ eff[v].at = "open"
    BY <1>1 DEF Receive, Sockets
  <1>3. f \in Frames
    BY <1>2
  <1>4. Fold(snap, f) \in Snapshots
    BY <1>1, <1>3, FoldTyped
  <1>5. PICK c : snap' = [Fold(snap, f) EXCEPT !.connection = c]
    BY DEF Receive
  <1>6. /\ snap'.party = Fold(snap, f).party /\ snap'.error = Fold(snap, f).error
        /\ snap'.chat = Fold(snap, f).chat
    BY <1>4, <1>5 DEF Snapshots
  <1>7. v = visit /\ shown /\ UNCHANGED <<visit, shown>>
    BY <1>2, OpenIsShown DEF Receive
  <1>8. /\ eff' = [eff EXCEPT ![v] = [eff[v] EXCEPT !.closedByUs = b, !.needsRefresh = n,
                              !.at = IF fatal THEN "over" ELSE "open", !.beating = t]]
        /\ sock' = [sock EXCEPT ![v] = IF fatal THEN NoSocket
                                       ELSE [sock[v] EXCEPT !.out = Tail(sock[v].out)]]
    BY DEF Receive
  <1>9. fatal => b
    OBVIOUS
  <1> HIDE DEF f, b, n, t, fatal
  <1>10. CASE fatal
    <2>1. eff'[v].at = "over" /\ eff'[v].closedByUs = b
      BY <1>1, <1>8, <1>10 DEF Effects
    <2>2. QED
      BY <1>2, <1>3, <1>6, <1>7, <1>9, <1>10, <2>1 DEF f
  <1>11. CASE ~fatal
    <2>1. eff'[v].at = "open"
      BY <1>1, <1>8, <1>11 DEF Effects
    <2>2. sock'[v].out = Tail(sock[v].out) /\ sock'[v].state = sock[v].state
      BY <1>1, <1>8, <1>11 DEF Sockets
    <2>3. QED
      BY <1>2, <1>3, <1>6, <1>7, <2>1, <2>2 DEF f
  <1>12. QED
    BY <1>10, <1>11

(* The snapshot after a step: emptied, told of the connection, or folded.  *)
LEMMA SnapIs ==
    ASSUME Types, Effective, [Next]_vars
    PROVE  \/ snap' = snap
           \/ snap'.party = "none" /\ snap'.error = "none" /\ snap'.chat = <<>>
              /\ (shown' => snap'.connection # "live")
           \/ snap' = [snap EXCEPT !.connection = "reconnecting"]
           \/ \E v \in Visits : Receive(v)
  <1>1. CASE Visit
    <2>1. snap' = EmptyRoom \/ snap' = [EmptyRoom EXCEPT !.connection = "reconnecting"]
      BY <1>1 DEF Visit
    <2>2. QED
      BY <2>1 DEF EmptyRoom
  <1>2. CASE Leave
    BY <1>2 DEF Leave, EmptyRoom
  <1>3. ASSUME NEW v \in Visits, Retry(v) \/ Refreshed(v) \/ ConnectionClosed(v) \/ ConnectionLost(v)
        PROVE  snap' = snap \/ snap' = [snap EXCEPT !.connection = "reconnecting"]
    BY <1>3 DEF Retry, Refreshed, ProceedTo, ConnectionClosed, ConnectionLost, Closed, Connection
  <1>4. CASE UNCHANGED snap
    BY <1>4
  <1>5. QED
    BY <1>1, <1>2, <1>3, <1>4 DEF Next, Steps, vars, Opened, Bounce, End, Broadcast, TokenExpires,
       Say, AppendBacklog, Publish, Authenticate, JoinGate, JoinBreaks, ReadBacklog, SendState

LEMMA ToldStep ==
    ASSUME Types, Effective, NothingTwice, Told, [Next]_vars
    PROVE  Told'
  <1>0. snap \in Snapshots
    BY DEF Types
  <1>1. \A v \in Visits : \A k \in 1 .. Len(sock'[v].out) : EndTold(sock'[v].out[k]) => row' # "open"
    BY ToldFrames
  <1>2. snap'.party = "closed" \/ snap'.error = "conflict" => row' # "open"
    <2>1. CASE snap' = snap \/ snap' = [snap EXCEPT !.connection = "reconnecting"]
      <3>1. snap'.party = snap.party /\ snap'.error = snap.error
        BY <1>0, <2>1 DEF Snapshots
      <3>2. QED
        BY <3>1, RowKept DEF Told
    <2>2. ASSUME NEW v \in Visits, Receive(v), snap'.party = "closed" \/ snap'.error = "conflict"
          PROVE  row' # "open"
      <3> DEFINE f == Head(sock[v].out)
      <3>1. /\ sock[v].out \in Seq(Frames) /\ sock[v].out # <<>> /\ f \in Frames
            /\ snap'.party = Fold(snap, f).party /\ snap'.error = Fold(snap, f).error
        BY <2>2, ReceiveIs
      <3>2. snap.party = "closed" \/ snap.error = "conflict" \/ EndTold(f)
        BY <1>0, <2>2, <3>1, FoldTold
      <3>3. f = sock[v].out[1] /\ 1 \in 1 .. Len(sock[v].out)
        BY <3>1
      <3>4. QED
        BY <3>2, <3>3, RowKept DEF Told
    <2>3. QED
      BY <2>1, <2>2, SnapIs
  <1>3. shown' /\ snap'.connection = "live" => eff'[visit'].at = "open" \/ eff'[visit'].closedByUs
    <2>1. CASE Visit \/ Leave
      <3>1. shown' => snap'.connection # "live"
        <4>1. \/ snap' = EmptyRoom \/ snap' = [EmptyRoom EXCEPT !.connection = "reconnecting"]
          BY <2>1 DEF Visit, Leave
        <4>2. QED
          BY <4>1 DEF EmptyRoom
      <3>2. QED
        BY <3>1
    <2>2. ASSUME NEW v \in Visits, Receive(v)
          PROVE  eff'[visit'].at = "open" \/ eff'[visit'].closedByUs
      BY <2>2, ReceiveIs
    <2>3. ASSUME NEW v \in Visits, Retry(v) \/ Refreshed(v) \/ Opened(v) \/ ConnectionClosed(v)
                                   \/ ConnectionLost(v)
          PROVE  shown' /\ snap'.connection = "live" =>
                     eff'[visit'].at = "open" \/ eff'[visit'].closedByUs
      <3>1. /\ \A w \in Visits \ {v} : eff'[w] = eff[w]
            /\ eff[v].closedByUs => eff'[v].closedByUs
            /\ UNCHANGED <<visit, shown>>
        BY <2>3, EffectSteps
      <3>2. eff[v].at = "open" => snap'.connection # "live" \/ eff[v].closedByUs
        <4>1. eff[v].at = "open" => Closed(v)
          BY <2>3 DEF Retry, Refreshed, Opened, ConnectionClosed, ConnectionLost
        <4>2. Closed(v) => eff[v].closedByUs \/ snap' = [snap EXCEPT !.connection = "reconnecting"]
          BY DEF Closed, Connection
        <4>3. [snap EXCEPT !.connection = "reconnecting"].connection = "reconnecting"
          BY <1>0 DEF Snapshots
        <4>4. QED
          BY <4>1, <4>2, <4>3
      <3>3. snap' = snap \/ snap'.connection = "reconnecting"
        <4>1. snap' = snap \/ snap' = [snap EXCEPT !.connection = "reconnecting"]
          BY <2>3 DEF Retry, Refreshed, Opened, ProceedTo, ConnectionClosed, ConnectionLost, Closed,
             Connection
        <4>2. QED
          BY <1>0, <4>1 DEF Snapshots
      <3>4. visit \in Visits \/ ~shown
        BY PartyClientAssumption DEF Types, Effective, Visits
      <3>5. QED
        BY <3>1, <3>2, <3>3, <3>4 DEF Told
    <2>4. CASE UNCHANGED <<eff, visit, shown, snap>>
      BY <2>4 DEF Told
    <2>5. QED
      BY <2>1, <2>2, <2>3, <2>4 DEF Next, Steps, vars, Bounce, End, Broadcast, TokenExpires, Say,
         AppendBacklog, Publish, Authenticate, JoinGate, JoinBreaks, ReadBacklog, SendState
  <1>4. QED
    BY <1>1, <1>2, <1>3 DEF Told
----------------------------------------------------------------------------
(* No message twice.                                                       *)
LEMMA NoneDistinct == Distinct(<<>>) /\ Len(<<>>) <= ChatCap
  BY PartyClientAssumption DEF Distinct

LEMMA TwiceFrames ==
    ASSUME Types, Effective, NothingTwice, [Next]_vars, NEW v \in Visits
    PROVE  /\ Distinct(sock'[v].backlog) /\ Len(sock'[v].backlog) <= ChatCap
           /\ \A k \in 1 .. Len(sock'[v].out) :
                 Distinct(sock'[v].out[k].chat) /\ Len(sock'[v].out[k].chat) <= ChatCap
  <1> DEFINE P == {f \in Frames : Distinct(f.chat) /\ Len(f.chat) <= ChatCap}
  <1>1. sock[v].out \in Seq(Frames)
    BY DEF Types, Sockets
  <1>2. \A k \in 1 .. Len(sock[v].out) : sock[v].out[k] \in P
    BY <1>1 DEF NothingTwice
  <1>3. SocketStep(v)
    BY SocketSteps
  <1>4. /\ Distinct(sock[v].backlog) /\ Len(sock[v].backlog) <= ChatCap
        /\ Distinct(backlog) /\ Len(backlog) <= ChatCap
    BY DEF NothingTwice, Types
  <1>5. \/ sock'[v].out = sock[v].out \/ sock'[v].out = <<>>
        \/ (sock[v].out # <<>> /\ sock'[v].out = Tail(sock[v].out))
        \/ \E f \in Frames : f \in P /\ sock'[v].out = Append(sock[v].out, f)
    BY <1>3, <1>4, NoneDistinct DEF SocketStep, Replaced, Moved, Read, SentTo
  <1>6. Distinct(sock'[v].backlog) /\ Len(sock'[v].backlog) <= ChatCap
    <2>1. sock'[v].backlog \in {sock[v].backlog, backlog, <<>>}
      BY <1>3 DEF SocketStep, Replaced, Moved, Read, SentTo
    <2>2. QED
      BY <1>4, <2>1, NoneDistinct
  <1> HIDE DEF P
  <1>7. \A k \in 1 .. Len(sock'[v].out) : sock'[v].out[k] \in P
    BY <1>1, <1>2, <1>5, QueueKept
  <1>8. QED
    BY <1>6, <1>7 DEF P

(* The chat after a frame, and how much of the room it has.                *)
LEMMA FoldChat ==
    ASSUME NEW r \in Snapshots, Len(r.chat) <= ChatCap, NEW f \in Frames, Len(f.chat) <= ChatCap
    PROVE  /\ f.op = "state" => Fold(r, f).chat = f.chat
           /\ f.op = "chat" =>
                /\ Distinct(r.chat) => Distinct(Fold(r, f).chat)
                /\ Len(r.chat) = ChatCap => Len(Fold(r, f).chat) = ChatCap
                /\ \/ Len(Fold(r, f).chat) = ChatCap
                   \/ ToSet(Fold(r, f).chat) = ToSet(r.chat) \cup {f.id}
           /\ f.op \in {"closed", "error"} => Fold(r, f).chat = r.chat
  <1>1. r.chat \in Lines /\ f.chat \in Lines
    BY DEF Snapshots, Frames
  <1>2. CASE f.op = "state"
    <2>1. Recent(f.chat) = f.chat
      BY <1>1, RecentIs DEF Lines
    <2>2. Fold(r, f).chat = Recent(f.chat)
      BY <1>2 DEF Fold, Snapshots
    <2>3. QED
      BY <1>2, <2>1, <2>2
  <1>3. CASE f.op = "chat"
    <2>1. Fold(r, f).chat = AppendChat(r.chat, f.id)
      BY <1>3 DEF Fold, Snapshots
    <2>2. f.id \in Ids
      BY <1>3 DEF Frames
    <2>3. QED
      BY <1>1, <1>3, <2>1, <2>2, ChatIs DEF Lines
  <1>4. CASE f.op = "closed"
    <2>1. Fold(r, f) \in {r, [r EXCEPT !.party = "closed"]}
      BY <1>4 DEF Fold
    <2>2. QED
      BY <1>4, <2>1 DEF Snapshots
  <1>5. CASE f.op = "error"
    <2>1. Fold(r, f) \in {[r EXCEPT !.error = f.code], [r EXCEPT !.notice = TRUE]}
      BY <1>5 DEF Fold
    <2>2. QED
      BY <1>5, <2>1 DEF Snapshots
  <1>6. QED
    BY <1>2, <1>3, <1>4, <1>5 DEF Frames

LEMMA SpeechKept ==
    ASSUME Types, NothingTwice, [Next]_vars
    PROVE  /\ \A u \in Speakers : saying'[u].at # "idle" => saying'[u].id \in 1 .. lines'
           /\ \A u, w \in Speakers :
                 saying'[u].at # "idle" /\ saying'[w].at # "idle" /\ saying'[u].id = saying'[w].id
                     => u = w
           /\ \A u \in Speakers : saying'[u].at = "append" => saying'[u].id \notin ToSet(backlog')
           /\ ToSet(backlog') \subseteq 1 .. lines'
           /\ Distinct(backlog')
  <1>0. lines \in Nat /\ saying \in [Speakers -> Sayings]
    BY PartyClientAssumption DEF Types
  <1>1. ASSUME NEW u \in Speakers, Say(u)
        PROVE  /\ \A w \in Speakers : saying'[w].at # "idle" => saying'[w].id \in 1 .. lines'
               /\ \A w, x \in Speakers :
                     saying'[w].at # "idle" /\ saying'[x].at # "idle" /\ saying'[w].id = saying'[x].id
                         => w = x
               /\ \A w \in Speakers : saying'[w].at = "append" => saying'[w].id \notin ToSet(backlog')
               /\ ToSet(backlog') \subseteq 1 .. lines'
               /\ Distinct(backlog')
    <2>1. lines' = lines + 1 /\ backlog' = backlog
      BY <1>1 DEF Say
    <2>2. \A w \in Speakers : saying'[w] = IF w = u THEN [at |-> "append", id |-> lines + 1] ELSE saying[w]
      BY <1>0, <1>1 DEF Say
    <2>3. lines + 1 \in 1 .. lines' /\ lines + 1 \notin 1 .. lines /\ 1 .. lines \subseteq 1 .. lines'
      BY <1>0, <2>1
    <2>4. QED
      BY <2>1, <2>2, <2>3 DEF NothingTwice
  <1>2. ASSUME NEW u \in Speakers, AppendBacklog(u)
        PROVE  /\ \A w \in Speakers : saying'[w].at # "idle" => saying'[w].id \in 1 .. lines'
               /\ \A w, x \in Speakers :
                     saying'[w].at # "idle" /\ saying'[x].at # "idle" /\ saying'[w].id = saying'[x].id
                         => w = x
               /\ \A w \in Speakers : saying'[w].at = "append" => saying'[w].id \notin ToSet(backlog')
               /\ ToSet(backlog') \subseteq 1 .. lines'
               /\ Distinct(backlog')
    <2>1. /\ saying[u].at = "append" /\ saying[u].id \in 1 .. lines
          /\ saying' = [saying EXCEPT ![u] = [at |-> "publish", id |-> saying[u].id]]
          /\ ToSet(backlog') \subseteq ToSet(backlog) \cup {saying[u].id}
          /\ Distinct(backlog') /\ lines' = lines
      BY <1>2, AppendBacklogIs DEF AppendBacklog
    <2>2. \A w \in Speakers : saying'[w] = IF w = u THEN [at |-> "publish", id |-> saying[u].id]
                                           ELSE saying[w]
      BY <1>0, <2>1
    <2>3. \A w \in Speakers : /\ saying'[w].id = saying[w].id
                              /\ saying'[w].at # "idle" => saying[w].at # "idle"
                              /\ saying'[w].at = "append" => w # u /\ saying[w].at = "append"
      BY <2>1, <2>2
    <2>4. QED
      BY <2>1, <2>3 DEF NothingTwice
  <1>3. ASSUME NEW u \in Speakers, Publish(u)
        PROVE  /\ \A w \in Speakers : saying'[w].at # "idle" => saying'[w].id \in 1 .. lines'
               /\ \A w, x \in Speakers :
                     saying'[w].at # "idle" /\ saying'[x].at # "idle" /\ saying'[w].id = saying'[x].id
                         => w = x
               /\ \A w \in Speakers : saying'[w].at = "append" => saying'[w].id \notin ToSet(backlog')
               /\ ToSet(backlog') \subseteq 1 .. lines'
               /\ Distinct(backlog')
    <2>1. saying' = [saying EXCEPT ![u] = Idle] /\ lines' = lines /\ backlog' = backlog
      BY <1>3 DEF Publish
    <2>2. \A w \in Speakers : saying'[w] = IF w = u THEN Idle ELSE saying[w]
      BY <1>0, <2>1
    <2>3. Idle.at = "idle"
      BY DEF Idle
    <2>4. QED
      BY <2>1, <2>2, <2>3 DEF NothingTwice
  <1>4. CASE Broadcast
    <2>1. UNCHANGED <<lines, saying>> /\ backlog' = <<>>
      BY <1>4 DEF Broadcast
    <2>2. ToSet(backlog') = {} /\ Distinct(backlog')
      BY <2>1, NoneDistinct DEF ToSet
    <2>3. QED
      BY <2>1, <2>2 DEF NothingTwice
  <1>5. CASE UNCHANGED <<lines, saying, backlog>>
    BY <1>5 DEF NothingTwice
  <1>6. QED
    BY <1>1, <1>2, <1>3, <1>4, <1>5 DEF Next, Steps, vars, api, Visit, Leave, Bounce, End,
       TokenExpires, Authenticate, JoinGate, JoinBreaks, ReadBacklog, SendState, Retry,
       Refreshed, Opened, ConnectionLost, ConnectionClosed, Receive

LEMMA NothingTwiceStep ==
    ASSUME Types, Effective, NothingTwice, [Next]_vars
    PROVE  NothingTwice'
  <1>1. Distinct(snap'.chat)
    <2>1. ASSUME NEW v \in Visits, Receive(v) PROVE Distinct(snap'.chat)
      <3> DEFINE f == Head(sock[v].out)
      <3>1. /\ sock[v].out \in Seq(Frames) /\ sock[v].out # <<>> /\ f \in Frames
            /\ snap'.chat = Fold(snap, f).chat
        BY <2>1, ReceiveIs
      <3>2. f = sock[v].out[1] /\ 1 \in 1 .. Len(sock[v].out)
        BY <3>1
      <3>3. Distinct(f.chat) /\ Len(f.chat) <= ChatCap
        BY <3>2 DEF NothingTwice
      <3>4. snap \in Snapshots /\ Len(snap.chat) <= ChatCap /\ Distinct(snap.chat)
        BY DEF Types, NothingTwice
      <3>5. f.op \in {"state", "chat", "closed", "error"}
        BY <3>1 DEF Frames
      <3> HIDE DEF f
      <3>6. Distinct(Fold(snap, f).chat)
        BY <3>1, <3>3, <3>4, <3>5, FoldChat
      <3>7. QED
        BY <3>1, <3>6
    <2>2. CASE snap' = snap \/ snap' = [snap EXCEPT !.connection = "reconnecting"]
      <3>1. snap'.chat = snap.chat
        BY <2>2 DEF Types, Snapshots
      <3>2. QED
        BY <3>1 DEF NothingTwice
    <2>3. QED
      BY <2>1, <2>2, SnapIs, NoneDistinct
  <1>2. QED
    BY <1>1, SpeechKept, TwiceFrames DEF NothingTwice
----------------------------------------------------------------------------
(* Every message comes, or is shown.                                       *)

(* Fewer messages are needed.                                              *)
LEMMA ShowsLess ==
    ASSUME NEW need, NEW less, less \subseteq need, NEW chat, NEW o, ShowsAll(need, chat, o)
    PROVE  ShowsAll(less, chat, o)
  BY DEF ShowsAll, StateComes, StateRead

(* A frame is sent: it may be a message that is needed now.                *)
LEMMA ShowsSent ==
    ASSUME NEW need, NEW more, NEW chat, NEW o \in Seq(Frames), NEW f \in Frames, f.op # "state",
           \A x \in more : x \in need \/ (f.op = "chat" /\ f.id = x),
           ShowsAll(need, chat, o)
    PROVE  ShowsAll(more, chat, Append(o, f))
  <1> DEFINE p == Append(o, f)
             n == Len(o)
  <1>1. /\ Len(p) = n + 1 /\ n \in Nat /\ p[n + 1] = f
        /\ \A k \in 1 .. n : p[k] = o[k] /\ k \in 1 .. n + 1 /\ n + 1 > k
        /\ \A k \in 1 .. n + 1 : k \in 1 .. n \/ k = n + 1
        /\ n + 1 \in 1 .. n + 1 /\ n + 1 > 0
    OBVIOUS
  <1> HIDE DEF p
  <1>2. \A x, k : ComesIn(x, o, k) => ComesIn(x, p, k)
    BY <1>1 DEF ComesIn
  <1>3. \A j \in 1 .. Len(p) : IsState(p, j) => j \in 1 .. n /\ IsState(o, j)
    BY <1>1 DEF IsState
  <1>4. \A x \in more, k \in {0} \cup 1 .. n : x \in need \/ ComesIn(x, p, k)
    BY <1>1 DEF ComesIn
  <1>5. CASE StateComes(need, o)
    <2>1. PICK k \in 1 .. Len(o) :
             /\ IsState(o, k)
             /\ \A j \in 1 .. Len(o) : IsState(o, j) => j = k
             /\ \A x \in need : x \in ToSet(o[k].chat) \/ ComesIn(x, o, k)
      BY <1>5 DEF StateComes
    <2>2. k \in 1 .. Len(p) /\ p[k] = o[k] /\ IsState(p, k)
      BY <1>1, <2>1 DEF IsState
    <2>3. \A j \in 1 .. Len(p) : IsState(p, j) => j = k
      BY <1>3, <2>1
    <2>4. \A x \in more : x \in ToSet(p[k].chat) \/ ComesIn(x, p, k)
      BY <1>2, <1>4, <2>1, <2>2
    <2>5. StateComes(more, p)
      BY <2>2, <2>3, <2>4 DEF StateComes
    <2>6. QED
      BY <2>5 DEF ShowsAll, p
  <1>6. CASE StateRead(need, chat, o)
    <2>1. NoState(p)
      BY <1>3, <1>6 DEF NoState, StateRead
    <2>2. \/ Len(chat) = ChatCap
          \/ \A x \in more : x \in ToSet(chat) \/ ComesIn(x, p, 0)
      BY <1>2, <1>4, <1>6 DEF StateRead
    <2>3. StateRead(more, chat, p)
      BY <2>1, <2>2 DEF StateRead
    <2>4. QED
      BY <2>3 DEF ShowsAll, p
  <1>7. QED
    BY <1>5, <1>6 DEF ShowsAll

(* The state frame of the join is sent.                                    *)
LEMMA ShowsState ==
    ASSUME NEW need, NEW chat, NEW o \in Seq(Frames), NEW f \in Frames, f.op = "state",
           NoState(o), need \subseteq ToSet(f.chat)
    PROVE  ShowsAll(need, chat, Append(o, f))
  <1> DEFINE p == Append(o, f)
             n == Len(o)
  <1>1. /\ Len(p) = n + 1 /\ n \in Nat /\ p[n + 1] = f
        /\ \A k \in 1 .. n : p[k] = o[k]
        /\ \A k \in 1 .. n + 1 : k \in 1 .. n \/ k = n + 1
        /\ n + 1 \in 1 .. n + 1
    OBVIOUS
  <1> HIDE DEF p
  <1>2. IsState(p, n + 1) /\ \A j \in 1 .. Len(p) : IsState(p, j) => j = n + 1
    BY <1>1 DEF IsState, NoState
  <1>3. StateComes(need, p)
    BY <1>1, <1>2 DEF StateComes
  <1>4. QED
    BY <1>3 DEF ShowsAll, p

(* A frame is read.                                                        *)
LEMMA ShowsRead ==
    ASSUME NEW need, NEW chat, NEW new, NEW o \in Seq(Frames), o # <<>>, ShowsAll(need, chat, o),
           Head(o).op = "state" => new = Head(o).chat,
           Head(o).op = "chat" =>
               /\ Len(chat) = ChatCap => Len(new) = ChatCap
               /\ Len(new) = ChatCap \/ ToSet(new) = ToSet(chat) \cup {Head(o).id},
           Head(o).op \in {"closed", "error"} => new = chat
    PROVE  ShowsAll(need, new, Tail(o))
  <1> DEFINE p == Tail(o)
             f == Head(o)
  <1>1. /\ f \in Frames /\ f = o[1] /\ Len(o) \in Nat /\ Len(o) >= 1 /\ Len(p) = Len(o) - 1
        /\ \A k \in 1 .. Len(p) : p[k] = o[k + 1] /\ k + 1 \in 1 .. Len(o) /\ k + 1 # 1
        /\ \A k \in 1 .. Len(o) : k # 1 => k - 1 \in 1 .. Len(p) /\ p[k - 1] = o[k]
    OBVIOUS
  <1>2. f.op \in {"state", "chat", "closed", "error"}
    BY <1>1 DEF Frames
  <1> HIDE DEF p, f
  <1>3. \A j \in 1 .. Len(p) : IsState(p, j) => IsState(o, j + 1) /\ j + 1 \in 1 .. Len(o) /\ j + 1 # 1
    BY <1>1 DEF IsState
  <1>4. \A x : \A k \in 1 .. Len(o) : ComesIn(x, o, k) => ComesIn(x, p, k - 1)
    <2> SUFFICES ASSUME NEW x, NEW k \in 1 .. Len(o), ComesIn(x, o, k)
                 PROVE  ComesIn(x, p, k - 1)
      OBVIOUS
    <2>1. PICK j \in 1 .. Len(o) : j > k /\ o[j].op = "chat" /\ o[j].id = x
      BY DEF ComesIn
    <2>2. j # 1 /\ j - 1 > k - 1
      BY <1>1, <2>1
    <2>3. QED
      BY <1>1, <2>1, <2>2 DEF ComesIn
  <1>5. \A x : ComesIn(x, o, 0) => ComesIn(x, p, 0) \/ (f.op = "chat" /\ f.id = x)
    <2> SUFFICES ASSUME NEW x, ComesIn(x, o, 0), ~(f.op = "chat" /\ f.id = x)
                 PROVE  ComesIn(x, p, 0)
      OBVIOUS
    <2>1. PICK j \in 1 .. Len(o) : o[j].op = "chat" /\ o[j].id = x
      BY DEF ComesIn
    <2>2. j # 1
      BY <1>1, <2>1
    <2>3. j - 1 \in 1 .. Len(p) /\ p[j - 1] = o[j] /\ j - 1 > 0
      BY <1>1, <2>2
    <2>4. QED
      BY <2>1, <2>3 DEF ComesIn
  <1>6. CASE StateComes(need, o)
    <2>1. PICK k \in 1 .. Len(o) :
             /\ IsState(o, k)
             /\ \A j \in 1 .. Len(o) : IsState(o, j) => j = k
             /\ \A x \in need : x \in ToSet(o[k].chat) \/ ComesIn(x, o, k)
      BY <1>6 DEF StateComes
    <2>2. CASE k = 1
      <3>1. NoState(p)
        BY <1>3, <2>1, <2>2 DEF NoState
      <3>2. f.op = "state" /\ new = o[1].chat
        BY <1>1, <2>1, <2>2 DEF IsState, f
      <3>3. \A x \in need : x \in ToSet(new) \/ ComesIn(x, p, 0)
        BY <1>4, <2>1, <2>2, <3>2
      <3>4. StateRead(need, new, p)
        BY <3>1, <3>3 DEF StateRead
      <3>5. QED
        BY <3>4 DEF ShowsAll, p
    <2>3. CASE k # 1
      <3>1. k - 1 \in 1 .. Len(p) /\ p[k - 1] = o[k] /\ IsState(p, k - 1)
        BY <1>1, <2>1, <2>3 DEF IsState
      <3>2. \A j \in 1 .. Len(p) : IsState(p, j) => j = k - 1
        <4>1. \A j \in 1 .. Len(p) : IsState(p, j) => j + 1 = k
          BY <1>3, <2>1
        <4>2. QED
          BY <1>1, <4>1
      <3>3. \A x \in need : x \in ToSet(p[k - 1].chat) \/ ComesIn(x, p, k - 1)
        BY <1>4, <2>1, <3>1
      <3>4. StateComes(need, p)
        BY <3>1, <3>2, <3>3 DEF StateComes
      <3>5. QED
        BY <3>4 DEF ShowsAll, p
    <2>4. QED
      BY <2>2, <2>3
  <1>7. CASE StateRead(need, chat, o)
    <2>1. NoState(p) /\ f.op # "state"
      BY <1>1, <1>3, <1>7 DEF StateRead, NoState, IsState
    <2>2. Len(new) = ChatCap \/ \A x \in need : x \in ToSet(new) \/ ComesIn(x, p, 0)
      <3>1. CASE f.op = "chat"
        BY <1>5, <1>7, <3>1 DEF StateRead, f
      <3>2. CASE f.op # "chat"
        BY <1>2, <1>5, <1>7, <2>1, <3>2 DEF StateRead, f
      <3>3. QED
        BY <3>1, <3>2
    <2>3. StateRead(need, new, p)
      BY <2>1, <2>2 DEF StateRead
    <2>4. QED
      BY <2>3 DEF ShowsAll, p
  <1>8. QED
    BY <1>6, <1>7 DEF ShowsAll

LEMMA AwaitedStep ==
    ASSUME Types, Effective, NothingTwice, Awaited, [Next]_vars
    PROVE  Awaited'
  <1> SUFFICES ASSUME NEW v \in Visits, sock'[v].state \in BeforeState
               PROVE  NoState(sock'[v].out)
    BY DEF Awaited
  <1> DEFINE P == {f \in Frames : f.op # "state"}
  <1>1. SocketStep(v)
    BY SocketSteps
  <1>2. CASE sock'[v] = sock[v]
    BY <1>2 DEF Awaited
  <1>3. CASE Replaced(v)
    BY <1>3 DEF Replaced, NoState
  <1>4. ASSUME ~Replaced(v), sock'[v] # sock[v]
        PROVE  NoState(sock'[v].out)
    <2>1. sock[v].state \in BeforeState /\ sock[v].out \in Seq(Frames)
      BY <1>1, <1>4 DEF SocketStep, Moved, Read, SentTo, Types, Sockets
    <2>2. \A k \in 1 .. Len(sock[v].out) : sock[v].out[k] \in P
      BY <2>1 DEF Awaited, NoState, IsState
    <2>3. \/ sock'[v].out = sock[v].out
          \/ (sock[v].out # <<>> /\ sock'[v].out = Tail(sock[v].out))
          \/ \E f \in Frames : f \in P /\ sock'[v].out = Append(sock[v].out, f)
      BY <1>1, <1>4 DEF SocketStep, Moved, Read, SentTo
    <2> HIDE DEF P
    <2>4. \A k \in 1 .. Len(sock'[v].out) : sock'[v].out[k] \in P
      BY <2>1, <2>2, <2>3, QueueKept
    <2>5. QED
      BY <2>4 DEF P, NoState, IsState
  <1>5. QED
    BY <1>2, <1>3, <1>4

(* What is needed, after a step that leaves the chat and the losses alone, *)
(* and after one that publishes.                                           *)
LEMMA NeededSame ==
    ASSUME UNCHANGED <<backlog, missed, saying>>
    PROVE  Needed' = Needed
  BY DEF Needed, Publishing

LEMMA NeededPublished ==
    ASSUME Types, NEW u \in Speakers, saying' = [saying EXCEPT ![u] = Idle],
           backlog' = backlog, missed \subseteq missed'
    PROVE  \A x \in Needed' : x \in Needed \/ (x = saying[u].id /\ x \notin missed')
  <1>1. saying \in [Speakers -> Sayings]
    BY DEF Types
  <1>2. \A w \in Speakers : w # u => saying'[w] = saying[w]
    BY <1>1
  <1>3. ASSUME NEW x, x \in Publishing, x # saying[u].id
        PROVE  x \in Publishing'
    <2>1. PICK w \in Speakers : saying[w].at = "publish" /\ x = saying[w].id
      BY <1>3 DEF Publishing
    <2>2. saying'[w] = saying[w]
      BY <1>2, <1>3, <2>1
    <2>3. QED
      BY <2>1, <2>2 DEF Publishing
  <1>4. QED
    BY <1>3 DEF Needed

LEMMA NeededAppended ==
    ASSUME Types, NEW u \in Speakers,
           saying' = [saying EXCEPT ![u] = [at |-> "publish", id |-> saying[u].id]],
           saying[u].at = "append", missed' = missed,
           ToSet(backlog') \subseteq ToSet(backlog) \cup {saying[u].id}
    PROVE  Needed' \subseteq Needed
  <1>1. saying \in [Speakers -> Sayings]
    BY DEF Types
  <1>2. /\ \A w \in Speakers : w # u => saying'[w] = saying[w]
        /\ saying'[u].at = "publish" /\ saying'[u].id = saying[u].id
    BY <1>1
  <1>3. saying[u].id \in Publishing'
    BY <1>2 DEF Publishing
  <1>4. ASSUME NEW x, x \in Publishing
        PROVE  x \in Publishing'
    <2>1. PICK w \in Speakers : saying[w].at = "publish" /\ x = saying[w].id
      BY <1>4 DEF Publishing
    <2>2. w # u
      BY <2>1
    <2>3. saying'[w] = saying[w]
      BY <1>2, <2>2
    <2>4. QED
      BY <2>1, <2>3 DEF Publishing
  <1>5. QED
    BY <1>3, <1>4 DEF Needed

(* A step that does not touch what the page on screen reads.               *)
LEMMA CompleteKept ==
    ASSUME Complete, UNCHANGED <<visit, shown>>,
           shown /\ eff'[visit].at = "open" =>
               /\ eff[visit].at = "open" /\ sock'[visit] = sock[visit]
               /\ snap'.chat = snap.chat /\ Needed' \subseteq Needed
    PROVE  Complete'
  <1> SUFFICES ASSUME shown, eff'[visit].at = "open"
               PROVE  /\ sock'[visit].state = "snapshot" => Needed' \subseteq ToSet(sock'[visit].backlog)
                      /\ sock'[visit].state = "room" => ShowsAll(Needed', snap'.chat, sock'[visit].out)
    BY DEF Complete
  <1>1. PICK less : less = Needed'
    OBVIOUS
  <1>2. less \subseteq Needed /\ sock'[visit] = sock[visit] /\ snap'.chat = snap.chat
        /\ eff[visit].at = "open"
    BY <1>1
  <1>3. sock[visit].state = "room" => ShowsAll(less, snap.chat, sock[visit].out)
    BY <1>2, ShowsLess DEF Complete
  <1>4. sock[visit].state = "snapshot" => less \subseteq ToSet(sock[visit].backlog)
    BY <1>2 DEF Complete
  <1>5. QED
    BY <1>1, <1>2, <1>3, <1>4

(* Until it opens again a connection shows nothing.                        *)
LEMMA NotOpen ==
    ASSUME Types, NEW v \in Visits,
           Retry(v) \/ Refreshed(v) \/ ConnectionClosed(v) \/ ConnectionLost(v)
    PROVE  eff'[v].at # "open"
  <1>1. eff \in [Visits -> Effects] /\ eff[v] \in Effects
    BY DEF Types
  <1>2. PICK e \in {[eff[v] EXCEPT !.at = "refreshing", !.needsRefresh = FALSE],
                    [eff[v] EXCEPT !.at = "waiting", !.needsRefresh = TRUE],
                    [eff[v] EXCEPT !.at = "opening", !.needsRefresh = FALSE],
                    [eff[v] EXCEPT !.at = "over"],
                    [eff[v] EXCEPT !.at = "over", !.beating = FALSE],
                    [eff[v] EXCEPT !.at = "waiting", !.beating = FALSE]} :
           eff' = [eff EXCEPT ![v] = e]
    BY DEF Retry, Refreshed, ProceedTo, ConnectionClosed, ConnectionLost, Closed
  <1>3. e.at # "open"
    BY <1>1, <1>2 DEF Effects
  <1>4. eff'[v] = e
    BY <1>1, <1>2
  <1>5. QED
    BY <1>3, <1>4

LEMMA CompleteEffects ==
    ASSUME Types, Effective, Complete, NEW v \in Visits,
           Retry(v) \/ Refreshed(v) \/ ConnectionClosed(v) \/ ConnectionLost(v)
    PROVE  Complete'
  <1>1. UNCHANGED <<visit, shown, backlog, saying, missed>>
    BY DEF Retry, Refreshed, ConnectionClosed, ConnectionLost, api
  <1>2. /\ \A w \in Visits \ {v} : eff'[w] = eff[w] /\ sock'[w] = sock[w]
        /\ eff[v].at \in {"waiting", "refreshing", "opening", "open"}
        /\ eff[v].at = "refreshing" /\ eff[v].closedByUs => snap' = snap
    BY EffectSteps
  <1>3. eff'[v].at # "open"
    BY NotOpen
  <1>4. ASSUME shown, eff'[visit].at = "open"
        PROVE  /\ eff[visit].at = "open" /\ sock'[visit] = sock[visit]
               /\ snap'.chat = snap.chat /\ Needed' \subseteq Needed
    <2>1. v # visit
      BY <1>1, <1>3, <1>4
    <2>2. visit \in Visits
      BY <1>4, PartyClientAssumption DEF Types, Effective, Visits
    <2>3. eff[v].at = "refreshing"
      BY <1>2, <2>1, OpenIsShown
    <2>4. ~(v > visit)
      BY <2>3 DEF Effective, NoEffect
    <2>5. v < visit
      BY <2>1, <2>2, <2>4, PartyClientAssumption DEF Visits
    <2>6. snap' = snap
      BY <1>2, <2>3, <2>5 DEF Effective
    <2>7. Needed' = Needed
      BY <1>1, NeededSame
    <2>8. QED
      BY <1>2, <1>4, <2>1, <2>2, <2>6, <2>7
  <1>5. QED
    BY <1>1, <1>4, CompleteKept

LEMMA CompleteReceive ==
    ASSUME Types, Effective, NothingTwice, Complete, NEW v \in Visits, Receive(v)
    PROVE  Complete'
  <1> DEFINE o == sock[visit].out
             f == Head(o)
  <1>1. /\ v = visit /\ shown /\ eff[visit].at = "open" /\ UNCHANGED <<visit, shown>>
        /\ o \in Seq(Frames) /\ o # <<>> /\ f \in Frames
        /\ snap'.chat = Fold(snap, f).chat
        /\ eff'[visit].at = "open" => sock'[visit].out = Tail(o)
                                      /\ sock'[visit].state = sock[visit].state
    BY ReceiveIs
  <1>2. Needed' = Needed
    BY NeededSame DEF Receive, api
  <1>3. Len(f.chat) <= ChatCap
    <2>1. f = o[1] /\ 1 \in 1 .. Len(o)
      BY <1>1
    <2>2. QED
      BY <1>1, <2>1 DEF NothingTwice
  <1>4. snap \in Snapshots /\ Len(snap.chat) <= ChatCap
    BY DEF Types
  <1>5. ASSUME eff'[visit].at = "open", sock'[visit].state = "room"
        PROVE  ShowsAll(Needed', snap'.chat, sock'[visit].out)
    <2>1. ShowsAll(Needed, snap.chat, o)
      BY <1>1, <1>5 DEF Complete
    <2> HIDE DEF o, f
    <2>2. PICK chat : chat = snap'.chat
      OBVIOUS
    <2>3. /\ f.op = "state" => chat = f.chat
          /\ f.op = "chat" =>
                /\ Len(snap.chat) = ChatCap => Len(chat) = ChatCap
                /\ Len(chat) = ChatCap \/ ToSet(chat) = ToSet(snap.chat) \cup {f.id}
          /\ f.op \in {"closed", "error"} => chat = snap.chat
      BY <1>1, <1>3, <1>4, <2>2, FoldChat
    <2>4. PICK need : need = Needed
      OBVIOUS
    <2>5. ShowsAll(need, chat, Tail(o))
      BY <1>1, <2>1, <2>3, <2>4, ShowsRead DEF f
    <2>6. QED
      BY <1>1, <1>2, <1>5, <2>2, <2>4, <2>5
  <1>6. ASSUME eff'[visit].at = "open", sock'[visit].state = "snapshot"
        PROVE  Needed' \subseteq ToSet(sock'[visit].backlog)
    <2>1. Needed \subseteq ToSet(sock[visit].backlog)
      BY <1>1, <1>6 DEF Complete
    <2>2. sock'[visit].backlog = sock[visit].backlog
      <3>1. sock \in [Visits -> Sockets] /\ visit \in Visits
        BY <1>1 DEF Types
      <3>2. PICK x \in {NoSocket, [sock[v] EXCEPT !.out = Tail(sock[v].out)]} :
               sock' = [sock EXCEPT ![v] = x]
        BY DEF Receive
      <3>3. x.state # "none"
        BY <1>1, <1>6, <3>1, <3>2
      <3>4. x = [sock[v] EXCEPT !.out = Tail(sock[v].out)]
        BY <3>2, <3>3 DEF NoSocket
      <3>5. x.backlog = sock[v].backlog
        BY <1>1, <3>1, <3>4 DEF Sockets
      <3>6. QED
        BY <1>1, <3>1, <3>2, <3>5
    <2>3. QED
      BY <1>2, <2>1, <2>2
  <1>7. QED
    BY <1>1, <1>5, <1>6 DEF Complete

LEMMA CompleteSession ==
    ASSUME Types, Effective, Covered, NEW v \in Visits,
           \/ Authenticate(v) \/ JoinGate(v) \/ JoinBreaks(v) \/ ReadBacklog(v) \/ SendState(v)
    PROVE  Complete'
  <1>1. /\ UNCHANGED <<visit, shown, eff, snap, missed>> /\ UNCHANGED <<backlog, saying>>
    BY DEF Authenticate, JoinGate, JoinBreaks, ReadBacklog, SendState, api
  <1>2. Needed' = Needed
    BY <1>1, NeededSame
  <1>3. Complete
    BY DEF Covered
  <1>4. /\ \A w \in Visits \ {v} : sock'[w] = sock[w]
        /\ \/ sock'[v].state \in {"join", "subscribed", "shut", "refused", "left"}
           \/ /\ sock[v].state = "subscribed" /\ sock'[v].state = "snapshot"
              /\ sock'[v].out = sock[v].out /\ sock'[v].backlog = backlog
           \/ /\ sock[v].state = "snapshot" /\ sock'[v].state = "room"
              /\ sock'[v].out = Append(sock[v].out, Frame("state", 0, sock[v].backlog, "none"))
    BY SessionIs DEF Types
  <1>5. CASE v # visit
    <2>1. shown => visit \in Visits
      BY PartyClientAssumption DEF Types, Effective, Visits
    <2>2. QED
      BY <1>1, <1>2, <1>3, <1>4, <1>5, <2>1, CompleteKept
  <1>6. CASE v = visit /\ sock'[v].state \in {"join", "subscribed", "shut", "refused", "left"}
    BY <1>1, <1>6 DEF Complete
  <1>7. CASE v = visit /\ sock'[v].state = "snapshot" /\ sock'[v].backlog = backlog
    <2>1. Needed \subseteq ToSet(backlog)
      BY DEF Needed
    <2>2. QED
      BY <1>1, <1>2, <1>7, <2>1 DEF Complete
  <1>8. CASE /\ v = visit /\ sock[v].state = "snapshot" /\ sock'[v].state = "room"
             /\ sock'[v].out = Append(sock[v].out, Frame("state", 0, sock[v].backlog, "none"))
    <2>1. sock[v].out \in Seq(Frames) /\ sock[v].backlog \in Lines
      BY DEF Types, Sockets
    <2>2. NoState(sock[v].out)
      BY <1>8 DEF Covered, Awaited, BeforeState
    <2>3. PICK f \in Frames : /\ f = Frame("state", 0, sock[v].backlog, "none")
                              /\ f.op = "state" /\ f.chat = sock[v].backlog
      BY <2>1, FrameIs DEF Codes
    <2>4. PICK need : need = Needed
      OBVIOUS
    <2>5. shown /\ eff[visit].at = "open" => need \subseteq ToSet(f.chat)
      BY <1>3, <1>8, <2>3, <2>4 DEF Complete
    <2>6. shown /\ eff[visit].at = "open" => ShowsAll(need, snap.chat, sock'[v].out)
      BY <1>8, <2>1, <2>2, <2>3, <2>5, ShowsState
    <2>7. QED
      BY <1>1, <1>2, <1>8, <2>4, <2>6 DEF Complete
  <1>9. QED
    BY <1>4, <1>5, <1>6, <1>7, <1>8

(* A frame that is no state is sent to the page that is in the room.       *)
LEMMA CompleteSent ==
    ASSUME Complete, UNCHANGED <<visit, shown, eff, snap>>, NEW f \in Frames, f.op # "state",
           sock[visit].out \in Seq(Frames),
           sock'[visit].state = sock[visit].state, sock'[visit].backlog = sock[visit].backlog,
           sock'[visit].out = Append(sock[visit].out, f),
           \A x \in Needed' : x \in Needed \/ (f.op = "chat" /\ f.id = x),
           sock[visit].state = "snapshot" => Needed' \subseteq Needed
    PROVE  Complete'
  <1> SUFFICES ASSUME shown, eff[visit].at = "open"
               PROVE  /\ sock[visit].state = "snapshot" => Needed' \subseteq ToSet(sock[visit].backlog)
                      /\ sock[visit].state = "room" => ShowsAll(Needed', snap.chat, sock'[visit].out)
    BY DEF Complete
  <1>1. PICK more : more = Needed'
    OBVIOUS
  <1>2. sock[visit].state = "room" => ShowsAll(more, snap.chat, Append(sock[visit].out, f))
    BY <1>1, ShowsSent DEF Complete
  <1>3. sock[visit].state = "snapshot" => Needed' \subseteq ToSet(sock[visit].backlog)
    BY DEF Complete
  <1>4. QED
    BY <1>1, <1>2, <1>3

LEMMA CompleteBounce ==
    ASSUME Types, Effective, Complete, Bounce
    PROVE  Complete'
  <1>1. UNCHANGED <<visit, shown, eff, snap, missed, backlog, saying>>
    BY DEF Bounce, api
  <1>2. PICK d \in {"rate_limited", "bad_request"} :
           sock'[visit].out = Append(sock[visit].out, Error(d))
    BY BounceIs
  <1>3. d \in Codes
    BY DEF Codes
  <1>4. Error(d) \in Frames /\ Error(d).op # "state"
    BY <1>3, ErrorIs
  <1>5. /\ sock[visit].out \in Seq(Frames)
        /\ sock'[visit].state = sock[visit].state /\ sock'[visit].backlog = sock[visit].backlog
    BY BounceIs DEF Types, Sockets
  <1>6. Needed' = Needed
    BY <1>1, NeededSame
  <1>7. QED
    BY <1>1, <1>2, <1>4, <1>5, <1>6, CompleteSent

LEMMA CompletePublish ==
    ASSUME Types, Effective, NothingTwice, Complete, NEW u \in Speakers, Publish(u)
    PROVE  Complete'
  <1> DEFINE x == saying[u].id
  <1>1. UNCHANGED <<visit, shown, eff, snap, backlog>>
    BY DEF Publish
  <1>2. /\ x \in Ids /\ saying' = [saying EXCEPT ![u] = Idle]
        /\ \/ sock' = sock /\ missed' = missed \cup {x}
           \/ /\ missed' = IF visit > 0 /\ sock[visit].state = "snapshot"
                           THEN missed \cup {x} ELSE missed
              /\ \A v \in Visits :
                    /\ sock'[v].backlog = sock[v].backlog /\ sock'[v].state = sock[v].state
                    /\ \/ ~Subscribed(v) /\ sock'[v] = sock[v]
                       \/ /\ Subscribed(v)
                          /\ sock'[v].out = Append(sock[v].out, Frame("chat", x, <<>>, "none"))
    BY PublishIs
  <1>3. \A y \in Needed' : y \in Needed \/ (y = x /\ y \notin missed')
    BY <1>1, <1>2, NeededPublished
  <1> HIDE DEF x
  <1>4. CASE sock' = sock /\ missed' = missed \cup {x}
    BY <1>1, <1>3, <1>4, CompleteKept
  <1>5. CASE ~shown
    BY <1>1, <1>5 DEF Complete
  <1>6. ASSUME shown,
               missed' = IF visit > 0 /\ sock[visit].state = "snapshot" THEN missed \cup {x} ELSE missed,
               \A v \in Visits :
                    /\ sock'[v].backlog = sock[v].backlog /\ sock'[v].state = sock[v].state
                    /\ \/ ~Subscribed(v) /\ sock'[v] = sock[v]
                       \/ /\ Subscribed(v)
                          /\ sock'[v].out = Append(sock[v].out, Frame("chat", x, <<>>, "none"))
        PROVE  Complete'
    <2>1. visit \in Visits /\ visit > 0
      BY <1>6, PartyClientAssumption DEF Types, Effective, Visits
    <2>2. CASE Subscribed(visit)
      <3>1. <<>> \in Lines /\ "none" \in Codes
        BY DEF Lines, Codes
      <3>2. PICK f \in Frames : f = Frame("chat", x, <<>>, "none") /\ f.op = "chat" /\ f.id = x
        BY <1>2, <3>1, FrameIs
      <3>3. sock[visit].out \in Seq(Frames)
        BY <2>1 DEF Types, Sockets
      <3>4. sock[visit].state = "snapshot" => Needed' \subseteq Needed
        BY <1>3, <1>6, <2>1
      <3>5. /\ sock'[visit].state = sock[visit].state /\ sock'[visit].backlog = sock[visit].backlog
            /\ sock'[visit].out = Append(sock[visit].out, f)
        BY <1>6, <2>1, <2>2, <3>2
      <3>6. \A y \in Needed' : y \in Needed \/ (f.op = "chat" /\ f.id = y)
        BY <1>3, <3>2
      <3>7. f.op # "state"
        BY <3>2
      <3>8. QED
        BY <1>1, <3>3, <3>4, <3>5, <3>6, <3>7, CompleteSent
    <2>3. CASE ~Subscribed(visit)
      <3>1. sock'[visit].state = sock[visit].state /\ sock[visit].state \notin {"snapshot", "room"}
        BY <1>6, <2>1, <2>3 DEF Subscribed
      <3>2. QED
        BY <1>1, <3>1 DEF Complete
    <2>4. QED
      BY <2>2, <2>3
  <1>7. QED
    BY <1>2, <1>4, <1>5, <1>6

LEMMA CompleteRoom ==
    ASSUME Types, Effective, NothingTwice, Complete,
           \/ Visit \/ Leave \/ Broadcast \/ End \/ TokenExpires \/ UNCHANGED vars
           \/ \E v \in Visits : Opened(v)
           \/ \E u \in Speakers : Say(u) \/ AppendBacklog(u)
    PROVE  Complete'
  <1>0. eff \in [Visits -> Effects] /\ sock \in [Visits -> Sockets] /\ visit \in Nat
    BY PartyClientAssumption DEF Types
  <1>1. CASE Visit
    <2>1. visit + 1 \in Visits /\ visit' = visit + 1
      BY <1>0, <1>1, PartyClientAssumption DEF Visit, Visits
    <2>2. eff[visit + 1] \in Effects
      BY <1>0, <2>1
    <2>3. PICK e \in {[eff[visit + 1] EXCEPT !.at = "waiting", !.needsRefresh = TRUE],
                      [eff[visit + 1] EXCEPT !.at = "opening"]} :
             eff' = [eff EXCEPT ![visit + 1] = e]
      BY <1>1 DEF Visit
    <2>4. e.at # "open"
      BY <2>2, <2>3 DEF Effects
    <2>5. eff'[visit'].at # "open"
      BY <1>0, <2>1, <2>3, <2>4
    <2>6. QED
      BY <2>5 DEF Complete
  <1>2. CASE Leave
    BY <1>2 DEF Leave, Complete
  <1>3. CASE Broadcast
    <2>1. UNCHANGED <<visit, shown, eff, snap>> /\ backlog' = <<>>
      BY <1>3 DEF Broadcast
    <2>2. CASE ~shown
      BY <2>1, <2>2 DEF Complete
    <2>3. CASE shown
      <3>1. visit \in Visits
        BY <2>3, PartyClientAssumption DEF Types, Effective, Visits
      <3>2. sock'[visit].state \notin {"snapshot", "room"}
        BY <1>3, <3>1, BroadcastIs DEF Subscribed
      <3>3. QED
        BY <2>1, <3>2 DEF Complete
    <2>4. QED
      BY <2>2, <2>3
  <1>4. CASE End \/ TokenExpires \/ UNCHANGED vars
    <2>1. UNCHANGED <<visit, shown, eff, sock, snap, missed, backlog, saying>>
      BY <1>4 DEF End, TokenExpires, vars, api
    <2>2. Needed' = Needed
      BY <2>1, NeededSame
    <2>3. QED
      BY <2>1, <2>2, CompleteKept
  <1>5. ASSUME NEW v \in Visits, Opened(v)
        PROVE  Complete'
    <2>1. v = visit /\ UNCHANGED <<visit, shown>>
      BY <1>5, OpenIsShown DEF Opened
    <2>2. sock' = [sock EXCEPT ![v] = [sock[v] EXCEPT !.state = "auth", !.token = token]]
      BY <1>5 DEF Opened
    <2>3. [sock[v] EXCEPT !.state = "auth", !.token = token].state = "auth"
      BY <1>0 DEF Sockets
    <2>4. sock'[visit'].state = "auth"
      BY <1>0, <2>1, <2>2, <2>3
    <2>5. QED
      BY <2>4 DEF Complete
  <1>6. ASSUME NEW u \in Speakers, Say(u)
        PROVE  Complete'
    <2>1. /\ UNCHANGED <<visit, shown, eff, sock, snap, missed, backlog>>
          /\ saying[u] = Idle /\ saying' = [saying EXCEPT ![u] = [at |-> "append", id |-> lines + 1]]
      BY <1>6 DEF Say
    <2>2. Publishing' = Publishing
      <3>1. saying \in [Speakers -> Sayings]
        BY DEF Types
      <3>2. saying'[u].at = "append" /\ \A w \in Speakers : w # u => saying'[w] = saying[w]
        BY <2>1, <3>1
      <3>3. saying[u].at = "idle"
        BY <2>1 DEF Idle
      <3>4. \A w \in Speakers : saying'[w].at = "publish" <=> saying[w].at = "publish"
        BY <3>2, <3>3
      <3>5. \A w \in Speakers : saying[w].at = "publish" => saying'[w] = saying[w]
        BY <3>2, <3>3
      <3>6. QED
        BY <3>4, <3>5 DEF Publishing
    <2>3. Needed' = Needed
      BY <2>1, <2>2 DEF Needed
    <2>4. QED
      BY <2>1, <2>3, CompleteKept
  <1>7. ASSUME NEW u \in Speakers, AppendBacklog(u)
        PROVE  Complete'
    <2>1. UNCHANGED <<visit, shown, eff, sock, snap, missed>>
      BY <1>7 DEF AppendBacklog
    <2>2. Needed' \subseteq Needed
      BY <1>7, <2>1, AppendBacklogIs, NeededAppended
    <2>3. QED
      BY <2>1, <2>2, CompleteKept
  <1>8. QED
    BY <1>1, <1>2, <1>3, <1>4, <1>5, <1>6, <1>7

LEMMA CoveredStep ==
    ASSUME Types, Effective, NothingTwice, Covered, [Next]_vars
    PROVE  Covered'
  <1>1. Awaited /\ Complete
    BY DEF Covered
  <1>2. Awaited'
    BY <1>1, AwaitedStep
  <1>3. CASE \E v \in Visits : Retry(v) \/ Refreshed(v) \/ ConnectionClosed(v) \/ ConnectionLost(v)
    BY <1>1, <1>2, <1>3, CompleteEffects DEF Covered
  <1>4. CASE \E v \in Visits : Receive(v)
    BY <1>1, <1>2, <1>4, CompleteReceive DEF Covered
  <1>5. CASE \E v \in Visits : \/ Authenticate(v) \/ JoinGate(v) \/ JoinBreaks(v)
                               \/ ReadBacklog(v) \/ SendState(v)
    <2>1. Complete'
      BY <1>5, CompleteSession
    <2>2. QED
      BY <1>2, <2>1 DEF Covered
  <1>6. CASE Bounce
    BY <1>1, <1>2, <1>6, CompleteBounce DEF Covered
  <1>7. CASE \E u \in Speakers : Publish(u)
    BY <1>1, <1>2, <1>7, CompletePublish DEF Covered
  <1>8. CASE \/ Visit \/ Leave \/ Broadcast \/ End \/ TokenExpires \/ UNCHANGED vars
             \/ \E v \in Visits : Opened(v)
             \/ \E u \in Speakers : Say(u) \/ AppendBacklog(u)
    BY <1>1, <1>2, <1>8, CompleteRoom DEF Covered
  <1>9. QED
    BY <1>3, <1>4, <1>5, <1>6, <1>7, <1>8 DEF Next, Steps
----------------------------------------------------------------------------
(* The invariant, and the theorems.                                        *)
LEMMA InitInv == Init => Inv
  <1> SUFFICES ASSUME Init PROVE Inv
    OBVIOUS
  <1>1. /\ row = "open" /\ lines = 0 /\ backlog = <<>> /\ saying = [u \in Speakers |-> Idle]
        /\ token \in {"none", "good", "expired"} /\ visit = 0 /\ shown = FALSE
        /\ eff = [v \in Visits |-> NoEffect] /\ sock = [v \in Visits |-> NoSocket]
        /\ snap = EmptyRoom /\ missed = {} /\ drops = 0
    BY DEF Init
  <1>2. {ChatCap, MaxLines, MaxVisits, MaxDrops} \subseteq Nat
    BY PartyClientAssumption
  <1>3. <<>> \in Lines /\ Len(<<>>) = 0 /\ Distinct(<<>>)
    BY NoneDistinct DEF Lines
  <1>4. NoSocket \in Sockets /\ NoSocket.out = <<>> /\ NoSocket.backlog = <<>> /\ NoSocket.state = "none"
    BY NoSocketTyped DEF NoSocket
  <1>5. /\ EmptyRoom \in Snapshots /\ EmptyRoom.chat = <<>> /\ EmptyRoom.party = "none"
        /\ EmptyRoom.error = "none"
    BY <1>3 DEF EmptyRoom, Snapshots, Codes
  <1>6. /\ NoEffect \in Effects /\ NoEffect.at = "none" /\ NoEffect.beating = FALSE
    BY DEF NoEffect, Effects
  <1>7. Idle \in Sayings /\ Idle.at = "idle"
    BY <1>2 DEF Idle, Sayings
  <1>8. Types
    <2>1. /\ row \in {"open", "ending", "ended"} /\ lines \in 0 .. MaxLines
          /\ visit \in 0 .. MaxVisits /\ drops \in 0 .. MaxDrops
          /\ shown \in BOOLEAN /\ missed \subseteq Ids
      <3>1. 0 \in 0 .. MaxLines /\ 0 \in 0 .. MaxVisits /\ 0 \in 0 .. MaxDrops
        BY <1>2
      <3>2. QED
        BY <1>1, <3>1
    <2>2. saying \in [Speakers -> Sayings] /\ eff \in [Visits -> Effects]
          /\ sock \in [Visits -> Sockets]
      BY <1>1, <1>4, <1>6, <1>7
    <2>3. /\ backlog \in Lines /\ Len(backlog) <= ChatCap
          /\ snap \in Snapshots /\ Len(snap.chat) <= ChatCap
      BY <1>1, <1>2, <1>3, <1>5
    <2>4. QED
      BY <1>1, <2>1, <2>2, <2>3 DEF Types
  <1>9. Effective
    <2>1. \A v \in Visits : v > visit /\ ~(v < visit) /\ v # visit
      BY <1>1, <1>2 DEF Visits
    <2>2. QED
      BY <1>1, <1>6, <2>1 DEF Effective
  <1>10. Told
    BY <1>1, <1>4, <1>5 DEF Told
  <1>11. NothingTwice
    <2>1. ToSet(backlog) = {}
      BY <1>1 DEF ToSet
    <2>2. QED
      BY <1>1, <1>2, <1>3, <1>4, <1>5, <1>7, <2>1 DEF NothingTwice
  <1>12. Covered
    BY <1>1, <1>4 DEF Covered, Awaited, Complete, BeforeState
  <1>13. QED
    BY <1>8, <1>9, <1>10, <1>11, <1>12 DEF Inv

LEMMA InvStep == Inv /\ [Next]_vars => Inv'
  <1> SUFFICES ASSUME Inv, [Next]_vars PROVE Inv'
    OBVIOUS
  <1>1. Types /\ Effective /\ Told /\ NothingTwice /\ Covered
    BY DEF Inv
  <1>2. QED
    BY <1>1, TypesStep, EffectiveStep, ToldStep, NothingTwiceStep, CoveredStep DEF Inv

LEMMA Invariance == Spec => []Inv
  BY InitInv, InvStep, PTL DEF Spec

(* TypeOK: every variable of the page, of its socket and of the API's side *)
(* holds what the code lets it hold, the chat and the backlog are never    *)
(* longer than their cap, and a heartbeat runs over an open socket only.   *)
THEOREM PartyClientTypeCorrect == Spec => []TypeOK
  <1>1. ASSUME Inv PROVE TypeOK
    <2>1. Types /\ \A v \in Visits : eff[v].beating <=> eff[v].at = "open"
      BY <1>1 DEF Inv, Effective
    <2>2. ToSet(backlog) \subseteq Ids
      <3>1. backlog \in Seq(Ids)
        BY <2>1 DEF Types, Lines
      <3>2. QED
        BY <3>1 DEF ToSet
    <2>3. saying \in [Speakers -> [at : {"idle", "append", "publish"}, id : Ids \cup {0}]]
      <3>1. 0 .. MaxLines = Ids \cup {0}
        BY PartyClientAssumption DEF Ids
      <3>2. QED
        BY <2>1, <3>1 DEF Types, Sayings
    <2>4. ASSUME NEW v \in Visits, NEW k \in 1 .. Len(sock[v].out)
          PROVE  FrameOK(sock[v].out[k])
      <3>1. sock[v].out \in Seq(Frames)
        BY <2>1 DEF Types, Sockets
      <3>2. PICK f \in Frames : f = sock[v].out[k]
        BY <3>1
      <3>3. f.chat \in Seq(Ids)
        BY <3>2 DEF Frames, Lines
      <3>4. ToSet(f.chat) \subseteq Ids
        BY <3>3 DEF ToSet
      <3>5. f.op \in {"state", "chat", "closed", "error"} /\ f.id \in Ids \cup {0}
        BY <3>2 DEF Frames
      <3>6. QED
        BY <3>2, <3>4, <3>5 DEF FrameOK
    <2>5. QED
      BY <2>1, <2>2, <2>3, <2>4 DEF TypeOK, Types, Effects
  <1>2. QED
    BY <1>1, Invariance, PTL

(* NoOrphans: a page that was left, whatever it was waiting for, holds no  *)
(* socket, opens none and beats for none.                                  *)
THEOREM PartyClientNoOrphans == Spec => []NoOrphans
  <1>1. ASSUME Inv PROVE NoOrphans
    <2>1. SUFFICES ASSUME NEW v \in Visits, eff[v].at \in {"opening", "open"}
                   PROVE  v = visit /\ shown
      BY DEF NoOrphans
    <2>2. QED
      BY <1>1, <2>1, OpenIsShown DEF Inv
  <1>2. QED
    BY <1>1, Invariance, PTL

(* PillIsTrue: "Ended" is shown only of a party whose row is closed, and   *)
(* "Live" only over an open socket or after a close the page was told of.  *)
THEOREM PartyClientPillIsTrue == Spec => []PillIsTrue
  <1>1. ASSUME Inv PROVE PillIsTrue
    BY <1>1 DEF Inv, Told, PillIsTrue, Ended
  <1>2. QED
    BY <1>1, Invariance, PTL

LEMMA DistinctCounts ==
    ASSUME NEW S, NEW s \in Seq(S), Distinct(s)
    PROVE  Cardinality(ToSet(s)) = Len(s)
  <1>1. Len(s) \in Nat
    OBVIOUS
  <1>2. s \in Bijection(1 .. Len(s), ToSet(s))
    BY DEF Distinct, ToSet, Bijection, Injection, Surjection, IsInjective
  <1>3. ExistsBijection(1 .. Len(s), ToSet(s))
    BY <1>2 DEF ExistsBijection
  <1>4. QED
    BY <1>1, <1>3, FS_CountingElements

(* ChatShowsRoom: the chat on screen has no message twice, and once all    *)
(* that was sent has been read it has the backlog's messages but for the   *)
(* lost ones, or as many as it keeps.                                      *)
THEOREM PartyClientChatShowsRoom == Spec => []ChatShowsRoom
  <1>1. ASSUME Inv PROVE ChatShowsRoom
    <2>1. Types /\ Distinct(snap.chat) /\ Complete
      BY <1>1 DEF Inv, NothingTwice, Covered
    <2>2. snap.chat \in Seq(Ids)
      BY <2>1 DEF Types, Snapshots, Lines
    <2>3. Cardinality(ToSet(snap.chat)) = Len(snap.chat)
      BY <2>1, <2>2, DistinctCounts
    <2>4. ASSUME Settled
          PROVE  Len(snap.chat) = ChatCap \/ ToSet(backlog) \ missed \subseteq ToSet(snap.chat)
      <3>1. ShowsAll(Needed, snap.chat, sock[visit].out) /\ sock[visit].out = <<>>
        BY <2>1, <2>4 DEF Settled, Complete
      <3>2. ~StateComes(Needed, <<>>) /\ \A x : ~ComesIn(x, <<>>, 0)
        BY DEF StateComes, ComesIn
      <3>3. Len(snap.chat) = ChatCap \/ Needed \subseteq ToSet(snap.chat)
        BY <3>1, <3>2 DEF ShowsAll, StateRead
      <3>4. Publishing = {}
        BY <2>4 DEF Settled, Idle, Publishing
      <3>5. QED
        BY <3>3, <3>4 DEF Needed
    <2>5. QED
      BY <2>3, <2>4 DEF ChatShowsRoom
  <1>2. QED
    BY <1>1, Invariance, PTL
=============================================================================
