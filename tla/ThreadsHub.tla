----------------------------- MODULE ThreadsHub -----------------------------
(***************************************************************************)
(* The rooms hub (app/threads on lib/threads-hub.ts): the trending rooms   *)
(* ranked, tonight's rooms, and one row per show of the viewer's list,     *)
(* under a sort and a filter that work in every view.  What the server     *)
(* rendered stays as it was; the list is read by the tab.                  *)
(***************************************************************************)
EXTENDS Integers, Sequences, FiniteSets, SequencesExt

CONSTANTS
    Shows,          \* anime
    Rooms,          \* threads: the odd ones an episode's, the others a board's
    Podium,         \* rooms drawn as big tiles
    MaxEdits        \* changes of the list and of the session (bound)

(* What is assumed of them.                                                *)
HubAssumption == /\ Shows \subseteq Nat /\ Rooms \subseteq Nat
                 /\ Podium \in Nat /\ MaxEdits \in Nat

VARIABLES
    trending,   \* the rooms the API ranked, hottest first
    present,    \* rooms someone is in when the page is rendered
    spoken,     \* rooms with recent comments
    tonight,    \* shows with an episode tonight
    entries,    \* the viewer's list: each show's status, or "none"
    list,       \* the tab's read of it: has, data
    session,    \* "loading", "authed" or "anon"
    view,       \* "mine", or "rooms": the three views anyone has
    late,       \* history: the list changed since it was read
    edits       \* edits so far

hubVars == <<trending, present, spoken, tonight, entries, list, session, view, late, edits>>

Statuses == <<"watching", "completed", "dropped">>
Rank(status) == CHOOSE k \in 1 .. Len(Statuses) : Statuses[k] = status
NoList == [s \in Shows |-> "none"]

(* A show has an episode's room and a board, and two shows may be worlds   *)
(* apart: rooms 1 and 2 are of show 1, room 3 is of show 2.                *)
ShowOf(r) == (r + 1) \div 2
Series(r) == r % 2 = 0
Recent(r) == IF r \in spoken THEN 11 ELSE 0
Presence(r) == IF r \in present THEN 1 ELSE 0
CommentCount(r) == Recent(r) + (IF r = 1 THEN 5 ELSE 0)

Init ==
    /\ \E S \in SUBSET Rooms : trending \in SetToSeqs(S)
    /\ present \in SUBSET ToSet(trending) /\ spoken \in SUBSET ToSet(trending)
    /\ tonight \in SUBSET Shows
    /\ \E kept \in SUBSET Shows, status \in ToSet(Statuses) :
         entries = [s \in Shows |-> IF s \notin kept THEN "none"
                                    ELSE IF s = 1 THEN status ELSE "watching"]
    /\ list = [has |-> FALSE, data |-> NoList]
    /\ session = "loading" /\ view = "rooms" /\ late = FALSE /\ edits = 0

-----------------------------------------------------------------------------
(* buildRooms: no room with nothing said and nobody in it.                 *)
Hot == SelectSeq(trending, LAMBDA r : CommentCount(r) > 0 \/ Presence(r) > 0)

(* sortRooms: rooms that compare equal keep the order they are in.         *)
Place(seq, r) == CHOOSE k \in 1 .. Len(seq) : seq[k] = r
SortRooms(seq, sort) ==
    LET Key(r) == CASE sort = "comments" -> CommentCount(r) [] OTHER -> r
    IN  IF sort = "hot" THEN seq
        ELSE SortSeq(seq, LAMBDA a, b : \/ Key(a) > Key(b)
                                        \/ Key(a) = Key(b) /\ Place(seq, a) < Place(seq, b))

FilterRooms(seq, shows) == SelectSeq(seq, LAMBDA r : ShowOf(r) \in shows)

(* What a tile or a row says of its room, and the header of them all.      *)
RoomMeta(r) == [comments |-> CommentCount(r), recent |-> Recent(r), present |-> Presence(r)]
HubStats ==
    FoldLeft(LAMBDA acc, r : [rooms |-> acc.rooms + 1,
                              present |-> acc.present + RoomMeta(r).present,
                              recent |-> acc.recent + RoomMeta(r).recent],
             [rooms |-> 0, present |-> 0, recent |-> 0], Hot)

(* A fault HubIsHonest must notice: the rows under the podium count from   *)
(* one again.                                                              *)
RankInRows(seq, podium) ==
    [k \in 1 .. Len(seq) |-> IF k <= podium THEN k ELSE k - podium]

(* RankedRooms: a podium, then rows, ranked through.                       *)
RankedRooms(seq, podium) ==
    [k \in 1 .. Len(seq) |-> IF k <= podium THEN k ELSE podium + (k - podium)]

(* tonightRooms, as much of them as a row needs, and the show's hottest    *)
(* room: the first the API ranked.                                         *)
NoRoom == 0
Hottest(s) == LET mine == FilterRooms(Hot, {s}) IN IF mine = <<>> THEN NoRoom ELSE Head(mine)

Row(data, s) ==
    [show |-> s, status |-> data[s], room |-> Hottest(s), tonight |-> s \in tonight,
     leads |-> IF Hottest(s) # NoRoom THEN "room"
               ELSE IF s \in tonight THEN "tonight" ELSE "board"]
Heat(row) == IF row.room = NoRoom THEN 0 ELSE 10 * Presence(row.room) + Recent(row.room)
Before(a, b) ==
    \/ Heat(a) > Heat(b)
    \/ Heat(a) = Heat(b) /\ a.tonight /\ ~b.tonight
    \/ Heat(a) = Heat(b) /\ a.tonight = b.tonight /\ Rank(a.status) < Rank(b.status)
MyRooms(data) ==
    LET rows == {Row(data, s) : s \in {t \in Shows : data[t] \notin {"none", "dropped"}}}
    IN  SetToSortSeq(rows, LAMBDA a, b : Before(a, b) \/ (~Before(b, a) /\ a.show < b.show))

-----------------------------------------------------------------------------
Views == {"rooms"} \cup (IF session = "authed" THEN {"mine"} ELSE {})

OpenView ==
    /\ view' \in Views \ {view}
    /\ UNCHANGED <<trending, present, spoken, tonight, entries, list, session, late, edits>>

(* A session that ends leaves the view, and the list, as they are.         *)
SessionChanges ==
    /\ \/ session = "loading" /\ session' \in {"authed", "anon"} /\ UNCHANGED edits
       \/ session = "authed" /\ session' = "anon" /\ edits < MaxEdits /\ edits' = edits + 1
    /\ UNCHANGED <<trending, present, spoken, tonight, entries, list, view, late>>

ReadList ==
    /\ session = "authed" /\ list' = [has |-> TRUE, data |-> entries] /\ late' = FALSE
    /\ UNCHANGED <<trending, present, spoken, tonight, entries, session, view, edits>>

EditElsewhere ==
    /\ edits < MaxEdits /\ edits' = edits + 1 /\ late' = TRUE
    /\ \E s \in Shows : entries[s] \notin {"none", "dropped"} /\ entries' = [entries EXCEPT ![s] = "dropped"]
    /\ UNCHANGED <<trending, present, spoken, tonight, list, session, view>>

Next == OpenView \/ SessionChanges \/ ReadList \/ EditElsewhere

Spec == Init /\ [][Next]_hubVars

-----------------------------------------------------------------------------
(* Every variable has its type.                                            *)
TypeOK ==
    /\ ToSet(trending) \subseteq Rooms /\ present \cup spoken \subseteq Rooms
    /\ tonight \subseteq Shows /\ view \in {"rooms", "mine"}
    /\ list.data \in [Shows -> ToSet(Statuses) \cup {"none"}]

(* Whatever the sort and the filter, a view shows each room they ask for   *)
(* once, in the order asked for, ranked from one without a gap; the header *)
(* counts what the view holds.                                             *)
ViewsLoseNothing ==
    /\ \A sort \in {"hot", "comments", "latest"}, shows \in SUBSET Shows, podium \in {0, Podium} :
         LET seq == FilterRooms(SortRooms(Hot, sort), shows)
         IN  /\ ToSet(seq) = {r \in ToSet(Hot) : ShowOf(r) \in shows} /\ IsInjective(seq)
             /\ RankedRooms(seq, podium) = [k \in 1 .. Len(seq) |-> k]
             /\ sort # "hot" => \A k \in 1 .. Len(seq) - 1 :
                  IF sort = "latest" THEN seq[k] > seq[k + 1]
                  ELSE CommentCount(seq[k]) >= CommentCount(seq[k + 1])
    /\ HubStats.present = Cardinality(present) /\ HubStats.recent = 11 * Cardinality(spoken)

(* "My shows" has one row for each show kept on the list that was read,    *)
(* before every row that is less hot, and each leads to a room that lives  *)
(* if its show has one.                                                    *)
MyShowsAreMine ==
    LET rows == MyRooms(list.data)
        shows == {rows[k].show : k \in 1 .. Len(rows)}
    IN  /\ shows = {s \in Shows : list.data[s] \in {"watching", "completed"}}
        /\ Len(rows) = Cardinality(shows)
        /\ \A k \in 1 .. Len(rows) :
             rows[k].leads = "room" <=> \E r \in ToSet(Hot) : ShowOf(r) = rows[k].show
        /\ \A i, j \in 1 .. Len(rows) : i < j => ~Before(rows[j], rows[i])

(* The views lose nothing (what the server rendered never changes: it is   *)
(* looked at once), the viewer's rows are those of the list, and nobody    *)
(* who was never signed in sees any.                                       *)
HubIsHonest ==
    /\ session = "loading" => ViewsLoseNothing
    /\ list.has => MyShowsAreMine
    /\ list.has /\ ~late => list.data = entries
    /\ view = "mine" => session = "authed" \/ edits > 0
=============================================================================
