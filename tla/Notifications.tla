--------------------------- MODULE Notifications ---------------------------
(***************************************************************************)
(* The bell with its panel and the notifications page, in one tab          *)
(* (bell.tsx, notifications-client.tsx).  The badge counts and a list      *)
(* shows, each from a cached query: the panel or the page.  Marking goes   *)
(* to the API and has all of them read again.  The panel's filters and the *)
(* page's older notifications, further queries of the same kind, are left  *)
(* out.                                                                    *)
(***************************************************************************)
EXTENDS Naturals, Sequences, FiniteSets

CONSTANTS
    PanelLimit,     \* notifications the panel shows
    MaxNotes,       \* notifications received (bound)
    MaxMarks,       \* marks sent (bound)
    MaxLosses       \* calls that fail (bound)

(* What is assumed of them.                                                *)
NotificationsAssumption ==
    PanelLimit \in Nat \ {0} /\ MaxNotes \in Nat /\ MaxMarks \in Nat /\ MaxLosses \in Nat

VARIABLES
    notes,      \* notifications, oldest first: whether each is read
    query,      \* the tab's queries: the badge's and the list's
    surface,    \* the list: the "panel" or the "page"
    shown,      \* it is on screen
    marks,      \* marks in flight
    drawn,      \* history: notifications ever on screen
    swept,      \* history: notifications read without having been
    doubt,      \* history: one arrived since the badge was asked; a mark's
                \* answer was lost; a mark crossed the read of a list that
                \* had left the screen
    marked,     \* marks sent so far
    losses      \* calls that failed so far

notificationVars == <<notes, query, surface, shown, marks, drawn, swept, doubt, marked, losses>>

Surfaces == {"panel", "page"}
Queries == {"badge", "list"}
Notes == 1 .. Len(notes)
Unread == {n \in Notes : ~notes[n]}

(* What a query has and what was served to it: the notifications it shows, *)
(* or counts, and those of them that are read.                             *)
Nothing == [ids |-> {}, read |-> {}]
NoQuery == [has |-> FALSE, data |-> Nothing, at |-> "none", answer |-> Nothing, stale |-> FALSE]
Ask(q) == [q EXCEPT !.at = IF @ = "none" THEN "asked" ELSE @]
Again(q) == [q EXCEPT !.at = "asked", !.answer = Nothing]

(* The panel has the newest few, the page has them all.                    *)
Topmost(S) == {n \in S : Cardinality({m \in S : m > n}) < PanelLimit}
Answer(name) ==
    LET ids == CASE name = "badge" -> Unread
                 [] name = "list" /\ surface = "panel" -> Topmost(Notes)
                 [] OTHER -> Notes
    IN  [ids |-> ids, read |-> ids \ Unread]

Active(name) == name = "badge" \/ shown

Init ==
    /\ notes = <<FALSE>>
    /\ query = [q \in Queries |-> IF q = "badge" THEN Ask(NoQuery) ELSE NoQuery]
    /\ surface = "panel" /\ shown = FALSE /\ marks = {}
    /\ drawn = {} /\ swept = {} /\ marked = 0 /\ losses = 0
    /\ doubt = [late |-> FALSE, lost |-> FALSE, crossed |-> FALSE]

-----------------------------------------------------------------------------
(* A list comes on screen: the other one than the last, whose own query    *)
(* is forgotten here (bound), or the last one, which is drawn at once and  *)
(* read again unless it is fresh.                                          *)
Show ==
    /\ shown' = TRUE
    /\ \/ ~shown /\ UNCHANGED surface /\ drawn' = drawn \cup query["list"].data.ids
          /\ \/ query' = [query EXCEPT !["list"] = Ask(@)]
             \/ query["list"].has /\ ~query["list"].stale /\ UNCHANGED query
       \/ surface' \in Surfaces \ {surface} /\ UNCHANGED drawn
          /\ query' = [query EXCEPT !["list"] = Ask(NoQuery)]
    /\ UNCHANGED <<notes, marks, swept, doubt, marked, losses>>

Hide ==
    /\ shown /\ shown' = FALSE
    /\ UNCHANGED <<notes, query, surface, marks, drawn, swept, doubt, marked, losses>>

(* The badge's poll, every minute and when the tab is looked at.           *)
Poll ==
    /\ query["badge"].at = "none" /\ query' = [query EXCEPT !["badge"] = Ask(@)]
    /\ UNCHANGED <<notes, surface, shown, marks, drawn, swept, doubt, marked, losses>>

Serve(name) ==
    /\ query[name].at = "asked"
    /\ query' = [query EXCEPT ![name].at = "served", ![name].answer = Answer(name)]
    /\ doubt' = [doubt EXCEPT !.late = @ /\ name # "badge"]
    /\ UNCHANGED <<notes, surface, shown, marks, drawn, swept, marked, losses>>

(* An answer also clears an invalidation it is older than.                 *)
Arrive(name) ==
    /\ query[name].at = "served"
    /\ query' = [query EXCEPT ![name] = [NoQuery EXCEPT !.has = TRUE, !.data = query[name].answer]]
    /\ drawn' = IF name = "list" /\ shown THEN drawn \cup query[name].answer.ids ELSE drawn
    /\ UNCHANGED <<notes, surface, shown, marks, swept, doubt, marked, losses>>

Notify ==
    /\ Len(notes) < MaxNotes /\ notes' = Append(notes, FALSE)
    /\ doubt' = [doubt EXCEPT !.late = TRUE]
    /\ UNCHANGED <<query, surface, shown, marks, drawn, swept, marked, losses>>

-----------------------------------------------------------------------------
(* Marking.  A button that marks all is dead while its mark is in flight.  *)
Send(ids) ==
    /\ marked < MaxMarks /\ marked' = marked + 1
    /\ marks' = marks \cup {[id |-> marked, ids |-> ids, at |-> "sent"]}

(* Opening a notification marks it and leaves for what it is about.        *)
Follow ==
    /\ shown /\ shown' = FALSE
    /\ \E n \in query["list"].data.ids \ query["list"].data.read : Send({n})
    /\ UNCHANGED <<notes, query, surface, drawn, swept, doubt, losses>>

(* The panel's button is there while the badge counts something, the       *)
(* page's while it shows something unread.                                 *)
MarkAll ==
    /\ shown /\ (\A m \in marks : m.ids # {}) /\ Send({})
    /\ IF surface = "page" THEN query["list"].data.read # query["list"].data.ids
       ELSE query["badge"].data.ids # {}
    /\ UNCHANGED <<notes, query, surface, shown, drawn, swept, doubt, losses>>

(* All means all the API has by then.                                      *)
ServeMark(m) ==
    LET now == IF m.ids = {} THEN Unread ELSE m.ids
    IN  /\ m.at = "sent" /\ marks' = (marks \ {m}) \cup {[m EXCEPT !.at = "served"]}
        /\ notes' = [n \in Notes |-> notes[n] \/ n \in now]
        /\ swept' = IF m.ids = {} THEN swept \cup (now \ drawn) ELSE swept
        /\ UNCHANGED <<query, surface, shown, drawn, doubt, marked, losses>>

(* A fault BellIsHonest must notice: the badge is not read again.          *)
InvalidateList ==
    query' = [query EXCEPT !["list"] = IF shown THEN Again(@) ELSE [@ EXCEPT !.stale = TRUE]]

(* invalidateQueries(["notifications"]): what is on screen is read again,  *)
(* anew; the rest when it next is.                                         *)
Invalidate ==
    query' = [name \in Queries |-> IF Active(name) THEN Again(query[name])
                                   ELSE [query[name] EXCEPT !.stale = TRUE]]

(* The answer, whatever it says: a refusal counts as a success here.       *)
MarkArrives(m) ==
    /\ \/ m.at = "served" /\ UNCHANGED losses
       \/ m.at = "sent" /\ losses < MaxLosses /\ losses' = losses + 1
    /\ marks' = marks \ {m} /\ Invalidate
    /\ doubt' = [doubt EXCEPT !.crossed = @ \/ (~shown /\ query["list"].at # "none")]
    /\ UNCHANGED <<notes, surface, shown, drawn, swept, marked>>

(* A lost connection, for a mark or for a read, which keeps what it had.   *)
CallFails ==
    /\ losses < MaxLosses /\ losses' = losses + 1
    /\ doubt' = [doubt EXCEPT !.lost = TRUE]
    /\ \/ \E m \in marks : marks' = marks \ {m} /\ UNCHANGED query
       \/ \E name \in Queries :
            /\ query[name].at # "none" /\ UNCHANGED marks
            /\ query' = [query EXCEPT ![name].at = "none", ![name].answer = Nothing]
    /\ UNCHANGED <<notes, surface, shown, drawn, swept, marked>>

Next ==
    \/ Notify \/ Show \/ Hide \/ Poll \/ Follow \/ MarkAll \/ CallFails
    \/ \E name \in Queries : Serve(name) \/ Arrive(name)
    \/ \E m \in marks : ServeMark(m) \/ MarkArrives(m)

Spec == Init /\ [][Next]_notificationVars

-----------------------------------------------------------------------------
(* Every variable has its type.                                            *)
TypeOK ==
    /\ notes \in Seq(BOOLEAN)
    /\ \A q \in Queries : query[q].data.ids \subseteq Notes /\ query[q].at \in {"none", "asked", "served"}
    /\ surface \in Surfaces /\ drawn \subseteq Notes /\ swept \subseteq Notes

(* With nothing in flight the badge counts exactly what is unread, unless  *)
(* something arrived since it was read or a call was lost, and no dot is   *)
(* drawn on what was read, unless a mark crossed the read of a list that   *)
(* was off screen.  Nothing is read that was not on screen, unless all of  *)
(* it was marked.                                                          *)
BellIsHonest ==
    /\ marks = {} /\ query["badge"].at = "none" /\ query["badge"].has /\ ~doubt.late /\ ~doubt.lost =>
         query["badge"].data.ids = Unread
    /\ marks = {} /\ shown /\ query["list"].at = "none" /\ ~doubt.lost /\ ~doubt.crossed =>
         query["list"].data.read = query["list"].data.ids \ Unread
    /\ Notes \ Unread \subseteq drawn \cup swept

(* What the tab's queries, the marks and the histories may hold.           *)
Served == [ids : SUBSET Notes, read : SUBSET Notes]
AnyQuery == [has : BOOLEAN, data : Served, at : {"none", "asked", "served"}, answer : Served,
             stale : BOOLEAN]
AnyMark == [id : Nat, ids : SUBSET Notes, at : {"sent", "served"}]
BellTypes ==
    /\ notes \in Seq(BOOLEAN) /\ query \in [Queries -> AnyQuery]
    /\ surface \in Surfaces /\ shown \in BOOLEAN /\ marks \subseteq AnyMark
    /\ drawn \subseteq Notes /\ swept \subseteq Notes
    /\ doubt \in [late : BOOLEAN, lost : BOOLEAN, crossed : BOOLEAN]
    /\ marked \in Nat /\ losses \in Nat

(* No mark was served whose answer is yet to come, or was lost.            *)
NothingPending == ~doubt.lost /\ \A m \in marks : m.at # "served"

(* Then the badge, if nothing arrived since it was asked, counts what is   *)
(* unread; and the list, unless it is to be read again, shows as read what *)
(* is.                                                                     *)
BadgeIsUnread ==
    NothingPending /\ ~doubt.late =>
      LET q == query["badge"]
      IN  /\ q.at = "none" /\ q.has => q.data.ids = Unread
          /\ q.at = "served" => q.answer.ids = Unread
ListIsFresh ==
    NothingPending /\ ~doubt.crossed =>
      LET q == query["list"]
      IN  /\ q.at = "none" /\ (shown \/ (q.has /\ ~q.stale)) => q.data.read = q.data.ids \ Unread
          /\ q.at = "served" => q.answer.read = q.answer.ids \ Unread

(* What is shown was drawn, and so was what is marked one by one; what is  *)
(* read was drawn, or swept.                                               *)
ReadWasDrawn ==
    /\ shown => query["list"].data.ids \subseteq drawn
    /\ \A m \in marks : m.ids \subseteq drawn
    /\ Notes \ Unread \subseteq drawn \cup swept

(* Together they make BellIsHonest inductive.                              *)
BellInv == BellTypes /\ BadgeIsUnread /\ ListIsFresh /\ ReadWasDrawn
=============================================================================
