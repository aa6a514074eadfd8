------------------------------ MODULE Evening ------------------------------
(***************************************************************************)
(* The signed-in home's evening (app/home/your-evening.tsx and             *)
(* evening-timeline.tsx on lib/home.ts): tonight's episodes of the shows   *)
(* being watched, in a rail and on a timeline, or else the week's.  The    *)
(* server renders the schedule, the tab reads the list, and the evening is *)
(* worked out when the list changes and kept while the clock goes on.      *)
(***************************************************************************)
EXTENDS Integers, Sequences, FiniteSets, SequencesExt

CONSTANTS
    Airings,        \* the schedule: show and hour
    Grace, Night,   \* hours of tonight behind and ahead of now
    WeekCap,        \* episodes shown of the week ahead
    Gap, MaxLanes,  \* hours between two marks of a lane, and the lanes
    MaxHours,       \* hours the page stays open (bound)
    MaxTroubles     \* changes of the list, failed reads (bound)

(* What is assumed of them.                                                *)
EveningAssumption ==
    /\ \A e \in Airings : e.show \in Nat /\ e.hour \in Int
    /\ {Grace, Night, WeekCap, Gap, MaxLanes, MaxHours, MaxTroubles} \subseteq Nat

VARIABLES
    schedule,   \* the episodes rendered with the page
    watching,   \* the shows the viewer is watching
    session,    \* "loading", "authed" or "anon"
    list,       \* the tab's read of them: "none", "asked", "served" or
                \* "failed", its answer, and what it has
    now,        \* the hour
    since,      \* the hour at which the evening was worked out
    anchor,     \* the hour the timeline is drawn at
    looked,     \* the marks a card is open for: none or one
    late,       \* history: the list may have changed since it was read
    troubles    \* troubles so far

eveningVars == <<schedule, watching, session, list, now, since, anchor, looked, late, troubles>>

AiringShows == {e.show : e \in Airings}
Earlier(a, b) == a.hour < b.hour \/ (a.hour = b.hour /\ a.show < b.show)

Init ==
    /\ schedule \in SUBSET Airings /\ watching \in SUBSET AiringShows
    /\ session = "loading" /\ list = [has |-> FALSE, ids |-> {}, at |-> "none", answer |-> {}]
    /\ now = 0 /\ since = 0 /\ anchor = 0 /\ looked = {}
    /\ late = FALSE /\ troubles = 0

-----------------------------------------------------------------------------
(* myTonight, and nextUpLater: past the night, the first few episodes, one *)
(* to a show.                                                              *)
InTonight(hour) == hour >= since - Grace /\ hour < since + Night

(* A fault EveningIsHonest must notice: the week starts after the hour at  *)
(* which tonight has ended.                                                *)
PastTonight(hour) == hour > since + Night

BeyondTonight(hour) == hour >= since + Night

Mine == {e \in schedule : e.show \in list.ids}
MyTonight == SetToSortSeq({e \in Mine : InTonight(e.hour)}, Earlier)
NextUpLater ==
    LET beyond == {e \in Mine : BeyondTonight(e.hour)}
        first == {e \in beyond : \A o \in beyond : o.show = e.show => ~Earlier(o, e)}
        all == SetToSortSeq(first, Earlier)
    IN  SubSeq(all, 1, IF Len(all) < WeekCap THEN Len(all) ELSE WeekCap)

(* timelineMarks: each takes the lowest lane whose last mark is a gap away,*)
(* else a lane of its own, else the lane that waited longest.              *)
Start == anchor - Grace
Span == Grace + Night
Lowest(S) == CHOOSE k \in S : \A o \in S : k <= o
LaneFor(lasts, at) ==
    LET clear == {k \in 1 .. Len(lasts) : at - lasts[k] >= Gap}
    IN  CASE clear # {} -> Lowest(clear)
          [] clear = {} /\ Len(lasts) < MaxLanes -> Len(lasts) + 1
          [] OTHER -> Lowest({k \in 1 .. Len(lasts) : \A o \in 1 .. Len(lasts) : lasts[k] <= lasts[o]})
PlaceMark(acc, e) ==
    LET lane == LaneFor(acc.lasts, e.hour - Start)
        at == e.hour - Start
    IN  [lasts |-> IF lane > Len(acc.lasts) THEN Append(acc.lasts, at)
                   ELSE [acc.lasts EXCEPT ![lane] = at],
         marks |-> Append(acc.marks, [entry |-> e, lane |-> lane,
                                      at |-> CASE at < 0 -> 0 [] at > Span -> Span
                                               [] OTHER -> at])]
TimelineMarks == FoldLeft(PlaceMark, [lasts |-> <<>>, marks |-> <<>>], MyTonight).marks
NowMark == Grace

(* The card over a mark, while the mark is there.                          *)
MarkPreview == {k \in 1 .. Len(TimelineMarks) : TimelineMarks[k].entry \in looked}

(* What YourEvening shows.  A first read that failed has no list, as if it *)
(* were empty.                                                             *)
Screen ==
    CASE session = "loading" -> "skeleton"
      [] session = "anon" -> "signedOut"
      [] session = "authed" /\ ~list.has /\ list.at # "failed" -> "skeleton"
      [] OTHER -> IF list.ids = {} THEN "unwritten"
                  ELSE IF MyTonight # <<>> THEN "tonight"
                  ELSE IF NextUpLater # <<>> THEN "week" ELSE "clear"

(* The headliner is live if it had aired by then.                          *)
Spotlight == [entry |-> Head(MyTonight), aired |-> Head(MyTonight).hour <= since]

-----------------------------------------------------------------------------
SessionSettles ==
    /\ session = "loading" /\ session' \in {"authed", "anon"}
    /\ UNCHANGED <<schedule, watching, list, now, since, anchor, looked, late, troubles>>

ReadList ==
    /\ session = "authed" /\ list.at \in {"none", "failed"} /\ list' = [list EXCEPT !.at = "asked"]
    /\ UNCHANGED <<schedule, watching, session, now, since, anchor, looked, late, troubles>>

ServeList ==
    /\ list.at = "asked" /\ list' = [list EXCEPT !.at = "served", !.answer = watching]
    /\ late' = FALSE
    /\ UNCHANGED <<schedule, watching, session, now, since, anchor, looked, troubles>>

(* The same shows again are the same list; other ones make another evening *)
(* of it.  The timeline takes its hour as it comes on screen.              *)
ListArrives ==
    /\ list.at = "served"
    /\ list' = [has |-> TRUE, ids |-> list.answer, at |-> "none", answer |-> {}]
    /\ since' = IF list.answer = list.ids THEN since ELSE now
    /\ anchor' = IF Screen = "tonight" THEN anchor ELSE now
    /\ UNCHANGED <<schedule, watching, session, now, looked, late, troubles>>

ReadFails ==
    /\ list.at \in {"asked", "served"} /\ troubles < MaxTroubles /\ troubles' = troubles + 1
    /\ list' = [list EXCEPT !.at = IF list.has THEN "none" ELSE "failed", !.answer = {}]
    /\ late' = TRUE
    /\ UNCHANGED <<schedule, watching, session, now, since, anchor, looked>>

ListChanges ==
    /\ troubles < MaxTroubles /\ troubles' = troubles + 1
    /\ \E s \in AiringShows : watching' = IF s \in watching THEN watching \ {s} ELSE watching \cup {s}
    /\ late' = TRUE
    /\ UNCHANGED <<schedule, session, list, now, since, anchor, looked>>

Pass ==
    /\ now < MaxHours /\ now' = now + 1
    /\ UNCHANGED <<schedule, watching, session, list, since, anchor, looked, late, troubles>>

(* The timeline's minute.                                                  *)
Anchor ==
    /\ Screen = "tonight" /\ anchor # now /\ anchor' = now
    /\ UNCHANGED <<schedule, watching, session, list, now, since, looked, late, troubles>>

(* The pointer and the focus come to a mark and leave it.                  *)
LookAt ==
    /\ Screen = "tonight" /\ looked = {}
    /\ looked' = {MyTonight[k] : k \in {Len(MyTonight)}}
    /\ UNCHANGED <<schedule, watching, session, list, now, since, anchor, late, troubles>>

LookAway ==
    /\ looked # {} /\ looked' = {}
    /\ UNCHANGED <<schedule, watching, session, list, now, since, anchor, late, troubles>>

Next ==
    \/ SessionSettles \/ ReadList \/ ServeList \/ ListArrives \/ ReadFails \/ ListChanges
    \/ Pass \/ Anchor \/ LookAt \/ LookAway

Spec == Init /\ [][Next]_eveningVars

-----------------------------------------------------------------------------
(* Every variable has its type.                                            *)
TypeOK ==
    /\ schedule \subseteq Airings /\ watching \subseteq AiringShows /\ list.ids \subseteq AiringShows
    /\ looked \subseteq Airings /\ {now, since, anchor} \subseteq 0 .. MaxHours

(* Nothing that airs within the week, from the last hour on, falls between *)
(* tonight and the week ahead: "clear" is said only when there is nothing, *)
(* and "unwritten" only of a list without shows, unless it could not be    *)
(* read or changed since.                                                  *)
NothingFallsBetween ==
    LET ahead == {e.show : e \in {x \in Mine : x.hour >= since - Grace}}
        shown == {e.show : e \in ToSet(MyTonight) \cup ToSet(NextUpLater)}
    IN  /\ ~late /\ list.at = "none" /\ Screen = "clear" =>
             \A e \in schedule : e.show \in watching => e.hour < since - Grace
        /\ Screen = "unwritten" /\ list.at = "none" /\ ~late => watching = {}
        /\ Len(NextUpLater) < WeekCap => shown = ahead

(* Every episode of tonight has its mark, where it falls; two marks of a   *)
(* lane are a gap apart unless every lane had one closer than that; an     *)
(* open card is its mark's, and the headliner is called live only after it *)
(* aired.                                                                  *)
MarksKeepTheirPlace ==
    LET marks == TimelineMarks
    IN  Screen = "tonight" =>
        /\ {marks[k].entry : k \in 1 .. Len(marks)} = ToSet(MyTonight)
        /\ \A k \in 1 .. Len(marks) :
             /\ marks[k].lane \in 1 .. MaxLanes
             /\ Gap <= Grace /\ Grace < Span
                  => (marks[k].at < NowMark <=> marks[k].entry.hour < anchor)
             /\ \A j \in 1 .. (k - 1) :
                  marks[j].lane = marks[k].lane /\ marks[k].entry.hour - marks[j].entry.hour < Gap
                    => \A lane \in 1 .. MaxLanes : \E i \in 1 .. (k - 1) :
                         /\ marks[i].lane = lane
                         /\ marks[k].entry.hour - marks[i].entry.hour < Gap
        /\ Cardinality(MarkPreview) <= 1
        /\ Spotlight.aired => Spotlight.entry.hour <= now

EveningIsHonest == NothingFallsBetween /\ MarksKeepTheirPlace
=============================================================================
