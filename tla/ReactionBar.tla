---------------------------- MODULE ReactionBar ----------------------------
(***************************************************************************)
(* The reactions below a comment (components/discussions/comment-item.tsx):*)
(* a press bursts at once and is sent, an answer has the thread read       *)
(* again, and the stream's counts are merged meanwhile                     *)
(* (applyReaction of lib/hooks/use-thread-events.ts).                      *)
(***************************************************************************)
EXTENDS Integers, Sequences, FiniteSets

CONSTANTS
    Emoji,      \* the reactions there are
    Crowd,      \* other people who may react with each (how many)
    MaxTaps,    \* presses (bound)
    MaxCrowd,   \* reactions of others (bound)
    MaxMishaps  \* calls and reads that fail, or whose answer is lost (bound)

(* What is assumed of them.                                                *)
ReactionAssumption ==
    Crowd \in Nat /\ MaxTaps \in Nat /\ MaxCrowd \in Nat /\ MaxMishaps \in Nat

VARIABLES
    mine,       \* the viewer's reactions, as stored
    others,     \* how many others reacted with each
    shown,      \* the comment in the query cache: each one's count, and mine
    reading,    \* the thread's read: none, asked, or what it was served, and
                \* whether a frame was merged, or a call failed, since
    counted,    \* counts taken and not published yet: [emoji, count, of, late],
                \* of whose press (0 is another's), and whether a newer one was
                \* published before it
    frames,     \* counts published and not delivered yet, in order
    calls,      \* presses in flight: [no, emoji, on, sure, is]
    burst,      \* what plays, and where: at the chip or at the picker
    stale,      \* history: since the last good read the cache took a read that
                \* was older than a frame, or a count older than another, a
                \* count of 0 dropped the viewer's mark, or a call or a read
                \* failed
    wasted,     \* history: a press on a settled bar, the only one in flight,
                \* changed nothing
    taps, crowd, mishaps

stored == <<mine, others>>
screen == <<shown, burst>>
stream == <<counted, frames>>
barVars == <<stored, screen, reading, stream, calls, stale, wasted, taps, crowd, mishaps>>

NoRead == [is |-> "none"]
AskRead == [is |-> "asked"]
NoBurst == [is |-> "none"]
One(b) == IF b THEN 1 ELSE 0
CountFor(e) == others[e] + One(e \in mine)
Reactions == [e \in Emoji |-> [count |-> CountFor(e), mine |-> e \in mine]]
Overtaken == IF reading.is = "served" THEN [reading EXCEPT !.late = TRUE] ELSE reading
Settled == calls = {} /\ reading = NoRead /\ stream = <<<<>>, <<>>>> /\ ~stale

Init ==
    /\ mine \in SUBSET Emoji /\ others \in [Emoji -> 0 .. Crowd]
    /\ shown = Reactions /\ reading = NoRead /\ counted = <<>> /\ frames = <<>> /\ calls = {}
    /\ burst = NoBurst /\ stale = FALSE /\ wasted = FALSE
    /\ taps = 0 /\ crowd = 0 /\ mishaps = 0

-----------------------------------------------------------------------------
(* Presses.                                                                *)

Chips == {e \in Emoji : shown[e].count > 0}

React(e, on, at) ==
    /\ taps < MaxTaps /\ taps' = taps + 1
    /\ burst' = IF on THEN [is |-> "playing", emoji |-> e, at |-> at] ELSE burst
    /\ calls' = {[c EXCEPT !.sure = FALSE] : c \in calls} \cup
         {[no |-> taps', emoji |-> e, on |-> on, sure |-> Settled /\ on # shown[e].mine,
           is |-> "sent"]}
    /\ UNCHANGED <<stored, shown, reading, stream, stale, wasted, crowd, mishaps>>

(* A chip's press takes back what the chip shows as the viewer's.          *)
PressChip == \E e \in Chips : React(e, ~shown[e].mine, "chip")

(* The picker's always reacts; it bursts itself while there is no chip.    *)
Pick == \E e \in Emoji : React(e, TRUE, IF e \in Chips THEN "chip" ELSE "picker")

BurstEnds ==
    /\ burst # NoBurst /\ burst' = NoBurst
    /\ UNCHANGED <<stored, shown, reading, stream, calls, stale, wasted, taps, crowd, mishaps>>

(* The server sets or clears, whichever it was, and takes the new count.   *)
Counted(e, no) ==
    counted' = Append(counted, [emoji |-> e, count |-> CountFor(e)', of |-> no, late |-> FALSE])

ServeReact ==
    /\ UNCHANGED others
    /\ \E c \in calls :
         /\ c.is = "sent" /\ calls' = (calls \ {c}) \cup {[c EXCEPT !.is = "counted"]}
         /\ mine' = IF c.on THEN mine \cup {c.emoji} ELSE mine \ {c.emoji}
         /\ Counted(c.emoji, c.no)
         /\ wasted' = (wasted \/ (c.sure /\ mine' = mine))
    /\ UNCHANGED <<frames, screen, reading, stale, taps, crowd, mishaps>>

(* Each handler publishes its count, and then answers: of two, either may  *)
(* be first.                                                               *)
Publish ==
    /\ \E i \in DOMAIN counted :
         /\ frames' = Append(frames, counted[i])
         /\ counted' = [j \in 1 .. Len(counted) - 1 |->
                          IF j < i THEN [counted[j] EXCEPT !.late = TRUE] ELSE counted[j + 1]]
         /\ calls' = {IF c.no = counted[i].of /\ c.is = "counted" THEN [c EXCEPT !.is = "ok"]
                      ELSE c : c \in calls}
    /\ UNCHANGED <<stored, screen, reading, stale, wasted, taps, crowd, mishaps>>

(* An answer has the thread read again, from the start if it is being      *)
(* read; a refusal does not.                                               *)
Answered ==
    /\ \E c \in calls :
         /\ c.is \in {"ok", "failed"} /\ calls' = calls \ {c}
         /\ reading' = IF c.is = "ok" THEN AskRead ELSE reading
    /\ UNCHANGED <<stored, screen, stream, stale, wasted, taps, crowd, mishaps>>

CallFails ==
    /\ mishaps < MaxMishaps /\ mishaps' = mishaps + 1
    /\ \E c \in calls : c.is # "failed" /\ calls' = (calls \ {c}) \cup {[c EXCEPT !.is = "failed"]}
    /\ stale' = TRUE /\ reading' = Overtaken
    /\ UNCHANGED <<stored, screen, stream, wasted, taps, crowd>>

-----------------------------------------------------------------------------
(* The query and the stream.                                               *)

ServeRead ==
    /\ reading = AskRead /\ reading' = [is |-> "served", got |-> Reactions, late |-> FALSE]
    /\ UNCHANGED <<stored, screen, stream, calls, stale, wasted, taps, crowd, mishaps>>

ReadArrives ==
    /\ reading.is = "served" /\ shown' = reading.got /\ reading' = NoRead
    /\ stale' = reading.late
    /\ UNCHANGED <<stored, burst, stream, calls, wasted, taps, crowd, mishaps>>

ReadFails ==
    /\ reading # NoRead /\ mishaps < MaxMishaps /\ mishaps' = mishaps + 1
    /\ reading' = NoRead /\ stale' = TRUE
    /\ UNCHANGED <<stored, screen, stream, calls, wasted, taps, crowd>>

OthersReact ==
    /\ crowd < MaxCrowd /\ crowd' = crowd + 1 /\ UNCHANGED mine
    /\ \E e \in Emoji :
         /\ others' \in {[others EXCEPT ![e] = n] : n \in {others[e] - 1, others[e] + 1}}
         /\ others'[e] \in 0 .. Crowd
         /\ Counted(e, 0)
    /\ UNCHANGED <<frames, screen, reading, calls, stale, wasted, taps, mishaps>>

(* A fault ThreadHonest must notice: a frame, which names nobody, takes    *)
(* the viewer's mark away.                                                 *)
MergedUnmarked(r, n) == [count |-> n, mine |-> FALSE]

(* A count of 0 drops the chip, and its mark with it.                      *)
Merged(r, n) == [count |-> n, mine |-> r.mine /\ n > 0]

Deliver ==
    /\ frames # <<>> /\ frames' = Tail(frames)
    /\ shown' = [shown EXCEPT ![Head(frames).emoji] = Merged(@, Head(frames).count)]
    /\ reading' = Overtaken
    /\ stale' = (stale \/ Head(frames).late
                   \/ (Head(frames).count = 0 /\ shown[Head(frames).emoji].mine))
    /\ UNCHANGED <<stored, burst, counted, calls, wasted, taps, crowd, mishaps>>

Next == PressChip \/ Pick \/ BurstEnds \/ ServeReact \/ Publish \/ Answered \/ CallFails
          \/ ServeRead \/ ReadArrives \/ ReadFails \/ OthersReact \/ Deliver

Spec == Init /\ [][Next]_barVars

-----------------------------------------------------------------------------
(* Every variable has its type.                                            *)
TypeOK ==
    /\ mine \subseteq Emoji /\ others \in [Emoji -> 0 .. Crowd]
    /\ shown \in [Emoji -> [count : 0 .. Crowd + 1, mine : BOOLEAN]]
    /\ reading.is \in {"none", "asked", "served"} /\ Len(frames) + Len(counted) <= MaxTaps + MaxCrowd
    /\ \A c \in calls : c.emoji \in Emoji /\ c.is \in {"sent", "counted", "ok", "failed"}
    /\ burst = NoBurst \/ burst.at \in {"chip", "picker"}
    /\ stale \in BOOLEAN /\ wasted \in BOOLEAN
    /\ taps <= MaxTaps /\ crowd <= MaxCrowd /\ mishaps <= MaxMishaps

(* Once nothing is in flight the bar shows the reactions as they are       *)
(* stored, unless a call or a read failed, the stream overtook a read, two *)
(* counts were published the other way round, or a count of 0, sent before *)
(* the viewer reacted, took the mark away (the next count brings the chip  *)
(* back without it); a single press on a settled bar is never for nothing; *)
(* and what is marked as the viewer's is there to be pressed.              *)
BarIsHonest ==
    /\ Settled => shown = Reactions
    /\ ~wasted
    /\ \A e \in Emoji : shown[e].mine => e \in Chips

(* What the variables hold, in full.                                       *)
Bar == [Emoji -> [count : 0 .. Crowd + 1, mine : BOOLEAN]]
Count == [emoji : Emoji, count : 0 .. Crowd + 1, of : Nat, late : BOOLEAN]
Call == [no : Nat, emoji : Emoji, on : BOOLEAN, sure : BOOLEAN,
         is : {"sent", "counted", "ok", "failed"}]
BarTypes ==
    /\ mine \subseteq Emoji /\ others \in [Emoji -> 0 .. Crowd] /\ shown \in Bar
    /\ reading \in {NoRead, AskRead} \cup [is : {"served"}, got : Bar, late : BOOLEAN]
    /\ counted \in Seq(Count) /\ frames \in Seq(Count) /\ \A c \in calls : c \in Call
    /\ burst = NoBurst \/ burst.at \in {"chip", "picker"}
    /\ stale \in BOOLEAN /\ wasted \in BOOLEAN
    /\ taps \in 0 .. MaxTaps /\ crowd \in 0 .. MaxCrowd /\ mishaps \in 0 .. MaxMishaps

(* A press has a number of its own, and there is one count at most for     *)
(* each press and each reaction of another.                                *)
Sent == {c.no : c \in {c \in calls : c.is = "sent"}}
Numbered ==
    /\ \A c \in calls : c.no \in 1 .. taps
    /\ \A c, d \in calls : c.no = d.no => c = d
CountsBound == Len(frames) + Len(counted) + Cardinality(Sent) <= taps + crowd

(* The count that will be shown last is the one that is stored, or every   *)
(* count still to come is late; and what was read shows the stored count,  *)
(* or that one is to come, and the viewer's mark, or the press is under    *)
(* way.                                                                    *)
LateAfter(s, k, e) == \A l \in DOMAIN s : l > k /\ s[l].emoji = e => s[l].late
RightAt(s, k, e) == s[k].emoji = e /\ s[k].count = CountFor(e) /\ LateAfter(s, k, e)
RightToCome(e) ==
    \/ \E k \in DOMAIN counted : RightAt(counted, k, e)
    \/ LateAfter(counted, 0, e) /\ \E k \in DOMAIN frames : RightAt(frames, k, e)
AllLate(e) == LateAfter(counted, 0, e) /\ LateAfter(frames, 0, e)
UnderWay(e) == \E c \in calls : c.emoji = e /\ c.is \in {"counted", "ok"}
CountsUp(r) == \A e \in Emoji : RightToCome(e) \/ r[e].count = CountFor(e)
MarksUp(r) == \A e \in Emoji : UnderWay(e) \/ r[e].mine = (e \in mine)
Pressable(r) == \A e \in Emoji : r[e].mine => r[e].count > 0

CountsCome == \A e \in Emoji : RightToCome(e) \/ AllLate(e)
ReadIsGood ==
    reading.is = "served" =>
        /\ Pressable(reading.got)
        /\ ~reading.late => CountsUp(reading.got) /\ MarksUp(reading.got)
ShownIsGood ==
    /\ Pressable(shown)
    /\ ~stale => CountsUp(shown) /\ (reading = NoRead => MarksUp(shown))
NoPressWasted ==
    /\ ~wasted
    /\ \A c \in calls : c.sure => calls = {c} /\ (c.is = "sent" => c.on # (c.emoji \in mine))
BarInv ==
    /\ BarTypes /\ Numbered /\ CountsBound
    /\ CountsCome /\ ReadIsGood /\ ShownIsGood /\ NoPressWasted
=============================================================================
