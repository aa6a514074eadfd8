---------------------------- MODULE Conversation ----------------------------
(***************************************************************************)
(* One conversation of direct messages (internal/social/messages.go), seen *)
(* from one of its two tabs: the bubbles, polled page by page, the         *)
(* composer, and the unread badge and inbox that reading them clears       *)
(* (app/messages/[username]/conversation-client.tsx, inbox-client.tsx,     *)
(* components/messages/inbox-badge.tsx).                                   *)
(***************************************************************************)
EXTENDS Naturals, FiniteSets, Sequences

CONSTANTS
    PageSize,   \* messages of a page
    MaxMsgs,    \* messages sent by the two (bound)
    MaxDrops    \* calls that fail (bound)

(* What is assumed of them.                                                *)
ConversationAssumption == PageSize \in Nat \ {0} /\ MaxMsgs \in Nat /\ MaxDrops \in Nat

VARIABLES
    sender,     \* dm_messages: who sent each, by id
    pointer,    \* last_read of the viewer: messages up to it are read
    bubbles,    \* the conversation's query: messages it holds, pages loaded,
                \* fetch with its answer
    visible,    \* the tab is looked at
    marks,      \* mark-read calls in flight: at "sent" or "served"
    badge,      \* the unread count's query: data, fetch with its answer
    composer,   \* the message on its way: "no", "sent" or "served"
    seen,       \* history: messages that were ever on screen
    unsure      \* history: messages read unseen, because they reached the API
                \* before a mark or a message of the viewer's did; marks failed

conversationVars == <<sender, pointer, bubbles, visible, marks, badge, composer, seen, unsure>>

Sent == DOMAIN sender
Last == Len(sender)
Unread == {m \in Sent : m > pointer /\ sender[m] = "peer"}

(* A page: the newest messages below a cursor, and the cursor of the next. *)
Messages(pages, upTo) == {m \in Sent : m <= upTo /\ m > upTo - pages * PageSize}
HasNextPage == \E m \in Sent : \A b \in bubbles.has : m < b

NoFetch == [at |-> "none", upTo |-> 0]

Init ==
    /\ sender = <<>> /\ pointer = 0
    /\ bubbles = [has |-> {}, pages |-> 1, fetch |-> NoFetch] /\ visible = TRUE
    /\ marks = {} /\ badge = [data |-> 0, fetch |-> "none", answer |-> 0]
    /\ composer = "no"
    /\ seen = {} /\ unsure = [read |-> {}, mark |-> 0]

LatestId(has) == IF has = {} THEN 0 ELSE CHOOSE m \in has : \A n \in has : n <= m
FromPeer(has) == has # {} /\ sender[LatestId(has)] = "peer"

-----------------------------------------------------------------------------
(* The peer's messages.                                                    *)
PeerSends ==
    /\ Last < MaxMsgs /\ sender' = Append(sender, "peer")
    /\ UNCHANGED <<pointer, bubbles, visible, marks, badge, composer, seen, unsure>>

(* The poll, every four seconds while the tab is looked at.                *)
Poll ==
    /\ visible /\ bubbles.fetch.at = "none"
    /\ bubbles' = [bubbles EXCEPT !.fetch.at = "asked"]
    /\ UNCHANGED <<sender, pointer, visible, marks, badge, composer, seen, unsure>>

ServePages ==
    /\ bubbles.fetch.at = "asked"
    /\ bubbles' = [bubbles EXCEPT !.fetch = [at |-> "served", upTo |-> Last]]
    /\ UNCHANGED <<sender, pointer, visible, marks, badge, composer, seen, unsure>>

(* "Load older" drops a poll in flight, and adds a page to what is shown.  *)
LoadOlder ==
    /\ bubbles.has # {} /\ HasNextPage /\ bubbles.fetch.at # "older"
    /\ bubbles' = [bubbles EXCEPT !.fetch = [at |-> "older", upTo |-> 0]]
    /\ UNCHANGED <<sender, pointer, visible, marks, badge, composer, seen, unsure>>

OlderArrives ==
    /\ bubbles.fetch.at = "older"
    /\ LET more == Messages(1, CHOOSE m \in 0 .. Last : m + 1 \in bubbles.has /\ m \notin bubbles.has)
       IN  /\ bubbles' = [has |-> bubbles.has \cup more, pages |-> bubbles.pages + 1, fetch |-> NoFetch]
           /\ seen' = IF visible THEN seen \cup more ELSE seen
    /\ UNCHANGED <<sender, pointer, visible, marks, badge, composer, unsure>>

(* Whenever the newest message on screen is a new one of the peer's, it is *)
(* marked read, if the tab is looked at.                                   *)
MarkNow == marks' = IF visible THEN marks \cup {"sent"} ELSE marks

BubblesArrive ==
    /\ bubbles.fetch.at = "served"
    /\ LET has == Messages(bubbles.pages, bubbles.fetch.upTo)
       IN  /\ bubbles' = [bubbles EXCEPT !.has = has, !.fetch = NoFetch]
           /\ IF FromPeer(has) /\ LatestId(has) # LatestId(bubbles.has) THEN MarkNow
              ELSE UNCHANGED marks
           /\ seen' = IF visible THEN seen \cup has ELSE seen
    /\ UNCHANGED <<sender, pointer, visible, badge, composer, unsure>>

(* The tab is hidden, or looked at again.                                  *)
LookAway ==
    /\ visible' = ~visible
    /\ IF ~visible /\ FromPeer(bubbles.has) THEN marks' = marks \cup {"sent"} ELSE UNCHANGED marks
    /\ seen' = IF visible THEN seen ELSE seen \cup bubbles.has
    /\ UNCHANGED <<sender, pointer, bubbles, badge, composer, unsure>>

-----------------------------------------------------------------------------
(* The viewer's pointer moves to the end of the conversation, as the API   *)
(* has it by then.                                                         *)
(* A fault ReadIsCleared must notice: marking counts from what is shown.   *)
ServeMarkShort ==
    /\ "sent" \in marks /\ marks' = (marks \ {"sent"}) \cup {"served"}
    /\ pointer' = IF bubbles.has = {} THEN pointer ELSE LatestId(bubbles.has) - 1
    /\ unsure' = [unsure EXCEPT !.read = @ \cup (Unread \ seen)]
    /\ UNCHANGED <<sender, bubbles, visible, badge, composer, seen>>
ServeMark ==
    /\ "sent" \in marks /\ marks' = (marks \ {"sent"}) \cup {"served"}
    /\ pointer' = Last
    /\ unsure' = [unsure EXCEPT !.read = @ \cup (Unread \ seen)]
    /\ UNCHANGED <<sender, bubbles, visible, badge, composer, seen>>

AskBadge == badge' = [badge EXCEPT !.fetch = "asked", !.answer = 0]

(* The answer has the badge and the inbox read again, anew.                *)
MarkArrives ==
    /\ "served" \in marks /\ marks' = marks \ {"served"} /\ AskBadge
    /\ UNCHANGED <<sender, pointer, bubbles, visible, composer, seen, unsure>>

(* A mark that fails is not tried again before the next message.           *)
MarkFails ==
    /\ marks # {} /\ unsure.mark < MaxDrops
    /\ marks' = {} /\ unsure' = [unsure EXCEPT !.mark = @ + 1]
    /\ UNCHANGED <<sender, pointer, bubbles, visible, badge, composer, seen>>

(* The badge's own poll, every minute.                                     *)
PollBadge ==
    /\ \/ badge.fetch = "none" /\ badge' = [badge EXCEPT !.fetch = "asked"]
       \/ badge.fetch = "asked"
          /\ badge' = [badge EXCEPT !.fetch = "served", !.answer = Cardinality(Unread)]
       \/ badge.fetch = "served"
          /\ badge' = [data |-> badge.answer, fetch |-> "none", answer |-> 0]
    /\ UNCHANGED <<sender, pointer, bubbles, visible, marks, composer, seen, unsure>>

-----------------------------------------------------------------------------
(* The composer, open to friends.  Enter sends even while a message is on  *)
(* its way; one at a time here (bound).                                    *)
Submit ==
    /\ composer = "no" /\ Last < MaxMsgs /\ composer' = "sent"
    /\ UNCHANGED <<sender, pointer, bubbles, visible, marks, badge, seen, unsure>>

(* Sending moves the viewer's own pointer past everything, in the same     *)
(* transaction.                                                            *)
ServeSend ==
    /\ composer = "sent" /\ Last < MaxMsgs
    /\ sender' = Append(sender, "me") /\ pointer' = Last + 1
    /\ unsure' = [unsure EXCEPT !.read = @ \cup (Unread \ seen)]
    /\ composer' = "served"
    /\ UNCHANGED <<bubbles, visible, marks, badge, seen>>

(* The answer empties the composer, whatever was typed since, and has the  *)
(* conversation, the inbox and the badge read again, anew.                 *)
SendArrives ==
    /\ composer = "served" /\ composer' = "no"
    /\ bubbles' = [bubbles EXCEPT !.fetch = [at |-> "asked", upTo |-> 0]] /\ AskBadge
    /\ UNCHANGED <<sender, pointer, visible, marks, seen, unsure>>

(* A refusal (not friends, too long), or a full conversation (bound).      *)
SendFails ==
    /\ composer = "sent" /\ composer' = "no"
    /\ UNCHANGED <<sender, pointer, bubbles, visible, marks, badge, seen, unsure>>

Next ==
    \/ PeerSends \/ Poll \/ ServePages \/ LoadOlder \/ OlderArrives \/ BubblesArrive \/ LookAway
    \/ ServeMark \/ MarkArrives \/ MarkFails \/ PollBadge
    \/ Submit \/ ServeSend \/ SendArrives \/ SendFails

Spec == Init /\ [][Next]_conversationVars

-----------------------------------------------------------------------------
(* Every variable has its type.                                            *)
TypeOK ==
    /\ \A m \in Sent : sender[m] \in {"me", "peer"}
    /\ pointer \in 0 .. Last /\ bubbles.has \subseteq Sent /\ seen \subseteq Sent
    /\ marks \subseteq {"sent", "served"} /\ badge.data \in 0 .. MaxMsgs

(* What a looked-at conversation shows is read, and the badge counts none  *)
(* of it, once nothing is in flight, unless a mark failed; what was never  *)
(* on screen is unread, unless it reached the API before a mark or a       *)
(* message of the viewer's did; and nothing shown is skipped: the bubbles  *)
(* are consecutive.                                                        *)
ReadIsCleared ==
    /\ visible /\ marks = {} /\ unsure.mark = 0 =>
         /\ Unread \cap bubbles.has = {}
         /\ badge.fetch = "none" /\ composer = "no" =>
              badge.data <= Cardinality({m \in Sent \ bubbles.has : sender[m] = "peer"})
    /\ \A m \in Sent : sender[m] = "peer" /\ m <= pointer => m \in seen \cup unsure.read
    /\ bubbles.has # {} =>
         bubbles.has = {m \in Sent : m <= LatestId(bubbles.has)
                                     /\ \E b \in bubbles.has : b <= m}

(* What the bubbles, the marks, the badge and the composer may hold; a     *)
(* page is only added to a conversation that shows some.                   *)
ConversationTypes ==
    /\ sender \in Seq({"me", "peer"}) /\ Last <= MaxMsgs /\ pointer \in 0 .. Last
    /\ bubbles \in [has : SUBSET (1 .. Last), pages : Nat,
                    fetch : [at : {"none", "asked", "served", "older"}, upTo : 0 .. Last]]
    /\ bubbles.fetch.at = "older" => bubbles.has # {}
    /\ visible \in BOOLEAN /\ marks \subseteq {"sent", "served"}
    /\ badge \in [data : 0 .. MaxMsgs, fetch : {"none", "asked", "served"}, answer : 0 .. MaxMsgs]
    /\ composer \in {"no", "sent", "served"}
    /\ seen \subseteq 1 .. Last /\ unsure \in [read : SUBSET (1 .. Last), mark : Nat]

(* The bubbles are consecutive.                                            *)
Consecutive ==
    bubbles.has # {} => \E a, b \in 1 .. Last : a <= b /\ bubbles.has = a .. b

(* The viewer has read what they sent, and what a looked-at conversation   *)
(* shows, unless a mark is on its way or has failed.                       *)
OwnAreRead == \A m \in 1 .. Last : sender[m] = "me" => m <= pointer
ShownAreRead ==
    visible /\ unsure.mark = 0 /\ "sent" \notin marks => \A m \in bubbles.has : m <= pointer

(* What the peer sent is read because it was seen, or is doubtful.         *)
ReadWereSeen ==
    \A m \in 1 .. Last : sender[m] = "peer" /\ m <= pointer => m \in seen \cup unsure.read

(* A badge that is not to be read again counts nothing that is read.       *)
BadgeCounts ==
    unsure.mark = 0 /\ "served" \notin marks /\ composer # "served" =>
      /\ badge.fetch = "none" => badge.data <= Cardinality(Unread)
      /\ badge.fetch = "served" => badge.answer <= Cardinality(Unread)

(* Together they make ReadIsCleared inductive.                             *)
ConversationInv ==
    /\ ConversationTypes
    /\ Consecutive /\ OwnAreRead /\ ShownAreRead /\ ReadWereSeen /\ BadgeCounts
=============================================================================
