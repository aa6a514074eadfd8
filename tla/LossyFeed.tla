----------------------------- MODULE LossyFeed -----------------------------
(***************************************************************************)
(* What a live thread stream promises its readers, with no hub, channel or *)
(* buffer in sight: a reader in a room is shown comments of that room      *)
(* only, in the order they were published and none of them twice.  It may  *)
(* be shown fewer than were published (internal/realtime/hub.go: "dropped  *)
(* event-by-event"), never others.                                         *)
(***************************************************************************)
EXTENDS Naturals

CONSTANTS Rooms, Subs, NoRoom

VARIABLES
    sent,   \* sent[r]: how many events the room has published
    where,  \* where[c]: the room reader c follows, or NoRoom
    last    \* last[c]: the number of the newest event c's stream was shown (0: none)

feedVars == <<sent, where, last>>

Init ==
    /\ sent = [r \in Rooms |-> 0]
    /\ where = [c \in Subs |-> NoRoom]
    /\ last = [c \in Subs |-> 0]

Announce(r) ==
    /\ sent' = [sent EXCEPT ![r] = @ + 1]
    /\ UNCHANGED <<where, last>>

Follow(c, r) ==
    /\ where[c] = NoRoom
    /\ where' = [where EXCEPT ![c] = r]
    /\ UNCHANGED <<sent, last>>

Show(c) ==
    /\ where[c] \in Rooms
    /\ \E n \in (last[c] + 1) .. sent[where[c]] : last' = [last EXCEPT ![c] = n]
    /\ UNCHANGED <<sent, where>>

Unfollow(c) ==
    /\ where[c] \in Rooms
    /\ where' = [where EXCEPT ![c] = NoRoom]
    /\ last' = [last EXCEPT ![c] = 0]
    /\ UNCHANGED sent

Next ==
    \/ \E r \in Rooms : Announce(r)
    \/ \E c \in Subs, r \in Rooms : Follow(c, r)
    \/ \E c \in Subs : Show(c) \/ Unfollow(c)

Spec == Init /\ [][Next]_feedVars
=============================================================================
