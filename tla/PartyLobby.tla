----------------------------- MODULE PartyLobby -----------------------------
(***************************************************************************)
(* Finding and starting a watch party in one tab (use-parties.ts and the   *)
(* surfaces on it): the header's count and the hub share the query of all  *)
(* open rooms, an episode's launcher has one of its own.  Both are polled, *)
(* and read again after the tab opens or ends a room.                      *)
(***************************************************************************)
EXTENDS Integers, Sequences, FiniteSets, SequencesExt

CONSTANTS
    Hours,          \* hours from now at which episodes air
    Past, Future,   \* the hours around now the hub offers episodes of
    MaxStarts,      \* rooms the tab opens (bound)
    MaxTurns        \* rooms ended elsewhere, sessions changed, calls failed (bound)

(* What is assumed of them.                                                *)
LobbyAssumption == /\ Hours \subseteq Int /\ Past \in Nat /\ Future \in Nat
                   /\ MaxStarts \in Nat /\ MaxTurns \in Nat

VARIABLES
    rooms,      \* ids of the open rooms
    session,    \* the tab's session: "loading", "anon" or "me"
    features,   \* the features query: "loading", "on" or "off"
    query,      \* the queries of open rooms: of all, of the episode
    at,         \* the page: "hub", "episode" or "room"
    start,      \* the launcher's create: "no", "sent" or "served"
    end,        \* the room page's "End party": "no", "sent" or "served"
    hosting,    \* the tab's last room
    doubt,      \* history: since a query was read, a room ended elsewhere
                \* or a call failed; the session changed
    turns       \* turns so far

lobbyVars == <<rooms, session, features, query, at, start, end, hosting, doubt, turns>>

(* Room 1 is anyone's to join, room 2 for its host's followers, and the    *)
(* tab's own rooms, from 3 on, for the viewer; all but room 1 are on the   *)
(* launcher's episode.                                                     *)
Mine(id) == id > 2
Visible(who) == {id \in rooms : id = 1 \/ who = "me"}
OnEpisode(ids) == ids \ {1}
Asked(q) == [q EXCEPT !.at = IF @ = "none" THEN "asked" ELSE @]
Idle(q) == [q EXCEPT !.at = "none", !.as = "nobody", !.answer = {}]
NoRooms == [has |-> FALSE, data |-> {}, at |-> "none", as |-> "nobody", answer |-> {}, stale |-> FALSE]
Queries == {"all", "episode"}

Mounted(q) == q = "all" \/ at = "episode"

(* A fault LobbyIsHonest must notice: the first read does not wait for the *)
(* session.                                                                *)
EnabledEarly == features = "on"

Enabled == session # "loading" /\ features = "on"

Init ==
    /\ rooms \in SUBSET {1, 2} /\ session = "loading" /\ features = "loading"
    /\ query = [q \in Queries |-> NoRooms] /\ at \in {"hub", "episode"}
    /\ start = "no" /\ end = "no" /\ hosting = 0 /\ turns = 0
    /\ doubt = [late |-> {}, switched |-> FALSE]

-----------------------------------------------------------------------------
(* The hub's offer: hostableEpisodes, of the hours episodes air at.        *)
HostableEpisodes(hours) ==
    LET inWindow == {h \in hours : h >= -Past /\ h < Future}
    IN  SetToSortSeq({h \in inWindow : h <= 0}, LAMBDA a, b : a > b)
            \o SetToSortSeq({h \in inWindow : h > 0}, LAMBDA a, b : a < b)

(* Nothing in the window is left out and nothing else is let in; what is   *)
(* out comes before what is not, and of two on the same side the one that  *)
(* airs nearer to now comes first.  Sets of hours are no state of the page:*)
(* LobbyIsHonest looks at them once, before the page has loaded.           *)
NearerFirst ==
    \A hours \in SUBSET Hours :
        LET seq == HostableEpisodes(hours)
            Distance(h) == IF h < 0 THEN -h ELSE h
        IN  /\ ToSet(seq) = {h \in hours : h \in -Past .. (Future - 1)}
            /\ \A i, j \in 1 .. Len(seq) :
                 i < j => /\ seq[i] > 0 => seq[j] > 0
                          /\ (seq[i] > 0) = (seq[j] > 0) => Distance(seq[i]) < Distance(seq[j])

(* usePartyPulse and LiveStats: nothing while no room is known.            *)
Pulse == IF query["all"].data = {} THEN 0 ELSE Cardinality(query["all"].data)

-----------------------------------------------------------------------------
Turn == turns < MaxTurns /\ turns' = turns + 1

(* useFeatures, read once and for good.                                    *)
FeaturesArrive ==
    /\ features = "loading" /\ features' \in {"on", "off"}
    /\ UNCHANGED <<rooms, session, query, at, start, end, hosting, doubt, turns>>

(* The session settles, and may change later, the queries keeping what     *)
(* they have.                                                              *)
SessionSettles ==
    /\ \/ session = "loading" /\ UNCHANGED <<doubt, turns>> /\ session' \in {"anon", "me"}
       \/ session # "loading" /\ start = "no" /\ end = "no" /\ Turn
          /\ session' = (IF session = "me" THEN "anon" ELSE "me")
          /\ doubt' = [doubt EXCEPT !.switched = TRUE]
    /\ UNCHANGED <<rooms, features, query, at, start, end, hosting>>

(* The poll, every thirty seconds, or a surface that comes on screen.      *)
Poll(q) ==
    /\ Enabled /\ Mounted(q) /\ query[q].at = "none"
    /\ query' = [query EXCEPT ![q] = Asked(@)]
    /\ UNCHANGED <<rooms, session, features, at, start, end, hosting, doubt, turns>>

Serve(q) ==
    /\ query[q].at = "asked"
    /\ query' = [query EXCEPT ![q].at = "served", ![q].as = session,
                   ![q].answer = IF q = "all" THEN Visible(session)
                                 ELSE OnEpisode(Visible(session))]
    /\ doubt' = [doubt EXCEPT !.late = @ \ {q}]
    /\ UNCHANGED <<rooms, session, features, at, start, end, hosting, turns>>

Arrive(q) ==
    /\ query[q].at = "served"
    /\ query' = [query EXCEPT ![q] = [NoRooms EXCEPT !.has = TRUE, !.data = query[q].answer,
                                                     !.as = query[q].as]]
    /\ UNCHANGED <<rooms, session, features, at, start, end, hosting, doubt, turns>>

ReadFails(q) ==
    /\ query[q].at # "none" /\ Turn
    /\ query' = [query EXCEPT ![q].at = "none", ![q].answer = {}]
    /\ doubt' = [doubt EXCEPT !.late = @ \cup {q}]
    /\ UNCHANGED <<rooms, session, features, at, start, end, hosting>>

(* A room ends elsewhere: its host does, or the sweeper.                   *)
EndsElsewhere ==
    /\ Turn /\ \E id \in rooms : rooms' = rooms \ {id}
    /\ doubt' = [doubt EXCEPT !.late = Queries]
    /\ UNCHANGED <<session, features, query, at, start, end, hosting>>

(* Going to another page.  A room is joined from a card or a row of what   *)
(* is shown; the launcher comes on screen with what its query has.         *)
Navigate ==
    /\ at' \in {"hub", "episode"} \ {at}
    /\ IF at' = "episode" /\ Enabled
       THEN \/ query' = [query EXCEPT !["episode"] = Asked(@)]
            \/ query["episode"].has /\ ~query["episode"].stale /\ UNCHANGED query
       ELSE UNCHANGED query
    /\ UNCHANGED <<rooms, session, features, start, end, hosting, doubt, turns>>

(* invalidateQueries(["parties", "open"]).                                 *)
Invalidate ==
    query' = [q \in Queries |-> IF Mounted(q) /\ Enabled THEN Asked(Idle(query[q]))
                                ELSE [query[q] EXCEPT !.stale = TRUE]]

(* "Start a party", dead while one is being started here.                  *)
Start ==
    /\ at = "episode" /\ session = "me" /\ features = "on" /\ start = "no" /\ hosting < 2 + MaxStarts
    /\ start' = "sent"
    /\ UNCHANGED <<rooms, session, features, query, at, end, hosting, doubt, turns>>

(* Opening a room ends the host's last one.                                *)
ServeStart ==
    /\ start = "sent" /\ start' = "served"
    /\ hosting' = (IF hosting = 0 THEN 3 ELSE hosting + 1)
    /\ rooms' = {id \in rooms : ~Mine(id)} \cup {hosting'}
    /\ doubt' = [doubt EXCEPT !.late = Queries]
    /\ UNCHANGED <<session, features, query, at, end, turns>>

(* The answer opens the room's page, wherever the viewer has gone since.   *)
StartArrives ==
    /\ start = "served" /\ start' = "no" /\ at' = "room" /\ Invalidate
    /\ UNCHANGED <<rooms, session, features, end, hosting, doubt, turns>>

StartFails ==
    /\ start = "sent" /\ start' = "no" /\ Turn
    /\ UNCHANGED <<rooms, session, features, query, at, end, hosting, doubt>>

EndParty ==
    /\ at = "room" /\ hosting \in rooms /\ end = "no" /\ end' = "sent"
    /\ UNCHANGED <<rooms, session, features, query, at, start, hosting, doubt, turns>>

ServeEnd ==
    /\ end = "sent" /\ end' = "served" /\ rooms' = rooms \ {hosting}
    /\ doubt' = [doubt EXCEPT !.late = Queries]
    /\ UNCHANGED <<session, features, query, at, start, hosting, turns>>

EndArrives ==
    /\ end = "served" /\ end' = "no" /\ Invalidate
    /\ UNCHANGED <<rooms, session, features, at, start, hosting, doubt, turns>>

Next ==
    \/ FeaturesArrive \/ SessionSettles \/ EndsElsewhere \/ Navigate
    \/ \E q \in Queries : Poll(q) \/ Serve(q) \/ Arrive(q) \/ ReadFails(q)
    \/ Start \/ ServeStart \/ StartArrives \/ StartFails
    \/ EndParty \/ ServeEnd \/ EndArrives

Spec == Init /\ [][Next]_lobbyVars

-----------------------------------------------------------------------------
(* Every variable has its type.                                            *)
TypeOK ==
    /\ rooms \subseteq 1 .. (2 + MaxStarts) /\ hosting \in 0 .. (2 + MaxStarts)
    /\ session \in {"loading", "anon", "me"} /\ at \in {"hub", "episode", "room"}
    /\ \A q \in Queries : /\ query[q].data \subseteq 1 .. (2 + MaxStarts)
                          /\ query[q].at \in {"none", "asked", "served"}

(* A list that is on screen and not being read shows the open rooms its    *)
(* viewer may join and no other: those of an episode among all of them,    *)
(* and the tab's own room from the moment it is known to be open.  It may  *)
(* be wrong after a room ended elsewhere, a read failed or the session     *)
(* changed under it.  No list was read before the session had settled.     *)
LobbyIsHonest ==
    /\ \A q \in Queries :
         /\ query[q].as # "loading"
         /\ /\ Mounted(q) /\ query[q].has /\ query[q].at = "none" /\ ~query[q].stale
            /\ q \notin doubt.late /\ ~doubt.switched
            => query[q].data = IF q = "all" THEN Visible(session) ELSE OnEpisode(Visible(session))
    /\ start = "no" /\ end = "no" /\ query["all"].at = "none" /\ "all" \notin doubt.late
          /\ ~doubt.switched /\ hosting \in rooms => hosting \in query["all"].data
    /\ Cardinality({id \in rooms : Mine(id)}) <= 1 /\ Pulse <= 2 + 1
    /\ features = "loading" => NearerFirst
=============================================================================
