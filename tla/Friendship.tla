----------------------------- MODULE Friendship -----------------------------
(***************************************************************************)
(* Two people and the two friend verbs (internal/social/friends.go), with  *)
(* the screens of one of them: the profile's relationship row              *)
(* (components/social/follow-button.tsx) and the friends page              *)
(* (app/friends/friends-client.tsx), which share a cached relation and     *)
(* the lists invalidated by every verb (lib/hooks/use-social.ts).          *)
(*                                                                         *)
(* A verb is a sequence of statements of its own on the server; only the   *)
(* accept is a transaction.                                                *)
(***************************************************************************)
EXTENDS Naturals, FiniteSets

CONSTANTS
    MaxVerbs,   \* verbs pressed (bound)
    MaxMisses   \* calls that fail (bound)

(* What is assumed of them.                                                *)
FriendAssumption == MaxVerbs \in Nat /\ MaxMisses \in Nat

VARIABLES
    request,    \* friend_requests: who asked the other
    friends,    \* friendships: whether the pair is one
    follows,    \* who follows the other
    call,       \* each one's verb in flight
    wants,      \* history: whether each last asked to be friends, and
                \* whether the two asked for opposites at once
    relation,   \* the viewer's cached relation: data, fetch and its answer
    overview,   \* the viewer's friends page, likewise
    asked,      \* the verb of the viewer's AddFriendButton, which stays dead
                \* once it succeeded
    pressed,    \* verbs pressed so far
    misses      \* calls failed so far

friendVars == <<request, friends, follows, call, wants, relation, overview, asked, pressed, misses>>

Me == "me"
Peer == "peer"
Pair == {Me, Peer}
Other(u) == IF u = Me THEN Peer ELSE Me

Standings == {"none", "friends", "request_sent", "request_received"}
StandingOf(u) ==
    IF friends THEN "friends"
    ELSE IF request[u] THEN "request_sent"
    ELSE IF request[Other(u)] THEN "request_received" ELSE "none"

NoCall == [verb |-> "none", at |-> "idle", by |-> "none", answer |-> "none"]
Step(u, at) == call' = [call EXCEPT ![u].at = at]

(* A query of the viewer's: what it shows, and the fetch with its answer.  *)
Unknown == "unknown"
Blank == [data |-> Unknown, fetch |-> "none", answer |-> Unknown]

Init ==
    /\ request = [u \in Pair |-> FALSE] /\ friends = FALSE
    /\ follows = [u \in Pair |-> FALSE]
    /\ call = [u \in Pair |-> NoCall]
    /\ wants = [by |-> [u \in Pair |-> FALSE], crossed |-> FALSE]
    /\ relation = Blank /\ overview = Blank /\ asked = FALSE
    /\ pressed = 0 /\ misses = 0

-----------------------------------------------------------------------------
(* The one friend button: what it does for each standing.                  *)
FriendAction(s) == IF s \in {"none", "request_received"} THEN "befriend" ELSE "unfriend"

(* The verbs the viewer is offered, and where: the relationship row, dead  *)
(* until the relation is known or while its call is in flight; a request's *)
(* row, "Accept", "Decline" or "Requested . cancel"; and "Add friend" on a *)
(* person found or suggested who is not a friend.                          *)
Offered ==
    (IF relation.data # Unknown THEN {[verb |-> FriendAction(relation.data), by |-> "row"]} ELSE {})
    \cup
    CASE overview.data = "request_received" -> {[verb |-> "befriend", by |-> "list"],
                                                [verb |-> "unfriend", by |-> "list"]}
      [] overview.data = "request_sent" -> {[verb |-> "unfriend", by |-> "list"]}
      [] OTHER -> {}
    \cup
    IF overview.data \notin {Unknown, "friends"} /\ ~asked
    THEN {[verb |-> "befriend", by |-> "add"]} ELSE {}

Send(u, verb, by) ==
    /\ call[u] = NoCall /\ pressed < MaxVerbs /\ pressed' = pressed + 1
    /\ call' = [call EXCEPT ![u] = [verb |-> verb, at |-> verb, by |-> by, answer |-> "none"]]
    /\ wants' = [wants EXCEPT !.by[u] = (verb = "befriend"),
                              !.crossed = @ \/ {verb, call[Other(u)].verb} = {"befriend", "unfriend"}]

Press ==
    /\ \E o \in Offered : Send(Me, o.verb, o.by)
    /\ UNCHANGED <<request, friends, follows, relation, overview, asked, misses>>

(* The other one presses whatever their own screens, fresh or not, offer.  *)
PeerPress ==
    /\ \E verb \in {"befriend", "unfriend"} : Send(Peer, verb, "row")
    /\ UNCHANGED <<request, friends, follows, relation, overview, asked, misses>>

-----------------------------------------------------------------------------
(* Befriend looks for the friendship, then for the other's request; it     *)
(* accepts what it found, or asks.                                         *)
LookForFriendship(u) ==
    /\ call[u].at = "befriend" /\ Step(u, IF friends THEN "relation" ELSE "look")
    /\ UNCHANGED <<request, friends, follows, wants, relation, overview, asked, pressed, misses>>

(* A fault ConsentIsMutual must notice: the caller's own request is taken  *)
(* for the other's.                                                        *)
LookForRequestSwapped(u) ==
    /\ call[u].at = "look" /\ Step(u, IF request[u] THEN "accept" ELSE "ask")
    /\ UNCHANGED <<request, friends, follows, wants, relation, overview, asked, pressed, misses>>

LookForRequest(u) ==
    /\ call[u].at = "look" /\ Step(u, IF request[Other(u)] THEN "accept" ELSE "ask")
    /\ UNCHANGED <<request, friends, follows, wants, relation, overview, asked, pressed, misses>>

(* accept, one transaction, whether or not the request is still there.     *)
Accept(u) ==
    /\ call[u].at = "accept" /\ Step(u, "relation")
    /\ request' = [request EXCEPT ![Other(u)] = FALSE] /\ friends' = TRUE
    /\ follows' = [v \in Pair |-> TRUE]
    /\ UNCHANGED <<wants, relation, overview, asked, pressed, misses>>

Ask(u) ==
    /\ call[u].at = "ask" /\ Step(u, "relation") /\ request' = [request EXCEPT ![u] = TRUE]
    /\ UNCHANGED <<friends, follows, wants, relation, overview, asked, pressed, misses>>

(* Unfriend: the caller's request, the other's, the friendship.            *)
CancelOwn(u) ==
    /\ call[u].at = "unfriend" /\ Step(u, "decline") /\ request' = [request EXCEPT ![u] = FALSE]
    /\ UNCHANGED <<friends, follows, wants, relation, overview, asked, pressed, misses>>

DeclineTheirs(u) ==
    /\ call[u].at = "decline" /\ Step(u, "part")
    /\ request' = [request EXCEPT ![Other(u)] = FALSE]
    /\ UNCHANGED <<friends, follows, wants, relation, overview, asked, pressed, misses>>

Part(u) ==
    /\ call[u].at = "part" /\ Step(u, "relation") /\ friends' = FALSE
    /\ UNCHANGED <<request, follows, wants, relation, overview, asked, pressed, misses>>

(* Every verb answers with the relation as it finds it.                    *)
Relate(u) ==
    /\ call[u].at = "relation"
    /\ call' = [call EXCEPT ![u] = IF u = Me THEN [@ EXCEPT !.at = "answered", !.answer = StandingOf(Me)]
                                   ELSE NoCall]
    /\ UNCHANGED <<request, friends, follows, wants, relation, overview, asked, pressed, misses>>

-----------------------------------------------------------------------------
(* The viewer's answer replaces the relation; the friends lists are read   *)
(* again, from the start.                                                  *)
VerbArrives ==
    /\ call[Me].at = "answered" /\ call' = [call EXCEPT ![Me] = NoCall]
    /\ relation' = [relation EXCEPT !.data = call[Me].answer]
    /\ overview' = [overview EXCEPT !.fetch = "asked", !.answer = Unknown]
    /\ asked' = (asked \/ call[Me].by = "add")
    /\ UNCHANGED <<request, friends, follows, wants, pressed, misses>>

(* A verb that fails before, in the middle of or after its statements.     *)
VerbFails ==
    /\ call[Me] # NoCall /\ misses < MaxMisses /\ misses' = misses + 1
    /\ call' = [call EXCEPT ![Me] = NoCall]
    /\ UNCHANGED <<request, friends, follows, wants, relation, overview, asked, pressed>>

(* Follow and unfollow, which leave the friendship alone.                  *)
ToggleFollow ==
    /\ relation.data # Unknown /\ call[Me] = NoCall /\ pressed < MaxVerbs /\ pressed' = pressed + 1
    /\ follows' = [follows EXCEPT ![Me] = ~@]
    /\ call' = [call EXCEPT ![Me] = [NoCall EXCEPT !.verb = "follow", !.at = "relation"]]
    /\ UNCHANGED <<request, friends, wants, relation, overview, asked, misses>>

Read(q) == [q EXCEPT !.fetch = "asked"]
Served(q) == [q EXCEPT !.fetch = "served", !.answer = StandingOf(Me)]
Arrived(q) == [Blank EXCEPT !.data = q.answer]

(* The two queries: asked when their screen is entered, and again when it  *)
(* is entered later.                                                       *)
ReadRelation ==
    /\ \/ relation.fetch = "none" /\ relation' = Read(relation)
       \/ relation.fetch = "asked" /\ relation' = Served(relation)
       \/ relation.fetch = "served" /\ relation' = Arrived(relation)
    /\ UNCHANGED <<request, friends, follows, call, wants, overview, asked, pressed, misses>>

ReadOverview ==
    /\ \/ overview.fetch = "none" /\ overview' = Read(overview)
       \/ overview.fetch = "asked" /\ overview' = Served(overview)
       \/ overview.fetch = "served" /\ overview' = Arrived(overview)
    /\ UNCHANGED <<request, friends, follows, call, wants, relation, asked, pressed, misses>>

Next ==
    \/ Press \/ PeerPress \/ VerbArrives \/ VerbFails \/ ToggleFollow
    \/ ReadRelation \/ ReadOverview
    \/ \E u \in Pair :
         \/ LookForFriendship(u) \/ LookForRequest(u) \/ Accept(u) \/ Ask(u)
         \/ CancelOwn(u) \/ DeclineTheirs(u) \/ Part(u) \/ Relate(u)

Spec == Init /\ [][Next]_friendVars

-----------------------------------------------------------------------------
(* Every variable has its type.                                            *)
TypeOK ==
    /\ request \in [Pair -> BOOLEAN] /\ friends \in BOOLEAN /\ follows \in [Pair -> BOOLEAN]
    /\ relation.data \in Standings \cup {Unknown} /\ overview.data \in Standings \cup {Unknown}
    /\ asked \in BOOLEAN

(* Friends are two people who each last asked to be (Befriend), unless one *)
(* withdrew while the other accepted, or is withdrawing now, or a call     *)
(* failed half-way.                                                        *)
ConsentIsMutual ==
    friends /\ ~wants.crossed /\ (\A u \in Pair : call[u].verb # "unfriend") /\ misses = 0
       => wants.by[Me] /\ wants.by[Peer]

(* Why they are.  A verb's statements are its own; a request stands for a  *)
(* person who wants it or is taking it back; whoever is about to accept    *)
(* saw the other's; and a friendship one of whom does not want it is about *)
(* to be ended.                                                            *)
Befriending == {"befriend", "look", "accept", "ask"}
Unfriending == {"unfriend", "decline", "part"}
AnyCall == [verb : {"none", "befriend", "unfriend", "follow"},
            at : {"idle", "relation", "answered"} \cup Befriending \cup Unfriending,
            by : {"none", "row", "list", "add"}, answer : Standings \cup {"none"}]
AnyQuery == [data : Standings \cup {Unknown}, fetch : {"none", "asked", "served"},
             answer : Standings \cup {Unknown}]
FriendTypes ==
    /\ request \in [Pair -> BOOLEAN] /\ friends \in BOOLEAN /\ follows \in [Pair -> BOOLEAN]
    /\ call \in [Pair -> AnyCall] /\ wants \in [by : [Pair -> BOOLEAN], crossed : BOOLEAN]
    /\ relation \in AnyQuery /\ overview \in AnyQuery /\ asked \in BOOLEAN
    /\ pressed \in Nat /\ misses \in Nat
VerbsAreTheirs ==
    \A u \in Pair :
        /\ call[u].at \in Befriending => call[u].verb = "befriend"
        /\ call[u].at \in Unfriending => call[u].verb = "unfriend"
        /\ call[u].at = "answered" => call[u].answer \in Standings
AllMeant ==
    ~wants.crossed /\ misses = 0 =>
        /\ \A u \in Pair :
             /\ call[u].verb = "befriend" => wants.by[u] /\ call[Other(u)].verb # "unfriend"
             /\ call[u].verb = "unfriend" => ~wants.by[u]
             /\ request[u] => wants.by[u] \/ call[u].at = "unfriend"
             /\ call[u].at = "accept" => wants.by[Other(u)]
        /\ friends => \A u \in Pair : wants.by[u] \/ \E v \in Pair : call[v].at \in Unfriending
FriendInv == FriendTypes /\ VerbsAreTheirs /\ AllMeant
=============================================================================
