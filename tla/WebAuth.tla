------------------------------ MODULE WebAuth ------------------------------
(***************************************************************************)
(* Being signed in: the tabs of one browser, each with its access token in *)
(* memory (lib/api/client.ts) and its session state (lib/auth/session.tsx),*)
(* the refresh cookie they share, and the API's refresh tokens, which      *)
(* rotate on use and die as a family (backend/internal/auth/service.go).   *)
(*                                                                         *)
(* A request is a step that sends it, with the cookie or the access token  *)
(* of that moment, steps in which the API serves it, and a step in which   *)
(* its answer arrives or is lost; the steps of different requests          *)
(* interleave.  A Set-Cookie takes effect when its answer arrives.         *)
(***************************************************************************)
EXTENDS Naturals, Sequences, FiniteSets

CONSTANTS
    Tabs,       \* tabs of one browser
    Busy,       \* tabs that may have two requests in flight at once, the
                \* others one (bound)
    MaxCalls,   \* requests made by users and pages (bound)
    MaxLost     \* answers lost and tabs reloaded (bound)

ASSUME AuthAssumption == IsFiniteSet(Tabs) /\ "lost" \notin Tabs
                      /\ MaxCalls \in Nat /\ MaxLost \in Nat

(* A request is known by its tab and a number.                             *)
Calls == {c \in Tabs \X (1 .. 2) : c[2] = 1 \/ c[1] \in Busy}

VARIABLES
    tokens,     \* refresh_tokens, in order of issue: [family, used, revoked]
    ended,      \* history: families ended by a sign-out or a password reset
                \* while none of their tokens was being rotated
    cookie,     \* the browser's refresh cookie: a token, 0 for none
    status,     \* status[t]: "loading", "authed" or "anon"
    access,     \* access[t]: "none", "live" or "expired"
    flight,     \* flight[t]: refreshFlight, with the token it carries
    hydrating,  \* hydrating[t]: the mount effect waits for the flight
    call,       \* call[c]: a request in flight, c[1] being its tab
    calls,      \* requests made so far
    lost,       \* answers lost and tabs reloaded so far
    rotatedBy   \* history: the tab whose flight rotated each token, "lost" if
                \* that flight's answer never arrived

vars == <<tokens, ended, cookie, status, access, flight, hydrating, call, calls, lost, rotatedBy>>
server == <<tokens, ended, rotatedBy>>

(* At most one token for the cookie at the start, each mount, each request *)
(* and each reload.                                                        *)
Token == 1 .. (1 + Cardinality(Tabs) + MaxCalls + MaxLost)
NoFlight == [state |-> "none", tok |-> 0, new |-> 0]
Flight(k) == [state |-> "sent", tok |-> k, new |-> 0]
NoCall == [kind |-> "none", state |-> "none", tok |-> 0]
Kinds == {"query", "me", "signin", "signout"}

(* Issuing a token: a sign-in starts a family, a rotation continues one.   *)
Issue(f) == [family |-> f, used |-> FALSE, revoked |-> FALSE]
NewFamily == 1 + Cardinality({tokens[k].family : k \in DOMAIN tokens})
Revoke(f) == [k \in DOMAIN tokens |->
                IF tokens[k].family = f THEN [tokens[k] EXCEPT !.revoked = TRUE] ELSE tokens[k]]

(* A fault ReuseIsForeign must notice: each caller starts a refresh.       *)
RefreshingAlone(t) == Flight(cookie)

(* refreshSession: concurrent callers share one flight.                    *)
Refreshing(t) ==
    IF flight[t] = NoFlight THEN Flight(cookie) ELSE flight[t]

(* What the screens offer: the account menu has nothing for a session that *)
(* is not known yet, the forms are at their own addresses and idle until   *)
(* submitted, and a signed-in user's pages call the API.                   *)
Offered(t) ==
    LET submitting == \E c \in Calls : c[1] = t /\ call[c].kind = "signin"
    IN  {k \in Kinds : IF k = "signin" THEN ~submitting ELSE status[t] = "authed"}

(* Every tab mounts with the session's state unknown and asks; a user who  *)
(* signed in before has a cookie.                                          *)
Init ==
    /\ tokens \in {<<>>, <<Issue(1)>>} /\ ended = {} /\ cookie = Len(tokens)
    /\ status = [t \in Tabs |-> "loading"]
    /\ access = [t \in Tabs |-> "none"]
    /\ flight = [t \in Tabs |-> Flight(Len(tokens))]
    /\ hydrating = [t \in Tabs |-> TRUE]
    /\ call = [c \in Calls |-> NoCall]
    /\ calls = 0 /\ lost = 0 /\ rotatedBy = <<>>

-----------------------------------------------------------------------------
(* The refresh, at the API and back.                                       *)

(* A fault EndedStaysEnded must notice: a revoked token is not refused.    *)
RefreshCheckUsedOnly(t) ==
    LET k == flight[t].tok
    IN  /\ flight[t].state = "sent" /\ k # 0
        /\ flight' = [flight EXCEPT ![t].state = IF tokens[k].used THEN "refused" ELSE "checked"]
        /\ tokens' = IF tokens[k].used THEN Revoke(tokens[k].family) ELSE tokens
        /\ UNCHANGED <<ended, cookie, status, access, hydrating, call, calls, lost, rotatedBy>>

(* Refresh's checks.  A token that was used already kills its family.      *)
RefreshCheck(t) ==
    LET k == flight[t].tok
        Refuse(state) == flight' = [flight EXCEPT ![t].state = state]
    IN  /\ flight[t].state = "sent"
        /\ \/ k = 0 /\ Refuse("no_session") /\ UNCHANGED tokens
           \/ k # 0 /\ tokens[k].revoked /\ Refuse("refused") /\ UNCHANGED tokens
           \/ k # 0 /\ ~tokens[k].revoked /\ tokens[k].used
              /\ Refuse("refused") /\ tokens' = Revoke(tokens[k].family)
           \/ k # 0 /\ ~tokens[k].revoked /\ ~tokens[k].used
              /\ Refuse("checked") /\ UNCHANGED tokens
        /\ UNCHANGED <<ended, cookie, status, access, hydrating, call, calls, lost, rotatedBy>>

(* A fault TypeOK must notice: the presented token stays good.             *)
RotateKeepsOld(t) ==
    LET k == flight[t].tok
    IN  /\ flight[t].state = "checked"
        /\ tokens' = Append(tokens, Issue(tokens[k].family))
        /\ flight' = [flight EXCEPT ![t].state = "rotated", ![t].new = Len(tokens) + 1]
        /\ rotatedBy' = [j \in DOMAIN rotatedBy \cup {k} |-> IF j = k THEN t ELSE rotatedBy[j]]
        /\ UNCHANGED <<ended, cookie, status, access, hydrating, call, calls, lost>>

(* The rotation's transaction: it looks at nothing again.                  *)
RefreshRotate(t) ==
    LET k == flight[t].tok
    IN  /\ flight[t].state = "checked"
        /\ tokens' = Append([tokens EXCEPT ![k].used = TRUE], Issue(tokens[k].family))
        /\ flight' = [flight EXCEPT ![t].state = "rotated", ![t].new = Len(tokens) + 1]
        /\ rotatedBy' = [j \in DOMAIN rotatedBy \cup {k} |-> IF j = k THEN t ELSE rotatedBy[j]]
        /\ UNCHANGED <<ended, cookie, status, access, hydrating, call, calls, lost>>

(* The flight settles for everyone who waits for it: the mount effect      *)
(* applies the user or none; a request that met a 401 is replayed with the *)
(* new token, or fails.                                                    *)
Settle(t, ok) ==
    /\ flight' = [flight EXCEPT ![t] = NoFlight]
    /\ access' = [access EXCEPT ![t] = IF ok THEN "live" ELSE "none"]
    /\ status' = IF hydrating[t]
                 THEN [status EXCEPT ![t] = IF ok THEN "authed" ELSE "anon"] ELSE status
    /\ hydrating' = [hydrating EXCEPT ![t] = FALSE]
    /\ call' = [c \in Calls |->
                   IF c[1] # t \/ call[c].state # "waiting" THEN call[c]
                   ELSE IF ok THEN [call[c] EXCEPT !.state = "ok"]
                   ELSE NoCall]

(* A fault WaitsEnd must notice: a refusal settles nothing.                *)
RefreshArriveOk(t) ==
    /\ flight[t].state = "rotated"
    /\ cookie' = flight[t].new
    /\ Settle(t, TRUE)
    /\ UNCHANGED <<server, calls, lost>>

RefreshArrive(t) ==
    /\ flight[t].state \in {"rotated", "refused", "no_session"}
    /\ cookie' = CASE flight[t].state = "rotated" -> flight[t].new
                   [] flight[t].state = "refused" -> 0
                   [] OTHER -> cookie
    /\ Settle(t, flight[t].state = "rotated")
    /\ UNCHANGED <<server, calls, lost>>

(* A token whose successor never reached the browser.                      *)
Forsake(t) ==
    rotatedBy' = IF flight[t].state = "rotated"
                 THEN [rotatedBy EXCEPT ![flight[t].tok] = "lost"] ELSE rotatedBy

(* The request or its answer is lost, or the API fails: like no session.   *)
RefreshFails(t) ==
    /\ flight[t].state \in {"sent", "rotated", "refused"} /\ lost < MaxLost
    /\ lost' = lost + 1
    /\ Forsake(t)
    /\ Settle(t, FALSE)
    /\ UNCHANGED <<tokens, ended, cookie, calls>>

-----------------------------------------------------------------------------
(* Requests.                                                               *)

(* The access token says by itself who calls: what the API answers to a    *)
(* query is settled when it is sent.                                       *)
Send(c, kind) ==
    /\ call[c] = NoCall /\ \A d \in Calls : d[1] = c[1] /\ d[2] < c[2] => call[d] # NoCall
    /\ calls < MaxCalls
    /\ kind \in Offered(c[1])
    /\ calls' = calls + 1
    /\ call' = [call EXCEPT ![c] =
                  [kind |-> kind,
                   state |-> IF kind \in {"signin", "signout"} THEN "sent"
                             ELSE IF access[c[1]] = "live" THEN "ok" ELSE "unauthorized",
                   tok |-> IF kind = "signout" THEN cookie ELSE 0]]
    /\ UNCHANGED <<server, cookie, status, access, flight, hydrating, lost>>

Answer(c, state) == call' = [call EXCEPT ![c].state = state]

(* onResponse: a 401 with an access token in memory refreshes and replays, *)
(* the answer to the replay is final.  /auth/me is one of the /auth/ URLs  *)
(* that are left alone: reload() keeps the user it has.                    *)
QueryArrive(c) ==
    /\ call[c].state \in {"ok", "unauthorized"} /\ call[c].kind \in {"query", "me"}
    /\ IF /\ call[c].kind = "query" /\ call[c].state = "unauthorized"
          /\ access[c[1]] # "none"
       THEN /\ call' = [call EXCEPT ![c].state = "waiting"]
            /\ flight' = [flight EXCEPT ![c[1]] = Refreshing(c[1])]
            /\ UNCHANGED status
       ELSE /\ call' = [call EXCEPT ![c] = NoCall]
            /\ status' = IF call[c].kind = "me" /\ call[c].state = "ok"
                         THEN [status EXCEPT ![c[1]] = "authed"] ELSE status
            /\ UNCHANGED flight
    /\ UNCHANGED <<server, cookie, access, hydrating, calls, lost>>

(* Login and Register: a new family, or a refusal.                         *)
ServeSignIn(c) ==
    /\ call[c].state = "sent" /\ call[c].kind = "signin"
    /\ \/ Answer(c, "refused") /\ UNCHANGED server
       \/ /\ tokens' = Append(tokens, Issue(NewFamily))
          /\ call' = [call EXCEPT ![c].state = "ok", ![c].tok = Len(tokens) + 1]
          /\ UNCHANGED <<ended, rotatedBy>>
    /\ UNCHANGED <<cookie, status, access, flight, hydrating, calls, lost>>

SignInArrive(c) ==
    /\ call[c].kind = "signin" /\ call[c].state \in {"ok", "refused"}
    /\ call' = [call EXCEPT ![c] = NoCall]
    /\ IF call[c].state = "ok"
       THEN /\ cookie' = call[c].tok
            /\ access' = [access EXCEPT ![c[1]] = "live"]
            /\ status' = [status EXCEPT ![c[1]] = "authed"]
       ELSE UNCHANGED <<cookie, access, status>>
    /\ UNCHANGED <<server, flight, hydrating, calls, lost>>

(* Families a rotation has checked and not yet continued.                  *)
BeingRotated == {tokens[flight[t].tok].family : t \in {u \in Tabs : flight[u].state = "checked"}}
End(fs) == ended' = ended \cup (fs \ BeingRotated)

(* Logout revokes the family of the cookie that came with it, or fails.    *)
ServeSignOut(c) ==
    /\ call[c].state = "sent" /\ call[c].kind = "signout"
    /\ \/ /\ Answer(c, "ok")
          /\ IF call[c].tok = 0 THEN UNCHANGED <<tokens, ended>>
             ELSE /\ tokens' = Revoke(tokens[call[c].tok].family)
                  /\ End({tokens[call[c].tok].family})
       \/ Answer(c, "refused") /\ UNCHANGED <<tokens, ended>>
    /\ UNCHANGED <<cookie, status, access, flight, hydrating, calls, lost, rotatedBy>>

(* A fault StatusFollowsToken must notice: the token stays in memory.      *)
SignOutKeepsToken(c) ==
    /\ call[c].kind = "signout" /\ call[c].state \in {"ok", "refused"}
    /\ call' = [call EXCEPT ![c] = NoCall]
    /\ cookie' = IF call[c].state = "ok" THEN 0 ELSE cookie
    /\ status' = [status EXCEPT ![c[1]] = "anon"]
    /\ UNCHANGED <<server, access, flight, hydrating, calls, lost>>

(* logout() signs the tab out whatever the API answered.                   *)
SignOutArrive(c) ==
    /\ call[c].kind = "signout" /\ call[c].state \in {"ok", "refused"}
    /\ call' = [call EXCEPT ![c] = NoCall]
    /\ cookie' = IF call[c].state = "ok" THEN 0 ELSE cookie
    /\ access' = [access EXCEPT ![c[1]] = "none"]
    /\ status' = [status EXCEPT ![c[1]] = "anon"]
    /\ UNCHANGED <<server, flight, hydrating, calls, lost>>

(* The request or its answer is lost: fetch rejects, and the session is    *)
(* left as it was.                                                         *)
CallFails(c) ==
    /\ call[c].state \notin {"none", "waiting"} /\ lost < MaxLost
    /\ call' = [call EXCEPT ![c] = NoCall]
    /\ lost' = lost + 1
    /\ UNCHANGED <<server, cookie, status, access, flight, hydrating, calls>>

(* A password reset from an emailed link revokes every session.            *)
ResetPassword ==
    /\ calls < MaxCalls
    /\ calls' = calls + 1
    /\ tokens' = [k \in DOMAIN tokens |-> [tokens[k] EXCEPT !.revoked = TRUE]]
    /\ End({tokens[k].family : k \in DOMAIN tokens})
    /\ UNCHANGED <<cookie, status, access, flight, hydrating, call, lost, rotatedBy>>

-----------------------------------------------------------------------------
(* The tab and the clock.                                                  *)

AccessExpires(t) ==
    /\ access[t] = "live"
    /\ access' = [access EXCEPT ![t] = "expired"]
    /\ UNCHANGED <<server, cookie, status, flight, hydrating, call, calls, lost>>

(* The tab is reloaded: what was in flight is abandoned, with its cookie.  *)
ReloadTab(t) ==
    /\ lost < MaxLost /\ status[t] # "loading"
    /\ lost' = lost + 1
    /\ Forsake(t)
    /\ status' = [status EXCEPT ![t] = "loading"]
    /\ access' = [access EXCEPT ![t] = "none"]
    /\ flight' = [flight EXCEPT ![t] = Flight(cookie)]
    /\ hydrating' = [hydrating EXCEPT ![t] = TRUE]
    /\ call' = [c \in Calls |-> IF c[1] = t THEN NoCall ELSE call[c]]
    /\ UNCHANGED <<tokens, ended, cookie, calls>>

RefreshSteps(t) == RefreshCheck(t) \/ RefreshRotate(t) \/ RefreshArrive(t)
CallSteps(c) ==
    \/ QueryArrive(c) \/ ServeSignIn(c) \/ SignInArrive(c)
    \/ ServeSignOut(c) \/ SignOutArrive(c)

Next ==
    \/ \E t \in Tabs : RefreshSteps(t) \/ RefreshFails(t) \/ AccessExpires(t) \/ ReloadTab(t)
    \/ \E c \in Calls : CallSteps(c) \/ CallFails(c)
    \/ \E c \in Calls, kind \in Kinds : Send(c, kind)
    \/ ResetPassword

(* Requests are served and answered; users, the clock and failures owe     *)
(* nothing.                                                                *)
Spec == Init /\ [][Next]_vars
             /\ (\A t \in Tabs : WF_vars(RefreshSteps(t)))
             /\ (\A c \in Calls : WF_vars(CallSteps(c)))

-----------------------------------------------------------------------------
(* Type invariant.                                                         *)
TypeOK ==
    /\ Len(tokens) <= Cardinality(Token)
    /\ \A k \in DOMAIN tokens :
          tokens[k] \in [family : Token, used : BOOLEAN, revoked : BOOLEAN]
    /\ ended \subseteq Token /\ cookie \in 0 .. Len(tokens)
    /\ status \in [Tabs -> {"loading", "authed", "anon"}]
    /\ access \in [Tabs -> {"none", "live", "expired"}]
    /\ \A t \in Tabs : flight[t].tok <= Len(tokens) /\ flight[t].new <= Len(tokens)
    /\ \A t \in Tabs : (flight[t] = NoFlight) = (flight[t].state = "none")
    /\ hydrating \in [Tabs -> BOOLEAN]
    /\ \A c \in Calls : call[c].kind \in Kinds \cup {"none"}
    /\ calls \in 0 .. MaxCalls /\ lost \in 0 .. MaxLost
    /\ \A k \in DOMAIN rotatedBy : rotatedBy[k] \in Tabs \cup {"lost"} /\ tokens[k].used

(* A browser is thrown out for reusing a token only when another tab       *)
(* rotated that token, or the answer of its rotation was lost: a tab alone *)
(* never replays its own (client.ts: "Concurrent callers share one         *)
(* flight").                                                               *)
ReuseIsForeign ==
    [][\A t \in Tabs :
          flight[t].state = "sent" /\ flight'[t].state = "refused" /\ tokens' # tokens
              => rotatedBy[flight[t].tok] # t]_vars

(* Signing out, or resetting the password, ends the session for good:      *)
(* every token of its family is revoked and stays so, those that other     *)
(* tabs hold too, unless a rotation was between its check and its          *)
(* transaction at that moment.                                             *)
EndedStaysEnded ==
    \A k \in DOMAIN tokens : tokens[k].family \in ended => tokens[k].revoked

(* What a tab shows and what it sends disagree.                            *)
Mismatch(t) == (status[t] = "authed" /\ access[t] = "none")
               \/ (status[t] = "anon" /\ access[t] # "none")

(* A tab that shows a user sends a token, and one that does not sends      *)
(* none.  Two answers can come between them: a refresh that settles after  *)
(* the session was applied (refreshSession sets the token and tells        *)
(* nobody), and a reload of the user that was asked with a token lost      *)
(* since.                                                                  *)
StatusFollowsToken ==
    [][\A t \in Tabs : ~Mismatch(t) /\ Mismatch(t)'
          => \/ flight[t] # NoFlight /\ flight'[t] = NoFlight /\ ~hydrating[t]
             \/ \E c \in Calls : c[1] = t /\ call[c].kind = "me" /\ call[c].state = "ok"]_vars

(* Somebody in the tab waits for a refresh.                                *)
Waits(t) == hydrating[t] \/ \E c \in Calls : c[1] = t /\ call[c].state = "waiting"

(* The session of a mounted tab becomes known, and requests that wait for  *)
(* a refresh go on or fail.                                                *)
WaitsEnd == \A t \in Tabs : Waits(t) ~> ~Waits(t)
=============================================================================
