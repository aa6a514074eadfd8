--------------------------- MODULE WebAuthProofs ---------------------------
(***************************************************************************)
(* Proofs about the web session, for any number of tabs, requests, lost    *)
(* answers and reloads:                                                    *)
(*                                                                         *)
(*   AuthTypeCorrect     the type invariant, with the bound on the tokens  *)
(*   AuthEndedStaysEnded a family ended by a sign-out or a reset is dead   *)
(*   AuthReuseIsForeign  a tab alone never replays its own refresh token   *)
(*   AuthStatusFollowsToken  the session shown and the token held agree    *)
(*                                                                         *)
(* TypeOK and EndedStaysEnded are not inductive by themselves.  A family   *)
(* is new only because the families so far are numbered without a gap, and *)
(* the tokens are bounded because each of them takes one chance, a refresh *)
(* or a request under way, and each chance was paid for by a mount, a      *)
(* request or a reload.  A tab never replays its own token because the     *)
(* token it rotated last stays out of the cookie from then on, and what a  *)
(* rotation or a sign-in has issued is known to nobody until it arrives.   *)
(***************************************************************************)
EXTENDS WebAuth, FiniteSetTheorems, TLAPS

(* What the variables hold, n tokens having been issued.                   *)
TokenRow == [family : Nat \ {0}, used : BOOLEAN, revoked : BOOLEAN]
FlightStates == {"none", "sent", "checked", "rotated", "refused", "no_session"}
FlightRow(n) ==
    {r \in [state : FlightStates, tok : 0 .. n, new : 0 .. n] :
        /\ (r = NoFlight) = (r.state = "none")
        /\ r.state \in {"checked", "rotated"} => r.tok # 0}
CallStates == {"none", "sent", "ok", "unauthorized", "waiting", "refused"}
CallRow(n) == [kind : Kinds \cup {"none"}, state : CallStates, tok : 0 .. n]

Families == {tokens[k].family : k \in DOMAIN tokens}

Typed ==
    /\ tokens \in Seq(TokenRow)
    /\ ended \subseteq Families
    /\ cookie \in 0 .. Len(tokens)
    /\ status \in [Tabs -> {"loading", "authed", "anon"}]
    /\ access \in [Tabs -> {"none", "live", "expired"}]
    /\ flight \in [Tabs -> FlightRow(Len(tokens))]
    /\ hydrating \in [Tabs -> BOOLEAN]
    /\ call \in [Calls -> CallRow(Len(tokens))]
    /\ calls \in 0 .. MaxCalls /\ lost \in 0 .. MaxLost

(* Only a token that was used has been rotated.                            *)
Rotated ==
    \A k \in DOMAIN rotatedBy : /\ k \in 1 .. Len(tokens) /\ tokens[k].used
                               /\ rotatedBy[k] \in Tabs \cup {"lost"}

(* Families are numbered in the order of the sign-ins.                     *)
Numbered == \E m \in 0 .. Len(tokens) : Families = 1 .. m

(* Chances of another token: refreshes that may still be rotated, and      *)
(* requests that may still sign in or start a refresh.                     *)
Rotatable == {t \in Tabs : flight[t].state \in {"sent", "checked"}}
MayIssue == {c \in Calls :
                \/ call[c].kind = "signin" /\ call[c].state = "sent"
                \/ call[c].kind = "query" /\ call[c].state = "unauthorized"}

Paid == Len(tokens) + Cardinality(Rotatable) + Cardinality(MayIssue)
            <= 1 + Cardinality(Tabs) + calls + lost

AuthInv == Typed /\ Rotated /\ Numbered

(* An ended family has no token left that is good, and no rotation of it   *)
(* is under way.                                                           *)
NoneChecked ==
    \A t \in Tabs : flight[t].state = "checked" => tokens[flight[t].tok].family \notin ended

(* A token nobody was told of yet.                                         *)
Unknown(n) == /\ n # 0 /\ n # cookie /\ n \notin DOMAIN rotatedBy
              /\ \A t \in Tabs : flight[t].tok # n

(* What a rotation or a sign-in has issued is known to no one until the    *)
(* answer arrives, and is not issued twice.                                *)
Carries(t) == flight[t].state = "rotated"
Brings(c) == call[c].kind = "signin" /\ call[c].state = "ok"
Undelivered ==
    /\ \A t \in Tabs : Carries(t) => Unknown(flight[t].new)
    /\ \A c \in Calls : Brings(c) => Unknown(call[c].tok)
    /\ \A t, u \in Tabs : Carries(t) /\ Carries(u) /\ t # u => flight[t].new # flight[u].new
    /\ \A c, d \in Calls : Brings(c) /\ Brings(d) /\ c # d => call[c].tok # call[d].tok
    /\ \A t \in Tabs, c \in Calls : Carries(t) /\ Brings(c) => flight[t].new # call[c].tok

(* The token a tab rotated last: it is not what the tab presents, and it   *)
(* is in the cookie only while the answer is on its way.                   *)
LeftBehind ==
    \A t \in Tabs, k \in DOMAIN rotatedBy : rotatedBy[k] = t =>
        /\ flight[t].state \in {"sent", "checked"} => flight[t].tok # k
        /\ cookie = k => Carries(t) /\ flight[t].tok = k

-----------------------------------------------------------------------------
(* Types.                                                                  *)

LEMMA CallsTyped == Calls \subseteq Tabs \X (1 .. 2) /\ \A c \in Calls : c[1] \in Tabs
  BY DEF Calls

LEMMA RowsTyped ==
    ASSUME NEW n \in Nat
    PROVE  /\ NoFlight \in FlightRow(n) /\ NoCall \in CallRow(n)
           /\ \A k \in 0 .. n : Flight(k) \in FlightRow(n)
           /\ \A f \in Nat \ {0} : Issue(f) \in TokenRow
  BY DEF NoFlight, NoCall, Flight, Issue, FlightRow, CallRow, TokenRow, FlightStates,
         CallStates, Kinds

(* The names stay good as more tokens are issued.                          *)
LEMMA RowsGrow ==
    ASSUME NEW n \in Nat, NEW m \in Nat, n <= m
    PROVE  /\ FlightRow(n) \subseteq FlightRow(m) /\ CallRow(n) \subseteq CallRow(m)
           /\ [Tabs -> FlightRow(n)] \subseteq [Tabs -> FlightRow(m)]
           /\ [Calls -> CallRow(n)] \subseteq [Calls -> CallRow(m)]
  <1>1. 0 .. n \subseteq 0 .. m
    OBVIOUS
  <1>2. FlightRow(n) \subseteq FlightRow(m) /\ CallRow(n) \subseteq CallRow(m)
    BY <1>1 DEF FlightRow, CallRow
  <1>3. QED
    BY <1>2

(* A row with its state and one of its tokens set.                         *)
LEMMA CallSet ==
    ASSUME NEW K, NEW S, NEW n \in Nat, NEW r \in [kind : K, state : S, tok : 0 .. n],
           NEW s \in S, NEW x \in 0 .. n
    PROVE  [r EXCEPT !.state = s, !.tok = x] \in [kind : K, state : S, tok : 0 .. n]
  OBVIOUS

LEMMA FlightSet ==
    ASSUME NEW S, NEW n \in Nat, NEW r \in [state : S, tok : 0 .. n, new : 0 .. n],
           NEW s \in S, NEW x \in 0 .. n
    PROVE  LET f == [r EXCEPT !.state = s, !.new = x]
           IN  f \in [state : S, tok : 0 .. n, new : 0 .. n] /\ f.state = s /\ f.tok = r.tok
  OBVIOUS

(* What a step does to the tokens: nothing but revoke some, or issue one   *)
(* more and use one up.                                                    *)
OnlyRevoked ==
    /\ tokens' \in Seq(TokenRow) /\ Len(tokens') = Len(tokens)
    /\ \A k \in 1 .. Len(tokens) :
          /\ tokens'[k].family = tokens[k].family /\ tokens'[k].used = tokens[k].used
          /\ tokens[k].revoked => tokens'[k].revoked

OneMore(f) ==
    /\ tokens' \in Seq(TokenRow) /\ Len(tokens') = Len(tokens) + 1
    /\ \A k \in 1 .. Len(tokens) :
          /\ tokens'[k].family = tokens[k].family /\ tokens'[k].revoked = tokens[k].revoked
          /\ tokens[k].used => tokens'[k].used
    /\ tokens'[Len(tokens) + 1] = Issue(f)

LEMMA KeepsTokens == ASSUME Typed, UNCHANGED tokens PROVE OnlyRevoked
  BY DEF Typed, OnlyRevoked

LEMMA RevokeKeeps ==
    ASSUME Typed, NEW f, tokens' = Revoke(f)
    PROVE  OnlyRevoked /\ \A k \in 1 .. Len(tokens) : tokens'[k].family = f => tokens'[k].revoked
  <1>1. tokens \in Seq(TokenRow) /\ DOMAIN tokens = 1 .. Len(tokens) /\ Len(tokens) \in Nat
    BY DEF Typed
  <1>2. \A k \in 1 .. Len(tokens) : tokens[k] \in TokenRow
    BY <1>1
  <1>3. \A k \in 1 .. Len(tokens) :
            tokens'[k] = IF tokens[k].family = f THEN [tokens[k] EXCEPT !.revoked = TRUE]
                         ELSE tokens[k]
    BY <1>1 DEF Revoke
  <1>4. \A k \in 1 .. Len(tokens) :
            /\ tokens'[k] \in TokenRow
            /\ tokens'[k].family = tokens[k].family /\ tokens'[k].used = tokens[k].used
            /\ tokens[k].revoked => tokens'[k].revoked
            /\ tokens'[k].family = f => tokens'[k].revoked
    BY <1>2, <1>3 DEF TokenRow
  <1>5. tokens' \in [1 .. Len(tokens) -> TokenRow]
    BY <1>1, <1>4 DEF Revoke
  <1>6. tokens' \in Seq(TokenRow) /\ Len(tokens') = Len(tokens)
    BY <1>1, <1>5
  <1>7. QED
    BY <1>4, <1>6 DEF OnlyRevoked

LEMMA RevokeAllKeeps ==
    ASSUME Typed, tokens' = [k \in DOMAIN tokens |-> [tokens[k] EXCEPT !.revoked = TRUE]]
    PROVE  OnlyRevoked /\ \A k \in 1 .. Len(tokens) : tokens'[k].revoked
  <1>1. tokens \in Seq(TokenRow) /\ DOMAIN tokens = 1 .. Len(tokens) /\ Len(tokens) \in Nat
    BY DEF Typed
  <1>2. \A k \in 1 .. Len(tokens) :
            tokens[k] \in TokenRow /\ tokens'[k] = [tokens[k] EXCEPT !.revoked = TRUE]
    BY <1>1
  <1>3. \A k \in 1 .. Len(tokens) :
            /\ tokens'[k] \in TokenRow
            /\ tokens'[k].family = tokens[k].family /\ tokens'[k].used = tokens[k].used
            /\ tokens'[k].revoked
    <2>1. \A r \in TokenRow : LET n == [r EXCEPT !.revoked = TRUE]
                            IN  /\ n \in TokenRow /\ n.revoked
                                /\ n.family = r.family /\ n.used = r.used
      BY DEF TokenRow
    <2>2. QED
      BY <1>2, <2>1
  <1>4. tokens' \in [1 .. Len(tokens) -> TokenRow]
    BY <1>1, <1>3
  <1>5. tokens' \in Seq(TokenRow) /\ Len(tokens') = Len(tokens)
    BY <1>1, <1>4
  <1>6. QED
    BY <1>3, <1>5 DEF OnlyRevoked

(* A sign-in's family is a new one.                                        *)
LEMMA FamilyIsNew ==
    ASSUME Typed, Numbered
    PROVE  /\ NewFamily \in Nat \ {0} /\ NewFamily \notin Families
           /\ NewFamily <= Len(tokens) + 1
           /\ Families \cup {NewFamily} = 1 .. NewFamily
  <1>1. PICK m \in 0 .. Len(tokens) : Families = 1 .. m
    BY DEF Numbered
  <1>2. Len(tokens) \in Nat /\ m \in Nat
    BY DEF Typed
  <1>3. Cardinality(1 .. m) = m
    BY <1>2, FS_Interval
  <1>4. NewFamily = 1 + Cardinality(Families)
    BY DEF NewFamily, Families
  <1>5. NewFamily = m + 1
    BY <1>1, <1>2, <1>3, <1>4
  <1>6. QED
    BY <1>1, <1>2, <1>5

LEMMA SignInIssues ==
    ASSUME Typed, Numbered, tokens' = Append(tokens, Issue(NewFamily))
    PROVE  /\ OneMore(NewFamily)
           /\ \A k \in 1 .. Len(tokens) : tokens'[k].used = tokens[k].used
  <1>1. tokens \in Seq(TokenRow) /\ Len(tokens) \in Nat /\ Issue(NewFamily) \in TokenRow
    BY FamilyIsNew, RowsTyped DEF Typed
  <1>2. QED
    BY <1>1 DEF OneMore

LEMMA RotationIssues ==
    ASSUME Typed, NEW t \in Tabs, RefreshRotate(t)
    PROVE  /\ OneMore(tokens[flight[t].tok].family)
           /\ flight[t].tok \in 1 .. Len(tokens) /\ tokens'[flight[t].tok].used
           /\ tokens[flight[t].tok].family \in Families
           /\ \A k \in 1 .. Len(tokens) \ {flight[t].tok} : tokens'[k].used = tokens[k].used
  <1> DEFINE k == flight[t].tok
             used == [tokens EXCEPT ![k].used = TRUE]
  <1>1. tokens \in Seq(TokenRow) /\ Len(tokens) \in Nat /\ flight[t] \in FlightRow(Len(tokens))
    BY DEF Typed
  <1>2. k \in 1 .. Len(tokens) /\ k \in DOMAIN tokens
    BY <1>1 DEF RefreshRotate, FlightRow
  <1>3. tokens[k] \in TokenRow /\ tokens[k].family \in Nat \ {0}
    <2>1. tokens[k] \in TokenRow
      BY <1>1, <1>2
    <2>2. QED
      BY <2>1 DEF TokenRow
  <1>4. [tokens[k] EXCEPT !.used = TRUE] \in TokenRow
    BY <1>3 DEF TokenRow
  <1>5. used \in Seq(TokenRow) /\ Len(used) = Len(tokens)
    BY <1>1, <1>2, <1>4
  <1>6. \A j \in 1 .. Len(tokens) :
            /\ used[j].family = tokens[j].family /\ used[j].revoked = tokens[j].revoked
            /\ tokens[j].used => used[j].used
            /\ IF j = k THEN used[j].used ELSE used[j].used = tokens[j].used
    <2>1. \A j \in 1 .. Len(tokens) :
              used[j] = IF j = k THEN [tokens[k] EXCEPT !.used = TRUE] ELSE tokens[j]
      BY <1>1, <1>2
    <2>2. QED
      BY <1>1, <1>3, <2>1 DEF TokenRow
  <1>7. tokens' = Append(used, Issue(tokens[k].family)) /\ Issue(tokens[k].family) \in TokenRow
    BY <1>3, RowsTyped DEF RefreshRotate
  <1> HIDE DEF used, k
  <1>8. /\ tokens' \in Seq(TokenRow) /\ Len(tokens') = Len(tokens) + 1
        /\ \A j \in 1 .. Len(tokens) : tokens'[j] = used[j]
        /\ tokens'[Len(tokens) + 1] = Issue(tokens[k].family)
    BY <1>1, <1>5, <1>7
  <1>9. /\ OneMore(tokens[k].family) /\ tokens'[k].used
        /\ \A j \in 1 .. Len(tokens) \ {k} : tokens'[j].used = tokens[j].used
    BY <1>2, <1>6, <1>8 DEF OneMore
  <1>10. tokens[k].family \in Families
    BY <1>2 DEF Families
  <1>11. QED
    BY <1>2, <1>9, <1>10 DEF k

(* Each step as seen from the tokens.                                      *)
TokenStep ==
    \/ OnlyRevoked /\ ended' \subseteq ended \cup Families
    \/ /\ \E f \in Nat \ {0} : OneMore(f) /\ (f \in Families \/ f = NewFamily)
       /\ UNCHANGED ended

LEMMA TokensStep ==
    ASSUME Typed, Numbered, [Next]_vars
    PROVE  TokenStep
  <1> USE DEF server
  <1>1. CASE UNCHANGED <<tokens, ended>>
    BY <1>1, KeepsTokens DEF TokenStep
  <1>2. ASSUME NEW t \in Tabs, RefreshCheck(t)
        PROVE  TokenStep
    <2>1. UNCHANGED ended
      BY <1>2 DEF RefreshCheck
    <2>2. \/ UNCHANGED tokens
          \/ tokens' = Revoke(tokens[flight[t].tok].family)
      BY <1>2 DEF RefreshCheck
    <2>3. OnlyRevoked
      BY <2>2, KeepsTokens, RevokeKeeps
    <2>4. QED
      BY <2>1, <2>3 DEF TokenStep
  <1>3. ASSUME NEW t \in Tabs, RefreshRotate(t)
        PROVE  TokenStep
    <2>1. /\ OneMore(tokens[flight[t].tok].family)
          /\ tokens[flight[t].tok].family \in Families
      BY <1>3, RotationIssues
    <2>2. Families \subseteq Nat \ {0}
      BY DEF Numbered
    <2>3. UNCHANGED ended
      BY <1>3 DEF RefreshRotate
    <2>4. QED
      BY <2>1, <2>2, <2>3 DEF TokenStep
  <1>4. ASSUME NEW c \in Calls, ServeSignIn(c)
        PROVE  TokenStep
    <2>1. CASE UNCHANGED server
      BY <2>1, <1>1
    <2>2. CASE tokens' = Append(tokens, Issue(NewFamily)) /\ UNCHANGED ended
      BY <2>2, SignInIssues, FamilyIsNew DEF TokenStep
    <2>3. QED
      BY <1>4, <2>1, <2>2 DEF ServeSignIn
  <1>5. ASSUME NEW c \in Calls, ServeSignOut(c)
        PROVE  TokenStep
    <2> DEFINE k == call[c].tok
    <2>1. CASE UNCHANGED <<tokens, ended>>
      BY <2>1, <1>1
    <2>2. CASE k # 0 /\ tokens' = Revoke(tokens[k].family) /\ End({tokens[k].family})
      <3>1. call[c] \in CallRow(Len(tokens))
        BY DEF Typed
      <3>2. k \in DOMAIN tokens
        BY <2>2, <3>1 DEF Typed, CallRow
      <3>3. ended' \subseteq ended \cup Families
        BY <2>2, <3>2 DEF End, Families
      <3>4. QED
        BY <2>2, <3>3, RevokeKeeps DEF TokenStep
    <2>3. QED
      BY <1>5, <2>1, <2>2 DEF ServeSignOut
  <1>6. CASE ResetPassword
    <2>1. ended' \subseteq ended \cup Families
      BY <1>6 DEF ResetPassword, End, Families
    <2>2. OnlyRevoked
      BY <1>6, RevokeAllKeeps DEF ResetPassword
    <2>3. QED
      BY <2>1, <2>2 DEF TokenStep
  <1>7. ASSUME NEW t \in Tabs,
               RefreshArrive(t) \/ RefreshFails(t) \/ AccessExpires(t) \/ ReloadTab(t)
        PROVE  UNCHANGED <<tokens, ended>>
    BY <1>7 DEF RefreshArrive, RefreshFails, AccessExpires, ReloadTab
  <1>8. ASSUME NEW c \in Calls,
               QueryArrive(c) \/ SignInArrive(c) \/ SignOutArrive(c) \/ CallFails(c)
        PROVE  UNCHANGED <<tokens, ended>>
    BY <1>8 DEF QueryArrive, SignInArrive, SignOutArrive, CallFails
  <1>9. ASSUME NEW c \in Calls, NEW kind \in Kinds, Send(c, kind)
        PROVE  UNCHANGED <<tokens, ended>>
    BY <1>9 DEF Send
  <1>10. CASE UNCHANGED vars
    BY <1>10, <1>1 DEF vars
  <1>11. QED
    BY <1>1, <1>2, <1>3, <1>4, <1>5, <1>6, <1>7, <1>8, <1>9, <1>10
       DEF Next, RefreshSteps, CallSteps

(* What every step promises about the tokens.                              *)
LEMMA TokensGrow ==
    ASSUME Typed, TokenStep
    PROVE  /\ tokens' \in Seq(TokenRow)
           /\ Len(tokens') \in Nat /\ Len(tokens) \in Nat
           /\ Len(tokens) <= Len(tokens') /\ Len(tokens') <= Len(tokens) + 1
           /\ \A k \in 1 .. Len(tokens) :
                 /\ tokens'[k].family = tokens[k].family
                 /\ tokens[k].used => tokens'[k].used
                 /\ tokens[k].revoked => tokens'[k].revoked
  <1>1. Len(tokens) \in Nat
    BY DEF Typed
  <1>2. CASE OnlyRevoked
    BY <1>1, <1>2 DEF OnlyRevoked
  <1>3. CASE \E f : OneMore(f)
    BY <1>1, <1>3 DEF OneMore
  <1>4. QED
    BY <1>2, <1>3 DEF TokenStep

(* Families stay numbered, and an ended family is one of them.             *)
LEMMA NumberedStep ==
    ASSUME Typed, Numbered, TokenStep
    PROVE  Numbered' /\ ended' \subseteq Families' /\ Families \subseteq Families'
  <1>1. /\ tokens \in Seq(TokenRow) /\ DOMAIN tokens = 1 .. Len(tokens)
        /\ DOMAIN tokens' = 1 .. Len(tokens') /\ ended \subseteq Families
    BY TokensGrow DEF Typed
  <1>2. PICK m \in 0 .. Len(tokens) : Families = 1 .. m
    BY DEF Numbered
  <1>3. CASE OnlyRevoked /\ ended' \subseteq ended \cup Families
    <2>1. Len(tokens') = Len(tokens) /\ Families' = Families
      BY <1>1, <1>3 DEF OnlyRevoked, Families
    <2>2. m \in 0 .. Len(tokens')
      BY <2>1
    <2>3. Numbered'
      BY <1>2, <2>1, <2>2 DEF Numbered
    <2>4. QED
      BY <1>1, <1>3, <2>1, <2>3
  <1>4. ASSUME NEW f \in Nat \ {0}, OneMore(f), f \in Families \/ f = NewFamily, UNCHANGED ended
        PROVE  Numbered' /\ ended' \subseteq Families' /\ Families \subseteq Families'
    <2>1. Len(tokens) \in Nat /\ Len(tokens') = Len(tokens) + 1
      BY <1>1, <1>4, TokensGrow DEF OneMore, TokenStep
    <2>2. \A k \in 1 .. Len(tokens) : tokens'[k].family = tokens[k].family
      BY <1>4 DEF OneMore
    <2>3. tokens'[Len(tokens) + 1].family = f
      BY <1>4 DEF OneMore, Issue
    <2>4. DOMAIN tokens' = DOMAIN tokens \cup {Len(tokens) + 1}
      BY <1>1, <2>1
    <2>5. Families' = Families \cup {f}
      <3>1. \A k \in DOMAIN tokens : tokens'[k].family = tokens[k].family
        BY <1>1, <2>2
      <3>2. Families' = {tokens'[k].family : k \in DOMAIN tokens \cup {Len(tokens) + 1}}
        BY <2>4 DEF Families
      <3>3. Families' = {tokens'[k].family : k \in DOMAIN tokens} \cup {f}
        BY <2>3, <3>2
      <3>4. QED
        BY <3>1, <3>3 DEF Families
    <2>6. \E n \in 0 .. Len(tokens') : Families' = 1 .. n
      <3>1. CASE f \in Families
        BY <1>2, <2>1, <2>5, <3>1
      <3>2. CASE f = NewFamily
        <4>1. Families' = 1 .. NewFamily /\ NewFamily \in 0 .. Len(tokens')
          BY <2>1, <2>5, <3>2, FamilyIsNew
        <4>2. QED
          BY <4>1
      <3>3. QED
        BY <1>4, <3>1, <3>2
    <2>7. QED
      BY <1>1, <1>4, <2>5, <2>6 DEF Numbered
  <1>5. QED
    BY <1>3, <1>4 DEF TokenStep

(* The settling of a flight.                                               *)
LEMMA SettleTyped ==
    ASSUME Typed, NEW t \in Tabs, NEW ok \in BOOLEAN, Settle(t, ok)
    PROVE  /\ status' \in [Tabs -> {"loading", "authed", "anon"}]
           /\ access' \in [Tabs -> {"none", "live", "expired"}]
           /\ hydrating' \in [Tabs -> BOOLEAN]
           /\ flight' \in [Tabs -> FlightRow(Len(tokens))]
           /\ call' \in [Calls -> CallRow(Len(tokens))]
  <1> USE DEF Typed
  <1>1. Len(tokens) \in Nat
    OBVIOUS
  <1>2. status' \in [Tabs -> {"loading", "authed", "anon"}]
    BY DEF Settle
  <1>3. access' \in [Tabs -> {"none", "live", "expired"}]
    BY DEF Settle
  <1>4. hydrating' \in [Tabs -> BOOLEAN]
    BY DEF Settle
  <1>5. flight' \in [Tabs -> FlightRow(Len(tokens))]
    BY <1>1, RowsTyped DEF Settle
  <1>6. \A r \in CallRow(Len(tokens)) : [r EXCEPT !.state = "ok"] \in CallRow(Len(tokens))
    BY DEF CallRow, CallStates
  <1>7. call' \in [Calls -> CallRow(Len(tokens))]
    <2>1. NoCall \in CallRow(Len(tokens))
      BY <1>1, RowsTyped
    <2>2. QED
      BY <1>6, <2>1 DEF Settle
  <1>8. QED
    BY <1>2, <1>3, <1>4, <1>5, <1>7

LEMMA ScreensStep ==
    ASSUME Typed, [Next]_vars
    PROVE  /\ status' \in [Tabs -> {"loading", "authed", "anon"}]
           /\ access' \in [Tabs -> {"none", "live", "expired"}]
           /\ hydrating' \in [Tabs -> BOOLEAN]
  <1>1. CASE UNCHANGED <<status, access, hydrating>>
    BY <1>1 DEF Typed
  <1>2. ASSUME NEW t \in Tabs, NEW ok \in BOOLEAN, Settle(t, ok)
        PROVE  /\ status' \in [Tabs -> {"loading", "authed", "anon"}]
               /\ access' \in [Tabs -> {"none", "live", "expired"}]
               /\ hydrating' \in [Tabs -> BOOLEAN]
    BY <1>2, SettleTyped
  <1>3. ASSUME NEW t \in Tabs, RefreshArrive(t) \/ RefreshFails(t)
        PROVE  \E ok \in BOOLEAN : Settle(t, ok)
    BY <1>3 DEF RefreshArrive, RefreshFails
  <1>4. ASSUME NEW t \in Tabs, AccessExpires(t) \/ ReloadTab(t)
        PROVE  /\ status' \in [Tabs -> {"loading", "authed", "anon"}]
               /\ access' \in [Tabs -> {"none", "live", "expired"}]
               /\ hydrating' \in [Tabs -> BOOLEAN]
    BY <1>4 DEF Typed, AccessExpires, ReloadTab
  <1>5. ASSUME NEW t \in Tabs, RefreshCheck(t) \/ RefreshRotate(t)
        PROVE  UNCHANGED <<status, access, hydrating>>
    BY <1>5 DEF RefreshCheck, RefreshRotate
  <1>6. ASSUME NEW c \in Calls, QueryArrive(c) \/ SignInArrive(c) \/ SignOutArrive(c)
        PROVE  /\ status' \in [Tabs -> {"loading", "authed", "anon"}]
               /\ access' \in [Tabs -> {"none", "live", "expired"}]
               /\ hydrating' \in [Tabs -> BOOLEAN]
    BY <1>6 DEF Typed, QueryArrive, SignInArrive, SignOutArrive
  <1>7. ASSUME NEW c \in Calls, ServeSignIn(c) \/ ServeSignOut(c) \/ CallFails(c)
        PROVE  UNCHANGED <<status, access, hydrating>>
    BY <1>7 DEF ServeSignIn, ServeSignOut, CallFails
  <1>8. ASSUME NEW c \in Calls, NEW kind \in Kinds, Send(c, kind)
        PROVE  UNCHANGED <<status, access, hydrating>>
    BY <1>8 DEF Send
  <1>9. CASE UNCHANGED vars \/ ResetPassword
    BY <1>9, <1>1 DEF vars, ResetPassword
  <1>10. QED
    BY <1>1, <1>2, <1>3, <1>4, <1>5, <1>6, <1>7, <1>8, <1>9
       DEF Next, RefreshSteps, CallSteps

LEMMA CountersStep ==
    ASSUME Typed, [Next]_vars
    PROVE  calls' \in 0 .. MaxCalls /\ lost' \in 0 .. MaxLost
  <1> USE AuthAssumption DEF Typed
  <1>1. ASSUME NEW t \in Tabs, RefreshFails(t) \/ ReloadTab(t)
        PROVE  calls' \in 0 .. MaxCalls /\ lost' \in 0 .. MaxLost
    <2>1. calls' = calls /\ lost < MaxLost /\ lost' = lost + 1
      BY <1>1 DEF RefreshFails, ReloadTab
    <2>2. QED
      BY <2>1
  <1>2. ASSUME NEW c \in Calls, CallFails(c)
        PROVE  calls' \in 0 .. MaxCalls /\ lost' \in 0 .. MaxLost
    BY <1>2 DEF CallFails
  <1>3. ASSUME NEW c \in Calls, NEW kind \in Kinds, Send(c, kind)
        PROVE  calls' \in 0 .. MaxCalls /\ lost' \in 0 .. MaxLost
    BY <1>3 DEF Send
  <1>4. CASE ResetPassword
    BY <1>4 DEF ResetPassword
  <1>5. ASSUME NEW t \in Tabs, RefreshSteps(t) \/ AccessExpires(t)
        PROVE  UNCHANGED <<calls, lost>>
    BY <1>5 DEF RefreshSteps, RefreshCheck, RefreshRotate, RefreshArrive, AccessExpires
  <1>6. ASSUME NEW c \in Calls, CallSteps(c)
        PROVE  UNCHANGED <<calls, lost>>
    BY <1>6 DEF CallSteps, QueryArrive, ServeSignIn, SignInArrive, ServeSignOut, SignOutArrive
  <1>7. CASE UNCHANGED vars
    BY <1>7 DEF vars
  <1>8. QED
    BY <1>1, <1>2, <1>3, <1>4, <1>5, <1>6, <1>7 DEF Next

LEMMA FlightsStep ==
    ASSUME Typed, TokenStep, [Next]_vars
    PROVE  flight' \in [Tabs -> FlightRow(Len(tokens'))]
  <1> DEFINE n == Len(tokens)
  <1>1. /\ n \in Nat /\ Len(tokens') \in Nat /\ n <= Len(tokens')
        /\ flight \in [Tabs -> FlightRow(n)] /\ cookie \in 0 .. n
    BY TokensGrow DEF Typed
  <1>2. FlightRow(n) \subseteq FlightRow(Len(tokens'))
    BY <1>1, RowsGrow
  <1>3. SUFFICES ASSUME flight' \notin [Tabs -> FlightRow(n)]
                 PROVE  flight' \in [Tabs -> FlightRow(Len(tokens'))]
    BY <1>2
  <1>4. NoFlight \in FlightRow(n) /\ Flight(cookie) \in FlightRow(n)
    BY <1>1, RowsTyped
  <1> HIDE DEF n
  <1>5. ~UNCHANGED flight
    BY <1>1, <1>3
  <1>6. ASSUME NEW t \in Tabs
        PROVE  ~RefreshCheck(t)
    <2>1. SUFFICES ASSUME RefreshCheck(t)
                   PROVE  flight' \in [Tabs -> FlightRow(n)]
      BY <1>3
    <2>2. \E s \in {"no_session", "refused", "checked"} :
              /\ flight' = [flight EXCEPT ![t].state = s]
              /\ s = "checked" => flight[t].tok # 0
      BY <2>1 DEF RefreshCheck
    <2>3. flight[t].state = "sent"
      BY <2>1 DEF RefreshCheck
    <2>4. \A s \in {"no_session", "refused", "checked"} :
              flight[t].tok # 0 \/ s # "checked" => [flight[t] EXCEPT !.state = s] \in FlightRow(n)
      BY <1>1, <2>3 DEF FlightRow, FlightStates, NoFlight
    <2>5. QED
      BY <1>1, <2>2, <2>4
  <1>7. ASSUME NEW t \in Tabs, RefreshRotate(t)
        PROVE  flight' \in [Tabs -> FlightRow(Len(tokens'))]
    <2>1. Len(tokens') = n + 1
      BY <1>7, RotationIssues DEF OneMore, n
    <2>2. flight' = [flight EXCEPT ![t].state = "rotated", ![t].new = n + 1]
      BY <1>7 DEF RefreshRotate, n
    <2>3. flight[t] \in FlightRow(n + 1) /\ flight[t].state = "checked"
      BY <1>1, <1>2, <1>7, <2>1 DEF RefreshRotate
    <2>4. [flight[t] EXCEPT !.state = "rotated", !.new = n + 1] \in FlightRow(n + 1)
      <3> DEFINE Rows == [state : FlightStates, tok : 0 .. n + 1, new : 0 .. n + 1]
      <3>1. flight[t] \in Rows /\ flight[t].tok # 0
        BY <2>3 DEF FlightRow
      <3>2. n + 1 \in 0 .. n + 1 /\ n + 1 \in Nat /\ "rotated" \in FlightStates
        BY <1>1 DEF FlightStates
      <3>3. LET f == [flight[t] EXCEPT !.state = "rotated", !.new = n + 1]
            IN  f \in Rows /\ f.state = "rotated" /\ f.tok = flight[t].tok
        BY <3>1, <3>2, FlightSet
      <3>4. QED
        BY <3>1, <3>3 DEF FlightRow, NoFlight
    <2>5. QED
      BY <1>1, <1>2, <2>1, <2>2, <2>4
  <1>8. ASSUME NEW t \in Tabs
        PROVE  ~RefreshArrive(t) /\ ~RefreshFails(t)
    <2>1. RefreshArrive(t) \/ RefreshFails(t) => \E ok \in BOOLEAN : Settle(t, ok)
      BY DEF RefreshArrive, RefreshFails
    <2>2. QED
      BY <1>3, <2>1, SettleTyped DEF n
  <1>9. ASSUME NEW t \in Tabs
        PROVE  ~AccessExpires(t) /\ ~ReloadTab(t)
    BY <1>1, <1>3, <1>4 DEF AccessExpires, ReloadTab
  <1>10. ASSUME NEW c \in Calls
         PROVE  ~QueryArrive(c)
    <2>1. c[1] \in Tabs
      BY CallsTyped
    <2>2. Refreshing(c[1]) \in FlightRow(n)
      BY <1>1, <1>4, <2>1 DEF Refreshing
    <2>3. QED
      BY <1>1, <1>3, <2>2 DEF QueryArrive
  <1>11. ASSUME NEW c \in Calls
         PROVE  /\ ~ServeSignIn(c) /\ ~SignInArrive(c) /\ ~ServeSignOut(c)
                /\ ~SignOutArrive(c) /\ ~CallFails(c)
    BY <1>5 DEF ServeSignIn, SignInArrive, ServeSignOut, SignOutArrive, CallFails
  <1>12. ASSUME NEW c \in Calls, NEW kind \in Kinds
         PROVE  ~Send(c, kind)
    BY <1>5 DEF Send
  <1>13. ~UNCHANGED vars /\ ~ResetPassword
    BY <1>5 DEF vars, ResetPassword
  <1>14. QED
    BY <1>6, <1>7, <1>8, <1>9, <1>10, <1>11, <1>12, <1>13 DEF Next, RefreshSteps, CallSteps

LEMMA CallsStep ==
    ASSUME Typed, TokenStep, [Next]_vars
    PROVE  call' \in [Calls -> CallRow(Len(tokens'))]
  <1> DEFINE n == Len(tokens)
  <1>1. /\ n \in Nat /\ Len(tokens') \in Nat /\ n <= Len(tokens')
        /\ call \in [Calls -> CallRow(n)] /\ cookie \in 0 .. n
    BY TokensGrow DEF Typed
  <1>2. CallRow(n) \subseteq CallRow(Len(tokens'))
    BY <1>1, RowsGrow
  <1>3. SUFFICES ASSUME call' \notin [Calls -> CallRow(n)]
                 PROVE  call' \in [Calls -> CallRow(Len(tokens'))]
    BY <1>2
  <1>4. NoCall \in CallRow(n)
    BY <1>1, RowsTyped
  <1>5. \A r \in CallRow(n), s \in CallStates : [r EXCEPT !.state = s] \in CallRow(n)
    BY DEF CallRow
  <1> HIDE DEF n
  <1>6. ~UNCHANGED call
    BY <1>1, <1>3
  <1>7. ASSUME NEW c \in Calls, NEW s \in CallStates
        PROVE  call' # [call EXCEPT ![c].state = s]
    BY <1>1, <1>3, <1>5, <1>7
  <1>8. ASSUME NEW c \in Calls
        PROVE  call' # [call EXCEPT ![c] = NoCall]
    BY <1>1, <1>3, <1>4
  <1>9. {"waiting", "refused", "ok"} \subseteq CallStates
    BY DEF CallStates
  <1>10. ASSUME NEW t \in Tabs
         PROVE  ~RefreshSteps(t) /\ ~RefreshFails(t) /\ ~AccessExpires(t)
    <2>1. RefreshArrive(t) \/ RefreshFails(t) => \E ok \in BOOLEAN : Settle(t, ok)
      BY DEF RefreshArrive, RefreshFails
    <2>2. ~RefreshArrive(t) /\ ~RefreshFails(t)
      BY <1>3, <2>1, SettleTyped DEF n
    <2>3. QED
      BY <1>6, <2>2 DEF RefreshSteps, RefreshCheck, RefreshRotate, AccessExpires
  <1>11. ASSUME NEW t \in Tabs
         PROVE  ~ReloadTab(t)
    BY <1>1, <1>3, <1>4 DEF ReloadTab
  <1>12. ASSUME NEW c \in Calls, ServeSignIn(c)
         PROVE  call' \in [Calls -> CallRow(Len(tokens'))]
    <2>1. \/ call' = [call EXCEPT ![c].state = "refused"]
          \/ /\ tokens' = Append(tokens, Issue(NewFamily))
             /\ call' = [call EXCEPT ![c].state = "ok", ![c].tok = n + 1]
      BY <1>12 DEF ServeSignIn, Answer, n
    <2>2. CASE call' = [call EXCEPT ![c].state = "refused"]
      BY <1>7, <1>9, <2>2
    <2>3. CASE /\ tokens' = Append(tokens, Issue(NewFamily))
               /\ call' = [call EXCEPT ![c].state = "ok", ![c].tok = n + 1]
      <3>1. Len(tokens') = n + 1
        BY <2>3 DEF Typed, n
      <3>2. call[c] \in CallRow(n + 1) /\ n + 1 \in 0 .. n + 1 /\ n + 1 \in Nat
        BY <1>1, <1>2, <3>1
      <3>3. [call[c] EXCEPT !.state = "ok", !.tok = n + 1] \in CallRow(n + 1)
        BY <1>9, <3>2, CallSet DEF CallRow
      <3>4. QED
        BY <1>1, <1>2, <2>3, <3>1, <3>3
    <2>4. QED
      BY <2>1, <2>2, <2>3
  <1>13. ASSUME NEW c \in Calls
         PROVE  /\ ~QueryArrive(c) /\ ~SignInArrive(c) /\ ~ServeSignOut(c)
                /\ ~SignOutArrive(c) /\ ~CallFails(c)
    BY <1>7, <1>8, <1>9
       DEF QueryArrive, SignInArrive, ServeSignOut, SignOutArrive, CallFails, Answer
  <1>14. ASSUME NEW c \in Calls, NEW kind \in Kinds
         PROVE  ~Send(c, kind)
    <2>1. \A s \in {"sent", "ok", "unauthorized"}, k \in {0, cookie} :
              [kind |-> kind, state |-> s, tok |-> k] \in CallRow(n)
      BY <1>1 DEF CallRow, CallStates
    <2>2. Send(c, kind) =>
              \E s \in {"sent", "ok", "unauthorized"}, k \in {0, cookie} :
                  call' = [call EXCEPT ![c] = [kind |-> kind, state |-> s, tok |-> k]]
      BY DEF Send
    <2>3. QED
      BY <1>1, <1>3, <2>1, <2>2
  <1>15. ~UNCHANGED vars /\ ~ResetPassword
    BY <1>6 DEF vars, ResetPassword
  <1>16. QED
    BY <1>10, <1>11, <1>12, <1>13, <1>14, <1>15 DEF Next, CallSteps

LEMMA CookieStep ==
    ASSUME Typed, TokenStep, [Next]_vars
    PROVE  cookie' \in 0 .. Len(tokens')
  <1>1. /\ Len(tokens) \in Nat /\ Len(tokens') \in Nat /\ Len(tokens) <= Len(tokens')
        /\ cookie \in 0 .. Len(tokens)
    BY TokensGrow DEF Typed
  <1>2. \A t \in Tabs : flight[t].new \in 0 .. Len(tokens)
    <2>1. \A t \in Tabs : flight[t] \in FlightRow(Len(tokens))
      BY DEF Typed
    <2>2. QED
      BY <2>1 DEF FlightRow
  <1>3. \A c \in Calls : call[c].tok \in 0 .. Len(tokens)
    <2>1. \A c \in Calls : call[c] \in CallRow(Len(tokens))
      BY DEF Typed
    <2>2. QED
      BY <2>1 DEF CallRow
  <1>4. \/ cookie' \in {cookie, 0}
        \/ \E t \in Tabs : cookie' = flight[t].new
        \/ \E c \in Calls : cookie' = call[c].tok
    <2>1. ASSUME NEW t \in Tabs, RefreshArrive(t)
          PROVE  cookie' \in {cookie, 0, flight[t].new}
      BY <2>1 DEF RefreshArrive
    <2>2. ASSUME NEW t \in Tabs,
                 \/ RefreshCheck(t) \/ RefreshRotate(t) \/ RefreshFails(t)
                 \/ AccessExpires(t) \/ ReloadTab(t)
          PROVE  cookie' = cookie
      BY <2>2 DEF RefreshCheck, RefreshRotate, RefreshFails, AccessExpires, ReloadTab
    <2>3. ASSUME NEW c \in Calls, SignInArrive(c) \/ SignOutArrive(c)
          PROVE  cookie' \in {cookie, 0, call[c].tok}
      BY <2>3 DEF SignInArrive, SignOutArrive
    <2>4. ASSUME NEW c \in Calls,
                 QueryArrive(c) \/ ServeSignIn(c) \/ ServeSignOut(c) \/ CallFails(c)
          PROVE  cookie' = cookie
      BY <2>4 DEF QueryArrive, ServeSignIn, ServeSignOut, CallFails
    <2>5. ASSUME NEW c \in Calls, NEW kind \in Kinds, Send(c, kind)
          PROVE  cookie' = cookie
      BY <2>5 DEF Send
    <2>6. UNCHANGED vars \/ ResetPassword => cookie' = cookie
      BY DEF vars, ResetPassword
    <2>7. QED
      BY <2>1, <2>2, <2>3, <2>4, <2>5, <2>6 DEF Next, RefreshSteps, CallSteps
  <1>5. QED
    BY <1>1, <1>2, <1>3, <1>4

(* The history of the rotations.                                           *)
LEMMA RotatedStep ==
    ASSUME Typed, Rotated, TokenStep, [Next]_vars
    PROVE  Rotated'
  <1>1. /\ Len(tokens) \in Nat /\ Len(tokens') \in Nat /\ Len(tokens) <= Len(tokens')
        /\ \A k \in 1 .. Len(tokens) : tokens[k].used => tokens'[k].used
    BY TokensGrow
  <1>2. CASE UNCHANGED rotatedBy
    BY <1>1, <1>2 DEF Rotated
  <1>3. ASSUME NEW t \in Tabs, Forsake(t)
        PROVE  Rotated'
    <2>1. DOMAIN rotatedBy' = DOMAIN rotatedBy
      BY <1>3 DEF Forsake
    <2>2. \A k \in DOMAIN rotatedBy : rotatedBy'[k] \in {rotatedBy[k], "lost"}
      BY <1>3 DEF Forsake
    <2>3. QED
      BY <1>1, <2>1, <2>2 DEF Rotated
  <1>4. ASSUME NEW t \in Tabs, RefreshRotate(t)
        PROVE  Rotated'
    <2> DEFINE k == flight[t].tok
    <2>1. k \in 1 .. Len(tokens) /\ tokens'[k].used
      BY <1>4, RotationIssues
    <2>2. rotatedBy' = [j \in DOMAIN rotatedBy \cup {k} |-> IF j = k THEN t ELSE rotatedBy[j]]
      BY <1>4 DEF RefreshRotate
    <2> HIDE DEF k
    <2>3. /\ DOMAIN rotatedBy' = DOMAIN rotatedBy \cup {k}
          /\ \A j \in DOMAIN rotatedBy' : rotatedBy'[j] = IF j = k THEN t ELSE rotatedBy[j]
      BY <2>2
    <2>4. QED
      BY <1>1, <2>1, <2>3 DEF Rotated
  <1>5. ASSUME NEW t \in Tabs, RefreshFails(t) \/ ReloadTab(t)
        PROVE  Forsake(t)
    BY <1>5 DEF RefreshFails, ReloadTab
  <1>6. ASSUME NEW t \in Tabs, RefreshCheck(t) \/ RefreshArrive(t) \/ AccessExpires(t)
        PROVE  UNCHANGED rotatedBy
    BY <1>6 DEF RefreshCheck, RefreshArrive, AccessExpires, server
  <1>7. ASSUME NEW c \in Calls, CallSteps(c) \/ CallFails(c)
        PROVE  UNCHANGED rotatedBy
    BY <1>7 DEF CallSteps, QueryArrive, ServeSignIn, SignInArrive, ServeSignOut,
                SignOutArrive, CallFails, server
  <1>8. ASSUME NEW c \in Calls, NEW kind \in Kinds, Send(c, kind)
        PROVE  UNCHANGED rotatedBy
    BY <1>8 DEF Send, server
  <1>9. UNCHANGED vars \/ ResetPassword => UNCHANGED rotatedBy
    BY DEF vars, ResetPassword
  <1>10. QED
    BY <1>2, <1>3, <1>4, <1>5, <1>6, <1>7, <1>8, <1>9 DEF Next, RefreshSteps

LEMMA AuthInit == ASSUME Init PROVE AuthInv
  <1>1. PICK n \in {0, 1} : /\ Len(tokens) = n /\ tokens \in {<<>>, <<Issue(1)>>}
                            /\ n = 1 => tokens = <<Issue(1)>>
                            /\ n = 0 => tokens = <<>>
    BY DEF Init
  <1>2. NoCall \in CallRow(n) /\ Flight(n) \in FlightRow(n) /\ Issue(1) \in TokenRow
    BY RowsTyped
  <1>3. tokens \in Seq(TokenRow)
    <2>1. <<>> \in Seq(TokenRow) /\ <<Issue(1)>> \in Seq(TokenRow)
      BY <1>2
    <2>2. QED
      BY <1>1, <2>1
  <1>4. Families = 1 .. n
    <2>1. CASE n = 0
      BY <1>1, <2>1 DEF Families
    <2>2. CASE n = 1
      <3>1. DOMAIN tokens = {1} /\ tokens[1].family = 1
        BY <1>1, <2>2 DEF Issue
      <3>2. QED
        BY <2>2, <3>1 DEF Families
    <2>3. QED
      BY <2>1, <2>2
  <1>5. Numbered
    BY <1>1, <1>4 DEF Numbered
  <1>6. Typed
    <2>1. ended \subseteq Families /\ cookie \in 0 .. Len(tokens) /\ calls = 0 /\ lost = 0
      BY <1>1 DEF Init
    <2>2. flight \in [Tabs -> FlightRow(Len(tokens))] /\ call \in [Calls -> CallRow(Len(tokens))]
      BY <1>1, <1>2 DEF Init
    <2>3. /\ status \in [Tabs -> {"loading", "authed", "anon"}]
          /\ access \in [Tabs -> {"none", "live", "expired"}]
          /\ hydrating \in [Tabs -> BOOLEAN]
      BY DEF Init
    <2>4. QED
      BY <1>3, <2>1, <2>2, <2>3, AuthAssumption DEF Typed
  <1>7. Rotated
    BY DEF Init, Rotated
  <1>8. QED
    BY <1>5, <1>6, <1>7 DEF AuthInv

LEMMA AuthStep ==
    ASSUME AuthInv, [Next]_vars
    PROVE  AuthInv' /\ TokenStep
  <1>1. Typed /\ Numbered /\ Rotated
    BY DEF AuthInv
  <1>2. TokenStep
    BY <1>1, TokensStep
  <1>3. Numbered' /\ ended' \subseteq Families'
    BY <1>1, <1>2, NumberedStep
  <1>4. Rotated'
    BY <1>1, <1>2, RotatedStep
  <1>5. /\ flight' \in [Tabs -> FlightRow(Len(tokens'))]
        /\ call' \in [Calls -> CallRow(Len(tokens'))]
        /\ cookie' \in 0 .. Len(tokens') /\ tokens' \in Seq(TokenRow)
    BY <1>1, <1>2, FlightsStep, CallsStep, CookieStep, TokensGrow
  <1>6. Typed'
    BY <1>1, <1>3, <1>5, ScreensStep, CountersStep DEF Typed
  <1>7. QED
    BY <1>2, <1>3, <1>4, <1>6 DEF AuthInv

-----------------------------------------------------------------------------
(* Every token was paid for.                                               *)

LEMMA TabsFinite == IsFiniteSet(Tabs) /\ IsFiniteSet(Calls) /\ Cardinality(Tabs) \in Nat
  <1>1. IsFiniteSet(1 .. 2)
    <2>1. 1 .. 2 = {1, 2}
      OBVIOUS
    <2>2. IsFiniteSet({1}) /\ {1, 2} = {1} \cup {2}
      BY FS_Singleton
    <2>3. QED
      BY <2>1, <2>2, FS_AddElement
  <1>2. IsFiniteSet(Tabs \X (1 .. 2))
    BY <1>1, FS_Product, AuthAssumption
  <1>3. QED
    BY <1>2, CallsTyped, FS_Subset, FS_CardinalityType, AuthAssumption

(* Sizes of a set that shrinks, loses an element or gains one.             *)
LEMMA Sizes ==
    ASSUME NEW A, IsFiniteSet(A), NEW B, NEW x
    PROVE  /\ Cardinality(A) \in Nat
           /\ B \subseteq A => IsFiniteSet(B) /\ Cardinality(B) \in Nat
                               /\ Cardinality(B) <= Cardinality(A)
           /\ x \in A /\ B \subseteq A \ {x} => IsFiniteSet(B) /\ Cardinality(B) \in Nat
                               /\ Cardinality(B) + 1 <= Cardinality(A)
           /\ B \subseteq A \cup {x} => IsFiniteSet(B) /\ Cardinality(B) \in Nat
                               /\ Cardinality(B) <= Cardinality(A) + 1
  <1>1. Cardinality(A) \in Nat
    BY FS_CardinalityType
  <1>2. ASSUME B \subseteq A
        PROVE  IsFiniteSet(B) /\ Cardinality(B) \in Nat /\ Cardinality(B) <= Cardinality(A)
    BY <1>2, FS_Subset, FS_CardinalityType
  <1>3. ASSUME x \in A, B \subseteq A \ {x}
        PROVE  IsFiniteSet(B) /\ Cardinality(B) \in Nat /\ Cardinality(B) + 1 <= Cardinality(A)
    <2>1. IsFiniteSet(A \ {x}) /\ Cardinality(A \ {x}) = Cardinality(A) - 1
      BY <1>3, FS_RemoveElement
    <2>2. IsFiniteSet(B) /\ Cardinality(B) \in Nat /\ Cardinality(B) <= Cardinality(A \ {x})
      BY <1>3, <2>1, FS_Subset, FS_CardinalityType
    <2>3. QED
      BY <1>1, <2>1, <2>2
  <1>4. ASSUME B \subseteq A \cup {x}
        PROVE  IsFiniteSet(B) /\ Cardinality(B) \in Nat /\ Cardinality(B) <= Cardinality(A) + 1
    <2>1. IsFiniteSet(A \cup {x}) /\ Cardinality(A \cup {x}) \in Nat
          /\ Cardinality(A \cup {x}) <= Cardinality(A) + 1
      BY <1>1, FS_AddElement
    <2>2. IsFiniteSet(B) /\ Cardinality(B) \in Nat /\ Cardinality(B) <= Cardinality(A \cup {x})
      BY <1>4, <2>1, FS_Subset, FS_CardinalityType
    <2>3. QED
      BY <1>1, <2>1, <2>2
  <1>5. QED
    BY <1>1, <1>2, <1>3, <1>4

(* What a step earns and spends: a chance is spent for a token or handed   *)
(* from a request to the refresh it starts, and a new one is paid for.     *)
FewerChances == Rotatable' \subseteq Rotatable /\ MayIssue' \subseteq MayIssue
Accounts ==
    \/ FewerChances /\ Len(tokens') = Len(tokens) /\ UNCHANGED <<calls, lost>>
    \/ FewerChances /\ Len(tokens') = Len(tokens) /\ calls' = calls + 1 /\ UNCHANGED lost
    \/ FewerChances /\ Len(tokens') = Len(tokens) /\ UNCHANGED calls /\ lost' = lost + 1
    \/ /\ \E t \in Rotatable : Rotatable' \subseteq Rotatable \ {t}
       /\ MayIssue' \subseteq MayIssue
       /\ Len(tokens') = Len(tokens) + 1 /\ UNCHANGED <<calls, lost>>
    \/ /\ Rotatable' \subseteq Rotatable
       /\ \E c \in MayIssue : MayIssue' \subseteq MayIssue \ {c}
       /\ Len(tokens') = Len(tokens) + 1 /\ UNCHANGED <<calls, lost>>
    \/ /\ Rotatable' \subseteq Rotatable
       /\ \E c \in Calls : MayIssue' \subseteq MayIssue \cup {c}
       /\ Len(tokens') = Len(tokens) /\ calls' = calls + 1 /\ UNCHANGED lost
    \/ /\ \E t \in Tabs : Rotatable' \subseteq Rotatable \cup {t}
       /\ \E c \in MayIssue : MayIssue' \subseteq MayIssue \ {c}
       /\ Len(tokens') = Len(tokens) /\ UNCHANGED <<calls, lost>>
    \/ /\ \E t \in Tabs : Rotatable' \subseteq Rotatable \cup {t}
       /\ MayIssue' \subseteq MayIssue
       /\ Len(tokens') = Len(tokens) /\ UNCHANGED calls /\ lost' = lost + 1

LEMMA AccountsPaid ==
    ASSUME Typed, Typed', Paid, Accounts
    PROVE  Paid'
  <1> DEFINE r == Cardinality(Rotatable)
             m == Cardinality(MayIssue)
             r1 == Cardinality(Rotatable')
             m1 == Cardinality(MayIssue')
  <1>1. IsFiniteSet(Rotatable) /\ IsFiniteSet(MayIssue)
    BY TabsFinite, FS_Subset DEF Rotatable, MayIssue
  <1>2. /\ Len(tokens) \in Nat /\ Len(tokens') \in Nat /\ calls \in Nat /\ lost \in Nat
        /\ calls' \in Nat /\ lost' \in Nat /\ Cardinality(Tabs) \in Nat
    BY TabsFinite, AuthAssumption DEF Typed
  <1>3. r \in Nat /\ m \in Nat
    BY <1>1, FS_CardinalityType
  <1>4. Rotatable' \subseteq Rotatable => r1 \in Nat /\ r1 <= r
    BY <1>1, Sizes
  <1>5. MayIssue' \subseteq MayIssue => m1 \in Nat /\ m1 <= m
    BY <1>1, Sizes
  <1>6. ASSUME NEW t \in Rotatable, Rotatable' \subseteq Rotatable \ {t}
        PROVE  r1 \in Nat /\ r1 + 1 <= r
    BY <1>1, <1>6, Sizes
  <1>7. ASSUME NEW c \in MayIssue, MayIssue' \subseteq MayIssue \ {c}
        PROVE  m1 \in Nat /\ m1 + 1 <= m
    BY <1>1, <1>7, Sizes
  <1>8. ASSUME NEW c, MayIssue' \subseteq MayIssue \cup {c}
        PROVE  m1 \in Nat /\ m1 <= m + 1
    BY <1>1, <1>8, Sizes
  <1>9. ASSUME NEW t, Rotatable' \subseteq Rotatable \cup {t}
        PROVE  r1 \in Nat /\ r1 <= r + 1
    BY <1>1, <1>9, Sizes
  <1>10. Len(tokens) + r + m <= 1 + Cardinality(Tabs) + calls + lost
    BY DEF Paid
  <1> HIDE DEF r, m, r1, m1
  <1>11. Len(tokens') + r1 + m1 <= 1 + Cardinality(Tabs) + calls' + lost'
    <2>1. CASE /\ FewerChances /\ Len(tokens') = Len(tokens)
               /\ calls' \in {calls, calls + 1} /\ lost' \in {lost, lost + 1}
      <3>1. r1 \in Nat /\ m1 \in Nat /\ r1 <= r /\ m1 <= m
        BY <1>4, <1>5, <2>1 DEF FewerChances
      <3>2. calls <= calls' /\ lost <= lost'
        BY <1>2, <2>1
      <3>3. QED
        BY <1>2, <1>3, <1>10, <2>1, <3>1, <3>2
    <2>2. CASE /\ \E t \in Rotatable : Rotatable' \subseteq Rotatable \ {t}
               /\ MayIssue' \subseteq MayIssue
               /\ Len(tokens') = Len(tokens) + 1 /\ UNCHANGED <<calls, lost>>
      BY <1>2, <1>3, <1>5, <1>6, <1>10, <2>2, SMTT(40)
    <2>3. CASE /\ Rotatable' \subseteq Rotatable
               /\ \E c \in MayIssue : MayIssue' \subseteq MayIssue \ {c}
               /\ Len(tokens') = Len(tokens) + 1 /\ UNCHANGED <<calls, lost>>
      BY <1>2, <1>3, <1>4, <1>7, <1>10, <2>3, SMTT(40)
    <2>4. CASE /\ Rotatable' \subseteq Rotatable
               /\ \E c \in Calls : MayIssue' \subseteq MayIssue \cup {c}
               /\ Len(tokens') = Len(tokens) /\ calls' = calls + 1 /\ UNCHANGED lost
      <3>1. r1 \in Nat /\ m1 \in Nat /\ r1 <= r /\ m1 <= m + 1
        BY <1>4, <1>8, <2>4
      <3>2. QED
        BY <1>2, <1>3, <1>10, <2>4, <3>1
    <2>5. CASE /\ \E t \in Tabs : Rotatable' \subseteq Rotatable \cup {t}
               /\ \E c \in MayIssue : MayIssue' \subseteq MayIssue \ {c}
               /\ Len(tokens') = Len(tokens) /\ UNCHANGED <<calls, lost>>
      <3>1. r1 \in Nat /\ m1 \in Nat /\ r1 <= r + 1 /\ m1 + 1 <= m
        BY <1>7, <1>9, <2>5
      <3>2. QED
        BY <1>2, <1>3, <1>10, <2>5, <3>1
    <2>6. CASE /\ \E t \in Tabs : Rotatable' \subseteq Rotatable \cup {t}
               /\ MayIssue' \subseteq MayIssue
               /\ Len(tokens') = Len(tokens) /\ UNCHANGED calls /\ lost' = lost + 1
      <3>1. r1 \in Nat /\ m1 \in Nat /\ r1 <= r + 1 /\ m1 <= m
        BY <1>5, <1>9, <2>6
      <3>2. QED
        BY <1>2, <1>3, <1>10, <2>6, <3>1
    <2>7. QED
      BY <2>1, <2>2, <2>3, <2>4, <2>5, <2>6 DEF Accounts
  <1>12. QED
    BY <1>11 DEF Paid, r1, m1

LEMMA SettleSpends ==
    ASSUME Typed, NEW t \in Tabs, NEW ok, Settle(t, ok)
    PROVE  FewerChances
  <1>1. /\ flight' = [flight EXCEPT ![t] = NoFlight]
        /\ \A c \in Calls : call'[c] \in {call[c], [call[c] EXCEPT !.state = "ok"], NoCall}
    BY DEF Settle
  <1>2. \A u \in Tabs : flight'[u].state \in {flight[u].state, "none"}
    BY <1>1 DEF Typed, NoFlight
  <1>3. \A c \in Calls : call'[c] = call[c] \/ call'[c].state \in {"ok", "none"}
    BY <1>1 DEF Typed, NoCall, CallRow
  <1>4. QED
    BY <1>2, <1>3 DEF FewerChances, Rotatable, MayIssue

LEMMA AccountsStep ==
    ASSUME Typed, Numbered, [Next]_vars
    PROVE  Accounts
  <1>1. Len(tokens) \in Nat
    BY DEF Typed
  <1>2. CASE UNCHANGED <<flight, call, tokens, calls, lost>>
    BY <1>2 DEF Accounts, FewerChances, Rotatable, MayIssue
  <1>3. ASSUME NEW t \in Tabs, RefreshCheck(t)
        PROVE  Accounts
    <2>1. Len(tokens') = Len(tokens) /\ UNCHANGED <<calls, lost, call>>
      BY <1>3, KeepsTokens, RevokeKeeps DEF RefreshCheck, OnlyRevoked
    <2>2. t \in Rotatable /\ \A u \in Tabs \ {t} : flight'[u] = flight[u]
      BY <1>3 DEF RefreshCheck, Rotatable, Typed
    <2>3. FewerChances
      BY <2>1, <2>2 DEF FewerChances, Rotatable, MayIssue
    <2>4. QED
      BY <2>1, <2>3 DEF Accounts
  <1>4. ASSUME NEW t \in Tabs, RefreshRotate(t)
        PROVE  Accounts
    <2>1. Len(tokens') = Len(tokens) + 1
      BY <1>4, RotationIssues DEF OneMore
    <2>2. UNCHANGED <<call, calls, lost>> /\ MayIssue' \subseteq MayIssue /\ t \in Rotatable
      BY <1>4 DEF RefreshRotate, MayIssue, Rotatable
    <2>3. flight'[t].state = "rotated" /\ \A u \in Tabs \ {t} : flight'[u] = flight[u]
      BY <1>4 DEF RefreshRotate, Typed, FlightRow
    <2>4. Rotatable' \subseteq Rotatable \ {t}
      BY <2>3 DEF Rotatable
    <2>5. QED
      BY <2>1, <2>2, <2>4 DEF Accounts
  <1>5. ASSUME NEW t \in Tabs, RefreshArrive(t) \/ RefreshFails(t)
        PROVE  Accounts
    <2>1. FewerChances
      <3>1. \E ok \in BOOLEAN : Settle(t, ok)
        BY <1>5 DEF RefreshArrive, RefreshFails
      <3>2. QED
        BY <3>1, SettleSpends
    <2>2. UNCHANGED <<tokens, calls>> /\ lost' \in {lost, lost + 1}
      BY <1>5 DEF RefreshArrive, RefreshFails, server
    <2>3. QED
      BY <2>1, <2>2 DEF Accounts
  <1>6. ASSUME NEW t \in Tabs, AccessExpires(t)
        PROVE  Accounts
    BY <1>2, <1>6 DEF AccessExpires, server
  <1>7. ASSUME NEW t \in Tabs, ReloadTab(t)
        PROVE  Accounts
    <2>1. UNCHANGED <<tokens, calls>> /\ lost' = lost + 1
      BY <1>7 DEF ReloadTab
    <2>2. /\ \A u \in Tabs \ {t} : flight'[u] = flight[u]
          /\ \A c \in Calls : call'[c] \in {call[c], NoCall}
      BY <1>7 DEF ReloadTab, Typed
    <2>3. Rotatable' \subseteq Rotatable \cup {t} /\ MayIssue' \subseteq MayIssue
      BY <2>2 DEF Rotatable, MayIssue, NoCall
    <2>4. QED
      BY <2>1, <2>3 DEF Accounts
  <1>8. ASSUME NEW c \in Calls, QueryArrive(c)
        PROVE  Accounts
    <2>1. UNCHANGED <<tokens, calls, lost>> /\ \A d \in Calls \ {c} : call'[d] = call[d]
      BY <1>8 DEF QueryArrive, server, Typed
    <2>2. call'[c].state \in {"waiting", "none"}
      BY <1>8 DEF QueryArrive, Typed, NoCall, CallRow
    <2>3. MayIssue' \subseteq MayIssue \ {c}
      BY <2>1, <2>2 DEF MayIssue
    <2>4. CASE UNCHANGED flight
      BY <2>1, <2>3, <2>4 DEF Accounts, FewerChances, Rotatable
    <2>5. CASE c \in MayIssue /\ flight' = [flight EXCEPT ![c[1]] = Refreshing(c[1])]
      <3>1. c[1] \in Tabs /\ \A u \in Tabs \ {c[1]} : flight'[u] = flight[u]
        BY <2>5, CallsTyped DEF Typed
      <3>2. Rotatable' \subseteq Rotatable \cup {c[1]}
        BY <3>1 DEF Rotatable
      <3>3. QED
        BY <2>1, <2>3, <2>5, <3>1, <3>2 DEF Accounts
    <2>6. QED
      BY <1>8, <2>4, <2>5 DEF QueryArrive, MayIssue
  <1>9. ASSUME NEW c \in Calls, ServeSignIn(c)
        PROVE  Accounts
    <2>1. UNCHANGED <<flight, calls, lost>> /\ Rotatable' \subseteq Rotatable /\ c \in MayIssue
      BY <1>9 DEF ServeSignIn, Rotatable, MayIssue
    <2>2. call'[c].state \in {"refused", "ok"} /\ \A d \in Calls \ {c} : call'[d] = call[d]
      BY <1>9 DEF ServeSignIn, Answer, Typed, CallRow
    <2>3. MayIssue' \subseteq MayIssue \ {c}
      BY <2>2 DEF MayIssue
    <2>4. Len(tokens') \in {Len(tokens), Len(tokens) + 1}
      BY <1>1, <1>9, SignInIssues DEF ServeSignIn, server, OneMore
    <2>5. QED
      BY <2>1, <2>3, <2>4 DEF Accounts, FewerChances
  <1>10. ASSUME NEW c \in Calls, ServeSignOut(c)
         PROVE  Accounts
    <2>1. UNCHANGED <<flight, calls, lost>> /\ Len(tokens') = Len(tokens)
      BY <1>10, RevokeKeeps DEF ServeSignOut, OnlyRevoked
    <2>2. call'[c].state \in {"refused", "ok"} /\ \A d \in Calls \ {c} : call'[d] = call[d]
      BY <1>10 DEF ServeSignOut, Answer, Typed, CallRow
    <2>3. FewerChances
      BY <2>1, <2>2 DEF FewerChances, MayIssue, Rotatable
    <2>4. QED
      BY <2>1, <2>3 DEF Accounts
  <1>11. ASSUME NEW c \in Calls, SignInArrive(c) \/ SignOutArrive(c) \/ CallFails(c)
         PROVE  Accounts
    <2>1. UNCHANGED <<flight, tokens, calls>> /\ lost' \in {lost, lost + 1}
      BY <1>11 DEF SignInArrive, SignOutArrive, CallFails, server
    <2>2. call' = [call EXCEPT ![c] = NoCall]
      BY <1>11 DEF SignInArrive, SignOutArrive, CallFails
    <2>3. \A d \in Calls : call'[d] \in {call[d], NoCall}
      BY <2>2 DEF Typed
    <2>4. FewerChances
      BY <2>1, <2>3 DEF FewerChances, MayIssue, Rotatable, NoCall
    <2>5. QED
      BY <2>1, <2>4 DEF Accounts
  <1>12. ASSUME NEW c \in Calls, NEW kind \in Kinds, Send(c, kind)
         PROVE  Accounts
    <2>1. UNCHANGED <<flight, tokens, lost>> /\ calls' = calls + 1
      BY <1>12 DEF Send, server
    <2>2. \A d \in Calls \ {c} : call'[d] = call[d]
      BY <1>12 DEF Send, Typed
    <2>3. MayIssue' \subseteq MayIssue \cup {c} /\ Rotatable' \subseteq Rotatable
      BY <2>1, <2>2 DEF MayIssue, Rotatable
    <2>4. QED
      BY <2>1, <2>3 DEF Accounts
  <1>13. CASE ResetPassword
    <2>1. UNCHANGED <<flight, call, lost>> /\ calls' = calls + 1 /\ Len(tokens') = Len(tokens)
      BY <1>13, RevokeAllKeeps DEF ResetPassword, OnlyRevoked
    <2>2. QED
      BY <2>1 DEF Accounts, FewerChances, MayIssue, Rotatable
  <1>14. CASE UNCHANGED vars
    BY <1>2, <1>14 DEF vars
  <1>15. QED
    BY <1>3, <1>4, <1>5, <1>6, <1>7, <1>8, <1>9, <1>10, <1>11, <1>12, <1>13, <1>14
       DEF Next, RefreshSteps, CallSteps

LEMMA PaidInit == ASSUME Init PROVE Paid
  <1>1. Len(tokens) \in {0, 1} /\ calls = 0 /\ lost = 0
    BY DEF Init
  <1>2. MayIssue = {}
    BY DEF Init, MayIssue, NoCall
  <1>3. Cardinality(MayIssue) = 0
    BY <1>2, FS_EmptySet
  <1>4. /\ Cardinality(Rotatable) \in Nat /\ Cardinality(Tabs) \in Nat
        /\ Cardinality(Rotatable) <= Cardinality(Tabs)
    <2>1. Rotatable \subseteq Tabs
      BY DEF Rotatable
    <2>2. QED
      BY <2>1, TabsFinite, Sizes
  <1>5. Len(tokens) + Cardinality(Rotatable) + 0 <= 1 + Cardinality(Tabs) + 0 + 0
    <2>1. ASSUME NEW n \in {0, 1}, NEW r \in Nat, NEW t \in Nat, r <= t
          PROVE  n + r + 0 <= 1 + t + 0 + 0
      BY <2>1
    <2>2. QED
      BY <1>1, <1>4, <2>1
  <1>6. QED
    BY <1>1, <1>3, <1>5 DEF Paid

LEMMA TypeFollows ==
    ASSUME AuthInv, Paid
    PROVE  TypeOK
  <1> DEFINE top == 1 + Cardinality(Tabs) + MaxCalls + MaxLost
  <1>1. Typed /\ Rotated /\ Numbered /\ Len(tokens) \in Nat /\ DOMAIN tokens = 1 .. Len(tokens)
    BY DEF AuthInv, Typed
  <1>2. top \in Nat /\ Cardinality(Token) = top /\ Token = 1 .. top
    <2>1. top \in Nat
      BY TabsFinite, AuthAssumption
    <2>2. QED
      BY <2>1, FS_Interval DEF Token
  <1>3. Len(tokens) <= top
    <2>1. IsFiniteSet(Rotatable) /\ IsFiniteSet(MayIssue)
      BY TabsFinite, FS_Subset DEF Rotatable, MayIssue
    <2>2. Cardinality(Rotatable) \in Nat /\ Cardinality(MayIssue) \in Nat
      BY <2>1, FS_CardinalityType
    <2>3. calls \in 0 .. MaxCalls /\ lost \in 0 .. MaxLost
      BY <1>1 DEF Typed
    <2>4. QED
      BY <1>1, <2>2, <2>3, TabsFinite, AuthAssumption DEF Paid
  <1> HIDE DEF top
  <1>4. Families \subseteq Token
    BY <1>1, <1>2, <1>3 DEF Numbered
  <1>5. \A k \in DOMAIN tokens : tokens[k] \in [family : Token, used : BOOLEAN, revoked : BOOLEAN]
    <2>1. \A k \in DOMAIN tokens : tokens[k] \in TokenRow /\ tokens[k].family \in Families
      BY <1>1 DEF Typed, Families
    <2>2. QED
      BY <1>4, <2>1 DEF TokenRow
  <1>6. /\ \A t \in Tabs : flight[t].tok <= Len(tokens) /\ flight[t].new <= Len(tokens)
        /\ \A t \in Tabs : (flight[t] = NoFlight) = (flight[t].state = "none")
    <2>1. \A t \in Tabs : flight[t] \in FlightRow(Len(tokens))
      BY <1>1 DEF Typed
    <2>2. QED
      BY <1>1, <2>1 DEF FlightRow
  <1>7. \A c \in Calls : call[c].kind \in Kinds \cup {"none"}
    <2>1. \A c \in Calls : call[c] \in CallRow(Len(tokens))
      BY <1>1 DEF Typed
    <2>2. QED
      BY <2>1 DEF CallRow
  <1>8. \A k \in DOMAIN rotatedBy : rotatedBy[k] \in Tabs \cup {"lost"} /\ tokens[k].used
    BY <1>1 DEF Rotated
  <1>9. /\ ended \subseteq Token /\ cookie \in 0 .. Len(tokens)
        /\ status \in [Tabs -> {"loading", "authed", "anon"}]
        /\ access \in [Tabs -> {"none", "live", "expired"}]
        /\ hydrating \in [Tabs -> BOOLEAN]
        /\ calls \in 0 .. MaxCalls /\ lost \in 0 .. MaxLost
    BY <1>1, <1>4 DEF Typed
  <1>10. Len(tokens) <= Cardinality(Token)
    BY <1>2, <1>3
  <1>11. QED
    BY <1>5, <1>6, <1>7, <1>8, <1>9, <1>10 DEF TypeOK

(* Every token is one of at most as many as there were reasons to issue    *)
(* one, a rotated token is used, and every name a tab or a request holds   *)
(* is that of a token there is (service.go and client.ts).                 *)
THEOREM AuthTypeCorrect == Spec => []TypeOK
  <1>1. Init => AuthInv /\ Paid
    BY AuthInit, PaidInit
  <1>2. AuthInv /\ Paid /\ [Next]_vars => (AuthInv /\ Paid)'
    <2> SUFFICES ASSUME AuthInv, Paid, [Next]_vars
                 PROVE  AuthInv' /\ Paid'
      OBVIOUS
    <2>1. AuthInv'
      BY AuthStep
    <2>2. Typed /\ Numbered /\ Typed'
      BY <2>1 DEF AuthInv
    <2>3. QED
      BY <2>1, <2>2, AccountsStep, AccountsPaid
  <1>3. AuthInv /\ Paid => TypeOK
    BY TypeFollows
  <1>4. QED
    BY <1>1, <1>2, <1>3, PTL DEF Spec

-----------------------------------------------------------------------------
(* An ended family is dead.                                                *)

ChecksNoMore ==
    \A t \in Tabs : flight'[t].state = "checked" =>
                        flight[t].state = "checked" /\ flight'[t].tok = flight[t].tok

LEMMA ChecksOf ==
    ASSUME Typed, [Next]_vars, \A t \in Tabs : ~RefreshCheck(t)
    PROVE  ChecksNoMore
  <1>1. CASE UNCHANGED flight
    BY <1>1 DEF ChecksNoMore
  <1>2. ASSUME NEW t \in Tabs, NEW r, flight' = [flight EXCEPT ![t] = r], r.state # "checked"
        PROVE  ChecksNoMore
    BY <1>2 DEF ChecksNoMore, Typed
  <1>3. ASSUME NEW t \in Tabs,
               RefreshArrive(t) \/ RefreshFails(t) \/ RefreshRotate(t) \/ ReloadTab(t)
        PROVE  ChecksNoMore
    <2>1. CASE RefreshArrive(t) \/ RefreshFails(t)
      BY <1>2, <2>1 DEF RefreshArrive, RefreshFails, Settle, NoFlight
    <2>2. CASE ReloadTab(t)
      <3>1. Flight(cookie).state # "checked" /\ flight' = [flight EXCEPT ![t] = Flight(cookie)]
        BY <2>2 DEF ReloadTab, Flight
      <3>2. QED
        BY <1>2, <3>1
    <2>3. CASE RefreshRotate(t)
      <3>1. /\ flight'[t].state = "rotated"
            /\ \A u \in Tabs \ {t} : flight'[u] = flight[u]
        BY <2>3 DEF RefreshRotate, Typed, FlightRow
      <3>2. QED
        BY <3>1 DEF ChecksNoMore
    <2>4. QED
      BY <1>3, <2>1, <2>2, <2>3
  <1>4. ASSUME NEW t \in Tabs, AccessExpires(t)
        PROVE  UNCHANGED flight
    BY <1>4 DEF AccessExpires
  <1>5. ASSUME NEW c \in Calls, QueryArrive(c)
        PROVE  ChecksNoMore
    <2>1. c[1] \in Tabs
      BY CallsTyped
    <2>2. Refreshing(c[1]) = flight[c[1]] \/ Refreshing(c[1]).state = "sent"
      BY DEF Refreshing, Flight
    <2>3. UNCHANGED flight \/ flight' = [flight EXCEPT ![c[1]] = Refreshing(c[1])]
      BY <1>5 DEF QueryArrive
    <2>4. QED
      BY <1>1, <2>1, <2>2, <2>3 DEF ChecksNoMore, Typed
  <1>6. ASSUME NEW c \in Calls,
               \/ ServeSignIn(c) \/ SignInArrive(c) \/ ServeSignOut(c)
               \/ SignOutArrive(c) \/ CallFails(c)
        PROVE  UNCHANGED flight
    BY <1>6 DEF ServeSignIn, SignInArrive, ServeSignOut, SignOutArrive, CallFails
  <1>7. ASSUME NEW c \in Calls, NEW kind \in Kinds, Send(c, kind)
        PROVE  UNCHANGED flight
    BY <1>7 DEF Send
  <1>8. UNCHANGED vars \/ ResetPassword => UNCHANGED flight
    BY DEF vars, ResetPassword
  <1>9. QED
    BY <1>1, <1>3, <1>4, <1>5, <1>6, <1>7, <1>8 DEF Next, RefreshSteps, CallSteps

EndInv == EndedStaysEnded /\ NoneChecked

(* What a checked flight presents is a token there is.                     *)
LEMMA CheckedNamed ==
    ASSUME Typed, NEW t \in Tabs, flight[t].state = "checked"
    PROVE  flight[t].tok \in 1 .. Len(tokens)
  <1>1. flight[t] \in FlightRow(Len(tokens)) /\ Len(tokens) \in Nat
    BY DEF Typed
  <1>2. QED
    BY <1>1 DEF FlightRow

(* A step that ends no family, makes no token good and checks none.        *)
LEMMA EndedRests ==
    ASSUME Typed, Typed', EndInv, OnlyRevoked, ended' = ended, ChecksNoMore
    PROVE  EndInv'
  <1>1. /\ Len(tokens') = Len(tokens) /\ DOMAIN tokens = 1 .. Len(tokens)
        /\ DOMAIN tokens' = 1 .. Len(tokens')
    BY DEF OnlyRevoked, Typed
  <1>2. EndedStaysEnded'
    BY <1>1 DEF EndInv, EndedStaysEnded, OnlyRevoked
  <1>3. ASSUME NEW t \in Tabs, flight'[t].state = "checked"
        PROVE  tokens'[flight'[t].tok].family \notin ended'
    <2>1. flight[t].state = "checked" /\ flight'[t].tok = flight[t].tok
      BY <1>3 DEF ChecksNoMore
    <2>2. flight[t].tok \in 1 .. Len(tokens)
      BY <2>1, CheckedNamed
    <2>3. QED
      BY <2>1, <2>2 DEF EndInv, NoneChecked, OnlyRevoked
  <1>4. QED
    BY <1>2, <1>3 DEF EndInv, NoneChecked

(* Families end, and none of them is being rotated: their tokens go.       *)
LEMMA FamiliesEnd ==
    ASSUME Typed, Typed', EndInv, OnlyRevoked, ChecksNoMore, NEW fs, End(fs),
           \A k \in 1 .. Len(tokens) : tokens'[k].family \in fs => tokens'[k].revoked
    PROVE  EndInv'
  <1>1. /\ Len(tokens') = Len(tokens) /\ DOMAIN tokens = 1 .. Len(tokens)
        /\ DOMAIN tokens' = 1 .. Len(tokens')
    BY DEF OnlyRevoked, Typed
  <1>2. ended' = ended \cup (fs \ BeingRotated)
    BY DEF End
  <1>3. EndedStaysEnded'
    BY <1>1, <1>2 DEF EndInv, EndedStaysEnded, OnlyRevoked
  <1>4. ASSUME NEW t \in Tabs, flight'[t].state = "checked"
        PROVE  tokens'[flight'[t].tok].family \notin ended'
    <2>1. flight[t].state = "checked" /\ flight'[t].tok = flight[t].tok
      BY <1>4 DEF ChecksNoMore
    <2>2. tokens'[flight[t].tok].family = tokens[flight[t].tok].family
      BY <2>1, CheckedNamed DEF OnlyRevoked
    <2>3. tokens[flight[t].tok].family \in BeingRotated
      BY <2>1 DEF BeingRotated
    <2>4. tokens[flight[t].tok].family \notin ended
      BY <2>1 DEF EndInv, NoneChecked
    <2>5. QED
      BY <1>2, <2>1, <2>2, <2>3, <2>4
  <1>5. QED
    BY <1>3, <1>4 DEF EndInv, NoneChecked

(* A token is issued in a family that has not ended.                       *)
LEMMA EndedOneMore ==
    ASSUME Typed, Typed', EndInv, NEW f, OneMore(f), f \notin ended, ended' = ended, ChecksNoMore
    PROVE  EndInv'
  <1>1. /\ Len(tokens) \in Nat /\ Len(tokens') = Len(tokens) + 1
        /\ DOMAIN tokens = 1 .. Len(tokens) /\ DOMAIN tokens' = 1 .. Len(tokens')
    BY DEF OneMore, Typed
  <1>2. tokens'[Len(tokens) + 1].family = f
    BY DEF OneMore, Issue
  <1>3. ASSUME NEW k \in DOMAIN tokens', tokens'[k].family \in ended'
        PROVE  tokens'[k].revoked
    <2>1. k \in 1 .. Len(tokens) \/ k = Len(tokens) + 1
      BY <1>1
    <2>2. k \in 1 .. Len(tokens)
      BY <1>2, <1>3, <2>1
    <2>3. QED
      BY <1>1, <1>3, <2>2 DEF EndInv, EndedStaysEnded, OneMore
  <1>4. ASSUME NEW t \in Tabs, flight'[t].state = "checked"
        PROVE  tokens'[flight'[t].tok].family \notin ended'
    <2>1. flight[t].state = "checked" /\ flight'[t].tok = flight[t].tok
      BY <1>4 DEF ChecksNoMore
    <2>2. flight[t].tok \in 1 .. Len(tokens)
      BY <2>1, CheckedNamed
    <2>3. QED
      BY <2>1, <2>2 DEF EndInv, NoneChecked, OneMore
  <1>5. QED
    BY <1>3, <1>4 DEF EndInv, NoneChecked, EndedStaysEnded

LEMMA EndStep ==
    ASSUME AuthInv, EndInv, [Next]_vars
    PROVE  EndInv'
  <1>1. Typed /\ Numbered /\ Typed' /\ Len(tokens) \in Nat /\ DOMAIN tokens = 1 .. Len(tokens)
    BY AuthStep DEF AuthInv, Typed
  <1>2. ASSUME NEW t \in Tabs, RefreshCheck(t)
        PROVE  EndInv'
    <2> DEFINE k == flight[t].tok
    <2>1. ended' = ended /\ (UNCHANGED tokens \/ tokens' = Revoke(tokens[k].family))
      BY <1>2 DEF RefreshCheck
    <2>2. OnlyRevoked
      BY <1>1, <2>1, KeepsTokens, RevokeKeeps
    <2>3. \A u \in Tabs \ {t} : flight'[u] = flight[u]
      BY <1>1, <1>2 DEF RefreshCheck, Typed
    <2>4. CASE k # 0 /\ ~tokens[k].revoked /\ UNCHANGED tokens
      <3>1. k \in DOMAIN tokens /\ flight'[t].tok = k
        BY <1>1, <1>2, <2>4 DEF RefreshCheck, Typed, FlightRow
      <3>2. tokens[k].family \notin ended
        BY <2>4, <3>1 DEF EndInv, EndedStaysEnded
      <3>3. QED
        BY <2>1, <2>3, <2>4, <3>1, <3>2 DEF EndInv, EndedStaysEnded, NoneChecked
    <2>5. CASE flight'[t].state # "checked"
      BY <1>1, <2>1, <2>2, <2>3, <2>5, EndedRests DEF ChecksNoMore
    <2>6. flight'[t].state # "checked" \/ (k # 0 /\ ~tokens[k].revoked /\ UNCHANGED tokens)
      <3>1. CASE k = 0 \/ tokens[k].revoked \/ tokens[k].used
        <4>1. \E s \in {"no_session", "refused"} : flight' = [flight EXCEPT ![t].state = s]
          BY <1>2, <3>1 DEF RefreshCheck
        <4>2. QED
          BY <1>1, <4>1 DEF Typed, FlightRow
      <3>2. CASE k # 0 /\ ~tokens[k].revoked /\ ~tokens[k].used
        BY <1>2, <3>2 DEF RefreshCheck
      <3>3. QED
        BY <3>1, <3>2
    <2>7. QED
      BY <2>4, <2>5, <2>6
  <1>3. ASSUME NEW t \in Tabs, RefreshRotate(t), ChecksNoMore
        PROVE  EndInv'
    <2>1. tokens[flight[t].tok].family \notin ended /\ ended' = ended
      BY <1>3 DEF RefreshRotate, EndInv, NoneChecked
    <2>2. QED
      BY <1>1, <1>3, <2>1, RotationIssues, EndedOneMore
  <1>4. ASSUME NEW c \in Calls, ServeSignIn(c), ChecksNoMore
        PROVE  EndInv'
    <2>1. CASE UNCHANGED <<tokens, ended>>
      BY <1>1, <1>4, <2>1, KeepsTokens, EndedRests
    <2>2. CASE tokens' = Append(tokens, Issue(NewFamily)) /\ UNCHANGED ended
      <3>1. NewFamily \notin ended
        BY <1>1, FamilyIsNew DEF Typed
      <3>2. QED
        BY <1>1, <1>4, <2>2, <3>1, SignInIssues, EndedOneMore
    <2>3. QED
      BY <1>4, <2>1, <2>2 DEF ServeSignIn, server
  <1>5. ASSUME NEW c \in Calls, ServeSignOut(c), ChecksNoMore
        PROVE  EndInv'
    <2> DEFINE k == call[c].tok
    <2>1. CASE UNCHANGED <<tokens, ended>>
      BY <1>1, <1>5, <2>1, KeepsTokens, EndedRests
    <2>2. CASE tokens' = Revoke(tokens[k].family) /\ End({tokens[k].family})
      <3>1. OnlyRevoked /\ \A j \in 1 .. Len(tokens) :
                tokens'[j].family \in {tokens[k].family} => tokens'[j].revoked
        BY <1>1, <2>2, RevokeKeeps
      <3>2. QED
        BY <1>1, <1>5, <2>2, <3>1, FamiliesEnd
    <2>3. QED
      BY <1>5, <2>1, <2>2 DEF ServeSignOut
  <1>6. ASSUME ResetPassword, ChecksNoMore
        PROVE  EndInv'
    <2>1. End({tokens[k].family : k \in DOMAIN tokens})
      BY <1>6 DEF ResetPassword
    <2>2. OnlyRevoked /\ \A k \in 1 .. Len(tokens) : tokens'[k].revoked
      BY <1>1, <1>6, RevokeAllKeeps DEF ResetPassword
    <2>3. QED
      BY <1>1, <1>6, <2>1, <2>2, FamiliesEnd
  <1>7. ASSUME UNCHANGED <<tokens, ended>>, ChecksNoMore
        PROVE  EndInv'
    BY <1>1, <1>7, KeepsTokens, EndedRests
  <1>8. ASSUME NEW t \in Tabs,
               RefreshArrive(t) \/ RefreshFails(t) \/ AccessExpires(t) \/ ReloadTab(t)
        PROVE  UNCHANGED <<tokens, ended>>
    BY <1>8 DEF RefreshArrive, RefreshFails, AccessExpires, ReloadTab, server
  <1>9. ASSUME NEW c \in Calls,
               QueryArrive(c) \/ SignInArrive(c) \/ SignOutArrive(c) \/ CallFails(c)
        PROVE  UNCHANGED <<tokens, ended>>
    BY <1>9 DEF QueryArrive, SignInArrive, SignOutArrive, CallFails, server
  <1>10. ASSUME NEW c \in Calls, NEW kind \in Kinds, Send(c, kind)
         PROVE  UNCHANGED <<tokens, ended>>
    BY <1>10 DEF Send, server
  <1>11. CASE \A t \in Tabs : ~RefreshCheck(t)
    <2>1. ChecksNoMore
      BY <1>1, <1>11, ChecksOf
    <2>2. QED
      BY <1>3, <1>4, <1>5, <1>6, <1>7, <1>8, <1>9, <1>10, <1>11, <2>1
         DEF Next, RefreshSteps, CallSteps, vars
  <1>12. QED
    BY <1>2, <1>11

(* Signing out or resetting the password ends the session for good, for    *)
(* every tab and however its refreshes are under way, unless a rotation    *)
(* was between its check and its transaction (service.go: Logout,          *)
(* ResetPassword and Refresh).                                             *)
THEOREM AuthEndedStaysEnded == Spec => []EndedStaysEnded
  <1>1. Init => AuthInv /\ EndInv
    <2>1. Init => EndInv
      BY DEF Init, EndInv, EndedStaysEnded, NoneChecked, Flight
    <2>2. QED
      BY <2>1, AuthInit
  <1>2. AuthInv /\ EndInv /\ [Next]_vars => (AuthInv /\ EndInv)'
    BY AuthStep, EndStep
  <1>3. AuthInv /\ EndInv => EndedStaysEnded
    BY DEF EndInv
  <1>4. QED
    BY <1>1, <1>2, <1>3, PTL DEF Spec

-----------------------------------------------------------------------------
(* What a tab shows and what it sends.                                     *)

(* A tab's screen and its token after a flight has settled.                *)
LEMMA SettledScreen ==
    ASSUME Typed, NEW t \in Tabs, NEW ok \in BOOLEAN, Settle(t, ok)
    PROVE  /\ \A u \in Tabs \ {t} : status'[u] = status[u] /\ access'[u] = access[u]
           /\ flight'[t] = NoFlight
           /\ hydrating[t] => ~Mismatch(t)'
  <1>1. access' = [access EXCEPT ![t] = IF ok THEN "live" ELSE "none"]
    BY DEF Settle
  <1>2. access'[t] = IF ok THEN "live" ELSE "none"
    BY <1>1 DEF Typed
  <1>3. hydrating[t] => status'[t] = IF ok THEN "authed" ELSE "anon"
    BY DEF Settle, Typed
  <1>4. \A u \in Tabs \ {t} : status'[u] = status[u] /\ access'[u] = access[u]
    BY DEF Settle, Typed
  <1>5. flight'[t] = NoFlight
    BY DEF Settle, Typed
  <1>6. hydrating[t] => ~Mismatch(t)'
    BY <1>2, <1>3 DEF Mismatch
  <1>7. QED
    BY <1>4, <1>5, <1>6

Excused(t) ==
    \/ flight[t] # NoFlight /\ flight'[t] = NoFlight /\ ~hydrating[t]
    \/ \E c \in Calls : c[1] = t /\ call[c].kind = "me" /\ call[c].state = "ok"

LEMMA StatusStep ==
    ASSUME Typed, [Next]_vars, NEW t \in Tabs, ~Mismatch(t), Mismatch(t)'
    PROVE  Excused(t)
  <1>1. ~(status'[t] = status[t] /\ access'[t] = access[t])
    BY DEF Mismatch
  <1>2. ASSUME NEW u \in Tabs, RefreshArrive(u) \/ RefreshFails(u)
        PROVE  Excused(t)
    <2>1. PICK ok \in BOOLEAN : Settle(u, ok)
      BY <1>2 DEF RefreshArrive, RefreshFails
    <2>2. u = t /\ flight'[t] = NoFlight /\ ~hydrating[t]
      BY <1>1, <2>1, SettledScreen
    <2>3. flight[t] # NoFlight
      <3>1. flight[u].state \in {"sent", "rotated", "refused", "no_session"}
        BY <1>2 DEF RefreshArrive, RefreshFails
      <3>2. NoFlight.state = "none"
        BY DEF NoFlight
      <3>3. QED
        BY <2>2, <3>1, <3>2
    <2>4. QED
      BY <2>2, <2>3 DEF Excused
  <1>3. ASSUME NEW u \in Tabs
        PROVE  ~RefreshCheck(u) /\ ~RefreshRotate(u)
    BY <1>1 DEF RefreshCheck, RefreshRotate
  <1>4. ASSUME NEW u \in Tabs
        PROVE  ~AccessExpires(u) /\ ~ReloadTab(u)
    BY <1>1 DEF AccessExpires, ReloadTab, Mismatch, Typed
  <1>5. ASSUME NEW c \in Calls, QueryArrive(c)
        PROVE  Excused(t)
    <2>1. UNCHANGED access
      BY <1>5 DEF QueryArrive
    <2>2. call[c].kind = "me" /\ call[c].state = "ok"
          /\ status' = [status EXCEPT ![c[1]] = "authed"]
      BY <1>1, <1>5, <2>1 DEF QueryArrive
    <2>3. c[1] = t
      BY <1>1, <2>1, <2>2, CallsTyped DEF Typed
    <2>4. QED
      BY <1>5, <2>2, <2>3 DEF Excused
  <1>6. ASSUME NEW c \in Calls
        PROVE  ~SignInArrive(c) /\ ~SignOutArrive(c)
    BY <1>1, CallsTyped DEF SignInArrive, SignOutArrive, Mismatch, Typed
  <1>7. ASSUME NEW c \in Calls
        PROVE  ~ServeSignIn(c) /\ ~ServeSignOut(c) /\ ~CallFails(c)
    BY <1>1 DEF ServeSignIn, ServeSignOut, CallFails
  <1>8. ASSUME NEW c \in Calls, NEW kind \in Kinds
        PROVE  ~Send(c, kind)
    BY <1>1 DEF Send
  <1>9. ~UNCHANGED vars /\ ~ResetPassword
    BY <1>1 DEF vars, ResetPassword
  <1>10. QED
    BY <1>2, <1>3, <1>4, <1>5, <1>6, <1>7, <1>8, <1>9 DEF Next, RefreshSteps, CallSteps

(* The header and the token part only where two answers come between them  *)
(* (session.tsx and client.ts), in any number of tabs.                     *)
THEOREM AuthStatusFollowsToken == Spec => StatusFollowsToken
  <1>1. Init => AuthInv
    BY AuthInit
  <1>2. AuthInv /\ [Next]_vars => AuthInv'
    BY AuthStep
  <1>3. AuthInv /\ [Next]_vars =>
            [\A t \in Tabs : ~Mismatch(t) /\ Mismatch(t)' => Excused(t)]_vars
    BY StatusStep DEF AuthInv
  <1>4. QED
    <2>1. [\A t \in Tabs : ~Mismatch(t) /\ Mismatch(t)' => Excused(t)]_vars
            <=> [\A t \in Tabs : ~Mismatch(t) /\ Mismatch(t)'
                    => \/ flight[t] # NoFlight /\ flight'[t] = NoFlight /\ ~hydrating[t]
                       \/ \E c \in Calls : c[1] = t /\ call[c].kind = "me"
                                           /\ call[c].state = "ok"]_vars
      BY DEF Excused
    <2>2. QED
      BY <1>1, <1>2, <1>3, <2>1, PTL DEF Spec, StatusFollowsToken

-----------------------------------------------------------------------------
(* A tab alone never replays its own token.                                *)

(* A token that was used was rotated by some flight.                       *)
UsedRotated == \A k \in 1 .. Len(tokens) : tokens[k].used => k \in DOMAIN rotatedBy

Presents(t) == flight[t].state \in {"sent", "checked"}

(* A flight that brings nothing new: it goes on, ends, or is the first to  *)
(* take the cookie.                                                        *)
FlightQuiet(t) ==
    /\ Carries(t)' <=> Carries(t)
    /\ Carries(t) => flight'[t].tok = flight[t].tok /\ flight'[t].new = flight[t].new
    /\ flight'[t].tok \in {flight[t].tok, cookie, 0}
    /\ Presents(t)' => \/ Presents(t) /\ flight'[t].tok = flight[t].tok
                       \/ flight'[t].tok = cookie /\ ~Carries(t)

CallQuiet(c) == Brings(c)' => Brings(c) /\ call'[c].tok = call[c].tok

Quiet ==
    /\ UNCHANGED rotatedBy /\ cookie' \in {cookie, 0}
    /\ \A t \in Tabs : FlightQuiet(t)
    /\ \A c \in Calls : CallQuiet(c)

(* A token reaches the cookie, and only that answer is gone.               *)
Delivers(n) ==
    /\ UNCHANGED rotatedBy /\ Unknown(n) /\ cookie' = n
    /\ \A t \in Tabs : /\ Carries(t)' => Carries(t) /\ flight'[t].new = flight[t].new
                                         /\ flight[t].new # n
                       /\ flight'[t].tok \in {flight[t].tok, 0}
                       /\ Presents(t)' => Presents(t) /\ flight'[t].tok = flight[t].tok
    /\ \A c \in Calls : Brings(c)' => Brings(c) /\ call'[c].tok = call[c].tok /\ call[c].tok # n

(* The answer of a rotation is lost.                                       *)
Forsakes(t) ==
    /\ Carries(t) /\ rotatedBy' = [rotatedBy EXCEPT ![flight[t].tok] = "lost"]
    /\ UNCHANGED cookie
    /\ flight'[t] \in {NoFlight, Flight(cookie)}
    /\ \A u \in Tabs \ {t} : flight'[u] = flight[u]
    /\ \A c \in Calls : CallQuiet(c)

LEMMA QuietKeeps ==
    ASSUME Rotated, Typed, Undelivered, LeftBehind, Quiet
    PROVE  Undelivered' /\ LeftBehind'
  <1>1. \A k \in DOMAIN rotatedBy : k # 0
    BY DEF Rotated, Typed
  <1>2. ASSUME NEW n, Unknown(n)
        PROVE  Unknown(n)'
    BY <1>2 DEF Unknown, Quiet, FlightQuiet
  <1>3. ASSUME NEW t \in Tabs, Carries(t)'
        PROVE  Carries(t) /\ flight'[t].new = flight[t].new
    BY <1>3 DEF Quiet, FlightQuiet
  <1>4. ASSUME NEW c \in Calls, Brings(c)'
        PROVE  Brings(c) /\ call'[c].tok = call[c].tok
    BY <1>4 DEF Quiet, CallQuiet
  <1>5. Undelivered'
    <2>1. \A t \in Tabs : Carries(t)' => Unknown(flight[t].new)'
      BY <1>2, <1>3 DEF Undelivered
    <2>2. \A c \in Calls : Brings(c)' => Unknown(call[c].tok)'
      BY <1>2, <1>4 DEF Undelivered
    <2>3. QED
      BY <1>3, <1>4, <2>1, <2>2 DEF Undelivered
  <1>6. LeftBehind'
    <2> SUFFICES ASSUME NEW t \in Tabs, NEW k \in DOMAIN rotatedBy', rotatedBy'[k] = t
                 PROVE  /\ Presents(t)' => flight'[t].tok # k
                        /\ cookie' = k => Carries(t)' /\ flight'[t].tok = k
      BY DEF LeftBehind, Presents
    <2>1. k \in DOMAIN rotatedBy /\ rotatedBy[k] = t /\ k # 0
      BY <1>1 DEF Quiet
    <2>2. /\ Presents(t) => flight[t].tok # k
          /\ cookie = k => Carries(t) /\ flight[t].tok = k
      BY <2>1 DEF LeftBehind, Presents
    <2>3. FlightQuiet(t) /\ cookie' \in {cookie, 0}
      BY DEF Quiet
    <2>4. QED
      BY <2>1, <2>2, <2>3 DEF FlightQuiet
  <1>7. QED
    BY <1>5, <1>6

LEMMA DeliveryKeeps ==
    ASSUME Rotated, Typed, Undelivered, LeftBehind, NEW n, Delivers(n)
    PROVE  Undelivered' /\ LeftBehind'
  <1>1. \A k \in DOMAIN rotatedBy : k # 0 /\ k # n
    BY DEF Rotated, Typed, Delivers, Unknown
  <1>2. ASSUME NEW m, Unknown(m), m # n
        PROVE  Unknown(m)'
    BY <1>2 DEF Unknown, Delivers
  <1>3. ASSUME NEW t \in Tabs, Carries(t)'
        PROVE  Carries(t) /\ flight'[t].new = flight[t].new /\ flight[t].new # n
    BY <1>3 DEF Delivers
  <1>4. ASSUME NEW c \in Calls, Brings(c)'
        PROVE  Brings(c) /\ call'[c].tok = call[c].tok /\ call[c].tok # n
    BY <1>4 DEF Delivers
  <1>5. Undelivered'
    <2>1. \A t \in Tabs : Carries(t)' => Unknown(flight[t].new)'
      BY <1>2, <1>3 DEF Undelivered
    <2>2. \A c \in Calls : Brings(c)' => Unknown(call[c].tok)'
      BY <1>2, <1>4 DEF Undelivered
    <2>3. QED
      BY <1>3, <1>4, <2>1, <2>2 DEF Undelivered
  <1>6. LeftBehind'
    <2> SUFFICES ASSUME NEW t \in Tabs, NEW k \in DOMAIN rotatedBy', rotatedBy'[k] = t
                 PROVE  /\ Presents(t)' => flight'[t].tok # k
                        /\ cookie' # k
      BY DEF LeftBehind, Presents
    <2>1. k \in DOMAIN rotatedBy /\ rotatedBy[k] = t /\ k # n /\ cookie' = n
      BY <1>1 DEF Delivers
    <2>2. Presents(t) => flight[t].tok # k
      BY <2>1 DEF LeftBehind, Presents
    <2>3. QED
      BY <2>1, <2>2 DEF Delivers
  <1>7. QED
    BY <1>5, <1>6

LEMMA ForsakingKeeps ==
    ASSUME Rotated, Typed, Undelivered, LeftBehind, NEW t \in Tabs, Forsakes(t)
    PROVE  Undelivered' /\ LeftBehind'
  <1>1. /\ DOMAIN rotatedBy' = DOMAIN rotatedBy /\ cookie' = cookie
        /\ \A k \in DOMAIN rotatedBy : /\ k # 0
                                       /\ rotatedBy'[k] = IF k = flight[t].tok THEN "lost"
                                                          ELSE rotatedBy[k]
    BY DEF Forsakes, Rotated, Typed
  <1>2. flight'[t].tok \in {0, cookie} /\ ~Carries(t)'
    BY DEF Forsakes, NoFlight, Flight, Carries
  <1>3. \A u \in Tabs \ {t} : flight'[u] = flight[u]
    BY DEF Forsakes
  <1>4. ASSUME NEW n, Unknown(n)
        PROVE  Unknown(n)'
    BY <1>1, <1>2, <1>3, <1>4 DEF Unknown
  <1>5. ASSUME NEW u \in Tabs, Carries(u)'
        PROVE  Carries(u) /\ flight'[u].new = flight[u].new
    BY <1>2, <1>3, <1>5 DEF Carries
  <1>6. ASSUME NEW c \in Calls, Brings(c)'
        PROVE  Brings(c) /\ call'[c].tok = call[c].tok
    BY <1>6 DEF Forsakes, CallQuiet
  <1>7. Undelivered'
    <2>1. \A u \in Tabs : Carries(u)' => Unknown(flight[u].new)'
      BY <1>4, <1>5 DEF Undelivered
    <2>2. \A c \in Calls : Brings(c)' => Unknown(call[c].tok)'
      BY <1>4, <1>6 DEF Undelivered
    <2>3. QED
      BY <1>5, <1>6, <2>1, <2>2 DEF Undelivered
  <1>8. LeftBehind'
    <2> SUFFICES ASSUME NEW u \in Tabs, NEW k \in DOMAIN rotatedBy', rotatedBy'[k] = u
                 PROVE  /\ Presents(u)' => flight'[u].tok # k
                        /\ cookie' = k => Carries(u)' /\ flight'[u].tok = k
      BY DEF LeftBehind, Presents
    <2>1. k \in DOMAIN rotatedBy /\ k # 0 /\ k # flight[t].tok /\ rotatedBy[k] = u
      BY <1>1, AuthAssumption
    <2>2. /\ Presents(u) => flight[u].tok # k
          /\ cookie = k => Carries(u) /\ flight[u].tok = k
      BY <2>1 DEF LeftBehind, Presents
    <2>3. CASE u = t
      BY <1>1, <1>2, <2>1, <2>2, <2>3
    <2>4. CASE u # t
      BY <1>1, <1>3, <2>2, <2>4 DEF Presents, Carries
    <2>5. QED
      BY <2>3, <2>4
  <1>9. QED
    BY <1>7, <1>8

(* Every name is that of a token there is.                                 *)
LEMMA NamesBelow ==
    ASSUME Typed, Rotated
    PROVE  /\ Len(tokens) \in Nat /\ cookie <= Len(tokens) /\ cookie \in Nat
           /\ \A t \in Tabs : /\ flight[t].tok \in 0 .. Len(tokens)
                              /\ flight[t].new \in 0 .. Len(tokens)
           /\ \A c \in Calls : call[c].tok \in 0 .. Len(tokens)
           /\ \A k \in DOMAIN rotatedBy : k \in 1 .. Len(tokens)
           /\ Unknown(Len(tokens) + 1)
           /\ \A t \in Tabs : flight[t].new # Len(tokens) + 1
           /\ \A c \in Calls : call[c].tok # Len(tokens) + 1
  <1>1. Len(tokens) \in Nat /\ cookie <= Len(tokens) /\ cookie \in Nat
    BY DEF Typed
  <1>2. \A t \in Tabs : flight[t].tok \in 0 .. Len(tokens) /\ flight[t].new \in 0 .. Len(tokens)
    <2>1. \A t \in Tabs : flight[t] \in FlightRow(Len(tokens))
      BY DEF Typed
    <2>2. QED
      BY <2>1 DEF FlightRow
  <1>3. \A c \in Calls : call[c].tok \in 0 .. Len(tokens)
    <2>1. \A c \in Calls : call[c] \in CallRow(Len(tokens))
      BY DEF Typed
    <2>2. QED
      BY <2>1 DEF CallRow
  <1>4. \A k \in DOMAIN rotatedBy : k \in 1 .. Len(tokens)
    BY DEF Rotated
  <1>5. Unknown(Len(tokens) + 1)
    BY <1>1, <1>2, <1>4 DEF Unknown
  <1>6. QED
    BY <1>1, <1>2, <1>3, <1>4, <1>5

LEMMA SignInKeeps ==
    ASSUME Typed, Rotated, Undelivered, LeftBehind, NEW c \in Calls,
           ServeSignIn(c), call'[c].state = "ok"
    PROVE  Undelivered' /\ LeftBehind'
  <1> DEFINE n == Len(tokens) + 1
  <1>1. /\ UNCHANGED <<rotatedBy, cookie, flight>>
        /\ call' = [call EXCEPT ![c].state = "ok", ![c].tok = n]
    <2>1. Answer(c, "refused") => call'[c].state = "refused"
      BY DEF Answer, Typed, CallRow
    <2>2. QED
      BY <2>1 DEF ServeSignIn, server
  <1>2. call'[c].tok = n /\ \A d \in Calls \ {c} : call'[d] = call[d]
    BY <1>1 DEF Typed, CallRow
  <1> HIDE DEF n
  <1>3. Unknown(n) /\ (\A t \in Tabs : flight[t].new # n) /\ (\A d \in Calls : call[d].tok # n)
    BY NamesBelow DEF n
  <1>4. \A m : Unknown(m) => Unknown(m)'
    BY <1>1 DEF Unknown
  <1>5. \A d \in Calls \ {c} : Brings(d)' => Brings(d) /\ call'[d].tok = call[d].tok
    BY <1>2 DEF Brings
  <1>6. \A t \in Tabs : Carries(t)' => Carries(t) /\ flight'[t].new = flight[t].new
    BY <1>1 DEF Carries
  <1>7. Undelivered'
    <2>1. \A t \in Tabs : Carries(t)' => Unknown(flight[t].new)'
      BY <1>4, <1>6 DEF Undelivered
    <2>2. \A d \in Calls : Brings(d)' => Unknown(call[d].tok)'
      BY <1>2, <1>3, <1>4, <1>5 DEF Undelivered
    <2>3. \A t, u \in Tabs : Carries(t)' /\ Carries(u)' /\ t # u => flight'[t].new # flight'[u].new
      BY <1>6 DEF Undelivered
    <2>4. \A d, e \in Calls : Brings(d)' /\ Brings(e)' /\ d # e => call'[d].tok # call'[e].tok
      BY <1>2, <1>3, <1>5 DEF Undelivered
    <2>5. \A t \in Tabs, d \in Calls : Carries(t)' /\ Brings(d)' => flight'[t].new # call'[d].tok
      BY <1>2, <1>3, <1>5, <1>6 DEF Undelivered
    <2>6. QED
      BY <2>1, <2>2, <2>3, <2>4, <2>5 DEF Undelivered
  <1>8. LeftBehind'
    BY <1>1 DEF LeftBehind, Carries
  <1>9. QED
    BY <1>7, <1>8

LEMMA RotationKeeps ==
    ASSUME Typed, Rotated, Undelivered, LeftBehind, NEW t \in Tabs, RefreshRotate(t)
    PROVE  Undelivered' /\ LeftBehind'
  <1> DEFINE n == Len(tokens) + 1
             k == flight[t].tok
  <1>1. /\ UNCHANGED <<cookie, call>>
        /\ flight' = [flight EXCEPT ![t].state = "rotated", ![t].new = n]
        /\ rotatedBy' = [j \in DOMAIN rotatedBy \cup {k} |-> IF j = k THEN t ELSE rotatedBy[j]]
        /\ flight[t].state = "checked"
    BY DEF RefreshRotate
  <1>2. /\ flight'[t].new = n /\ flight'[t].tok = k /\ flight'[t].state = "rotated"
        /\ \A u \in Tabs \ {t} : flight'[u] = flight[u]
    BY <1>1 DEF Typed, FlightRow
  <1>3. /\ DOMAIN rotatedBy' = DOMAIN rotatedBy \cup {k}
        /\ \A j \in DOMAIN rotatedBy' : rotatedBy'[j] = IF j = k THEN t ELSE rotatedBy[j]
    BY <1>1
  <1>4. Unknown(n) /\ (\A u \in Tabs : flight[u].new # n) /\ (\A d \in Calls : call[d].tok # n)
    BY NamesBelow DEF n
  <1> HIDE DEF n, k
  <1>5. ASSUME NEW m, Unknown(m)
        PROVE  Unknown(m)'
    <2>1. \A u \in Tabs : flight'[u].tok # m
      BY <1>2, <1>5 DEF Unknown, k
    <2>2. m # 0 /\ m # cookie' /\ m \notin DOMAIN rotatedBy'
      BY <1>1, <1>3, <1>5 DEF Unknown, k
    <2>3. QED
      BY <2>1, <2>2 DEF Unknown
  <1>6. \A u \in Tabs \ {t} : Carries(u)' => Carries(u) /\ flight'[u].new = flight[u].new
    BY <1>2 DEF Carries
  <1>7. \A c \in Calls : Brings(c)' => Brings(c) /\ call'[c].tok = call[c].tok
    BY <1>1 DEF Brings
  <1>8. Undelivered'
    <2>1. \A u \in Tabs : Carries(u)' => Unknown(flight[u].new)'
      BY <1>2, <1>4, <1>5, <1>6 DEF Undelivered
    <2>2. \A d \in Calls : Brings(d)' => Unknown(call[d].tok)'
      BY <1>5, <1>7 DEF Undelivered
    <2>3. \A u, v \in Tabs : Carries(u)' /\ Carries(v)' /\ u # v => flight'[u].new # flight'[v].new
      BY <1>2, <1>4, <1>6 DEF Undelivered
    <2>4. \A d, e \in Calls : Brings(d)' /\ Brings(e)' /\ d # e => call'[d].tok # call'[e].tok
      BY <1>7 DEF Undelivered
    <2>5. \A u \in Tabs, d \in Calls : Carries(u)' /\ Brings(d)' => flight'[u].new # call'[d].tok
      BY <1>2, <1>4, <1>6, <1>7 DEF Undelivered
    <2>6. QED
      BY <2>1, <2>2, <2>3, <2>4, <2>5 DEF Undelivered
  <1>9. LeftBehind'
    <2> SUFFICES ASSUME NEW u \in Tabs, NEW j \in DOMAIN rotatedBy', rotatedBy'[j] = u
                 PROVE  /\ Presents(u)' => flight'[u].tok # j
                        /\ cookie' = j => Carries(u)' /\ flight'[u].tok = j
      BY DEF LeftBehind, Presents
    <2>1. Carries(t)' /\ ~Presents(t)'
      BY <1>2 DEF Carries, Presents
    <2>2. CASE j = k
      BY <1>2, <1>3, <2>1, <2>2
    <2>3. CASE j # k
      <3>1. j \in DOMAIN rotatedBy /\ rotatedBy[j] = u
        BY <1>3, <2>3
      <3>2. /\ Presents(u) => flight[u].tok # j
            /\ cookie = j => Carries(u) /\ flight[u].tok = j
        BY <3>1 DEF LeftBehind, Presents
      <3>3. ~Carries(t)
        BY <1>1 DEF Carries
      <3>4. QED
        BY <1>1, <1>2, <2>1, <3>2, <3>3 DEF Presents, Carries
    <2>4. QED
      BY <2>2, <2>3
  <1>10. QED
    BY <1>8, <1>9

(* Only queries wait for a refresh.                                        *)
QueriesWait == \A c \in Calls : call[c].state = "waiting" => call[c].kind = "query"

LEMMA QueriesWaitStep ==
    ASSUME Typed, QueriesWait, [Next]_vars
    PROVE  QueriesWait'
  <1>1. CASE UNCHANGED call
    BY <1>1 DEF QueriesWait
  <1>2. ASSUME NEW c \in Calls, \A d \in Calls \ {c} : call'[d] = call[d],
               call'[c].state = "waiting" => call'[c].kind = "query"
        PROVE  QueriesWait'
    BY <1>2 DEF QueriesWait
  <1>3. ASSUME NEW t \in Tabs, RefreshArrive(t) \/ RefreshFails(t) \/ ReloadTab(t)
        PROVE  QueriesWait'
    <2>1. \A c \in Calls : call'[c] \in {call[c], NoCall, [call[c] EXCEPT !.state = "ok"]}
      BY <1>3 DEF RefreshArrive, RefreshFails, ReloadTab, Settle
    <2>2. \A c \in Calls : call'[c] = call[c] \/ call'[c].state # "waiting"
      BY <2>1 DEF NoCall, Typed, CallRow
    <2>3. QED
      BY <2>2 DEF QueriesWait
  <1>4. ASSUME NEW t \in Tabs, RefreshCheck(t) \/ RefreshRotate(t) \/ AccessExpires(t)
        PROVE  UNCHANGED call
    BY <1>4 DEF RefreshCheck, RefreshRotate, AccessExpires
  <1>5. ASSUME NEW c \in Calls, QueryArrive(c)
        PROVE  QueriesWait'
    <2>1. CASE call' = [call EXCEPT ![c] = NoCall]
      BY <2>1, <1>2 DEF Typed, NoCall
    <2>2. CASE call[c].kind = "query" /\ call' = [call EXCEPT ![c].state = "waiting"]
      <3>1. call'[c].kind = "query" /\ \A d \in Calls \ {c} : call'[d] = call[d]
        BY <2>2 DEF Typed, CallRow
      <3>2. QED
        BY <3>1, <1>2
    <2>3. QED
      BY <1>5, <2>1, <2>2 DEF QueryArrive
  <1>6. ASSUME NEW c \in Calls, ServeSignIn(c) \/ ServeSignOut(c)
        PROVE  QueriesWait'
    <2>1. call'[c].state \in {"ok", "refused"} /\ \A d \in Calls \ {c} : call'[d] = call[d]
      BY <1>6 DEF ServeSignIn, ServeSignOut, Answer, Typed, CallRow
    <2>2. QED
      BY <2>1, <1>2
  <1>7. ASSUME NEW c \in Calls, SignInArrive(c) \/ SignOutArrive(c) \/ CallFails(c)
        PROVE  QueriesWait'
    <2>1. call' = [call EXCEPT ![c] = NoCall]
      BY <1>7 DEF SignInArrive, SignOutArrive, CallFails
    <2>2. QED
      BY <2>1, <1>2 DEF Typed, NoCall
  <1>8. ASSUME NEW c \in Calls, NEW kind \in Kinds, Send(c, kind)
        PROVE  QueriesWait'
    <2>1. call'[c].state # "waiting" /\ \A d \in Calls \ {c} : call'[d] = call[d]
      BY <1>8 DEF Send, Typed
    <2>2. QED
      BY <2>1, <1>2
  <1>9. UNCHANGED vars \/ ResetPassword => UNCHANGED call
    BY DEF vars, ResetPassword
  <1>10. QED
    BY <1>1, <1>3, <1>4, <1>5, <1>6, <1>7, <1>8, <1>9 DEF Next, RefreshSteps, CallSteps

LEMMA Unmoved ==
    ASSUME Typed
    PROVE  /\ \A t \in Tabs : flight'[t] = flight[t] => FlightQuiet(t)
           /\ \A c \in Calls : call'[c] = call[c] \/ call'[c] = NoCall => CallQuiet(c)
           /\ \A t \in Tabs : ~Carries(t) /\ flight'[t] \in {NoFlight, Flight(cookie)}
                                  => FlightQuiet(t)
  <1>1. ASSUME NEW t \in Tabs, flight'[t] = flight[t]
        PROVE  FlightQuiet(t)
    BY <1>1 DEF FlightQuiet, Carries, Presents
  <1>2. ASSUME NEW c \in Calls, call'[c] = call[c] \/ call'[c] = NoCall
        PROVE  CallQuiet(c)
    BY <1>2 DEF CallQuiet, Brings, NoCall
  <1>3. ASSUME NEW t \in Tabs, ~Carries(t), flight'[t] \in {NoFlight, Flight(cookie)}
        PROVE  FlightQuiet(t)
    BY <1>3 DEF FlightQuiet, Carries, Presents, NoFlight, Flight
  <1>4. QED
    BY <1>1, <1>2, <1>3

LEMMA SettledFlight ==
    ASSUME Typed, QueriesWait, NEW t \in Tabs, NEW ok \in BOOLEAN, Settle(t, ok)
    PROVE  /\ flight'[t] = NoFlight /\ \A u \in Tabs \ {t} : flight'[u] = flight[u]
           /\ \A c \in Calls : CallQuiet(c)
  <1>1. flight'[t] = NoFlight /\ \A u \in Tabs \ {t} : flight'[u] = flight[u]
    BY DEF Settle, Typed
  <1>2. ASSUME NEW c \in Calls
        PROVE  CallQuiet(c)
    <2>1. \/ call'[c] = call[c] \/ call'[c] = NoCall
          \/ call[c].state = "waiting" /\ call'[c] = [call[c] EXCEPT !.state = "ok"]
      BY DEF Settle
    <2>2. CASE call[c].state = "waiting" /\ call'[c] = [call[c] EXCEPT !.state = "ok"]
      <3>1. call'[c].kind = "query"
        BY <2>2 DEF QueriesWait, Typed, CallRow
      <3>2. QED
        BY <3>1 DEF CallQuiet, Brings
    <2>3. QED
      BY <2>1, <2>2, Unmoved
  <1>3. QED
    BY <1>1, <1>2

(* A refresh that settles, one that fails and a reload.                    *)
LEMMA FlightEnds ==
    ASSUME Typed, Rotated, Undelivered, LeftBehind, QueriesWait, NEW t \in Tabs,
           RefreshArrive(t) \/ RefreshFails(t) \/ ReloadTab(t)
    PROVE  Undelivered' /\ LeftBehind'
  <1>1. /\ flight'[t] \in {NoFlight, Flight(cookie)}
        /\ RefreshArrive(t) => flight'[t] = NoFlight
        /\ \A u \in Tabs \ {t} : flight'[u] = flight[u]
        /\ \A c \in Calls : CallQuiet(c)
    <2>1. CASE RefreshArrive(t) \/ RefreshFails(t)
      <3>1. \E ok \in BOOLEAN : Settle(t, ok)
        BY <2>1 DEF RefreshArrive, RefreshFails
      <3>2. QED
        BY <3>1, SettledFlight
    <2>2. CASE ReloadTab(t)
      <3>1. flight'[t] = Flight(cookie) /\ \A u \in Tabs \ {t} : flight'[u] = flight[u]
        BY <2>2 DEF ReloadTab, Typed
      <3>2. \A c \in Calls : call'[c] = call[c] \/ call'[c] = NoCall
        BY <2>2 DEF ReloadTab
      <3>3. ~RefreshArrive(t)
        BY <2>2, <3>1 DEF RefreshArrive, Settle, Typed, NoFlight, Flight
      <3>4. QED
        BY <3>1, <3>2, <3>3, Unmoved
    <2>3. QED
      BY <2>1, <2>2
  <1>2. CASE ~Carries(t)
    <2>1. UNCHANGED rotatedBy
      BY <1>2 DEF RefreshArrive, RefreshFails, ReloadTab, Forsake, server, Carries
    <2>2. cookie' \in {cookie, 0}
      BY <1>2 DEF RefreshArrive, RefreshFails, ReloadTab, Carries
    <2>3. Quiet
      BY <1>1, <1>2, <2>1, <2>2, Unmoved DEF Quiet
    <2>4. QED
      BY <2>3, QuietKeeps
  <1>3. CASE Carries(t) /\ RefreshArrive(t)
    <2> DEFINE n == flight[t].new
    <2>1. cookie' = n /\ UNCHANGED rotatedBy
      BY <1>3 DEF RefreshArrive, Carries, server
    <2>2. Unknown(n)
      BY <1>3 DEF Undelivered
    <2>3. \A u \in Tabs :
              /\ Carries(u)' => Carries(u) /\ flight'[u].new = flight[u].new /\ flight[u].new # n
              /\ flight'[u].tok \in {flight[u].tok, 0}
              /\ Presents(u)' => Presents(u) /\ flight'[u].tok = flight[u].tok
      <3>1. ~Carries(t)' /\ ~Presents(t)' /\ flight'[t].tok = 0
        BY <1>1, <1>3 DEF Carries, Presents, NoFlight
      <3>2. QED
        BY <1>1, <1>3, <3>1 DEF Carries, Presents, Undelivered
    <2>4. \A c \in Calls : Brings(c)' => Brings(c) /\ call'[c].tok = call[c].tok /\ call[c].tok # n
      BY <1>1, <1>3 DEF CallQuiet, Undelivered
    <2>5. Delivers(n)
      BY <2>1, <2>2, <2>3, <2>4 DEF Delivers
    <2>6. QED
      BY <2>5, DeliveryKeeps
  <1>4. CASE Carries(t) /\ (RefreshFails(t) \/ ReloadTab(t))
    <2>1. rotatedBy' = [rotatedBy EXCEPT ![flight[t].tok] = "lost"] /\ UNCHANGED cookie
      BY <1>4 DEF RefreshFails, ReloadTab, Forsake, Carries
    <2>2. Forsakes(t)
      BY <1>1, <1>4, <2>1 DEF Forsakes
    <2>3. QED
      BY <2>2, ForsakingKeeps
  <1>5. QED
    BY <1>2, <1>3, <1>4

LEMMA SignInArrives ==
    ASSUME Typed, Rotated, Undelivered, LeftBehind, NEW c \in Calls, SignInArrive(c)
    PROVE  Undelivered' /\ LeftBehind'
  <1>1. /\ UNCHANGED <<rotatedBy, flight>> /\ call'[c] = NoCall
        /\ \A d \in Calls \ {c} : call'[d] = call[d]
    BY DEF SignInArrive, server, Typed
  <1>2. CASE call[c].state # "ok"
    <2>1. UNCHANGED cookie
      BY <1>2 DEF SignInArrive
    <2>2. Quiet
      BY <1>1, <2>1, Unmoved DEF Quiet
    <2>3. QED
      BY <2>2, QuietKeeps
  <1>3. CASE call[c].state = "ok"
    <2> DEFINE n == call[c].tok
    <2>1. Brings(c) /\ cookie' = n
      BY <1>3 DEF SignInArrive, Brings
    <2>2. Unknown(n)
      BY <2>1 DEF Undelivered
    <2>3. \A t \in Tabs :
              /\ Carries(t)' => Carries(t) /\ flight'[t].new = flight[t].new /\ flight[t].new # n
              /\ flight'[t].tok \in {flight[t].tok, 0}
              /\ Presents(t)' => Presents(t) /\ flight'[t].tok = flight[t].tok
      BY <1>1, <2>1 DEF Carries, Presents, Undelivered
    <2>4. \A d \in Calls : Brings(d)' => Brings(d) /\ call'[d].tok = call[d].tok /\ call[d].tok # n
      <3>1. ~Brings(c)'
        BY <1>1 DEF Brings, NoCall
      <3>2. QED
        BY <1>1, <2>1, <3>1 DEF Brings, Undelivered
    <2>5. Delivers(n)
      BY <1>1, <2>1, <2>2, <2>3, <2>4 DEF Delivers
    <2>6. QED
      BY <2>5, DeliveryKeeps
  <1>4. QED
    BY <1>2, <1>3

LEMMA QuietSteps ==
    ASSUME Typed, [Next]_vars,
           \A t \in Tabs : ~RefreshRotate(t) /\ ~RefreshArrive(t) /\ ~RefreshFails(t)
                           /\ ~ReloadTab(t),
           \A c \in Calls : ~SignInArrive(c) /\ ~(ServeSignIn(c) /\ call'[c].state = "ok")
    PROVE  Quiet
  <1>1. ASSUME UNCHANGED <<rotatedBy, flight>>, cookie' \in {cookie, 0},
               \A c \in Calls : CallQuiet(c)
        PROVE  Quiet
    BY <1>1, Unmoved DEF Quiet
  <1>2. UNCHANGED call => \A c \in Calls : CallQuiet(c)
    BY Unmoved
  <1>3. ASSUME NEW c \in Calls, \A d \in Calls \ {c} : call'[d] = call[d], CallQuiet(c)
        PROVE  \A d \in Calls : CallQuiet(d)
    BY <1>3, Unmoved
  <1>4. ASSUME NEW t \in Tabs, RefreshCheck(t)
        PROVE  Quiet
    <2>1. UNCHANGED <<rotatedBy, cookie, call>> /\ flight[t].state = "sent"
      BY <1>4 DEF RefreshCheck
    <2>2. \E s \in {"no_session", "refused", "checked"} : flight' = [flight EXCEPT ![t].state = s]
      BY <1>4 DEF RefreshCheck
    <2>3. /\ flight'[t].state \in {"no_session", "refused", "checked"}
          /\ flight'[t].tok = flight[t].tok
          /\ \A u \in Tabs \ {t} : flight'[u] = flight[u]
      BY <2>2 DEF Typed, FlightRow
    <2>4. FlightQuiet(t)
      BY <2>1, <2>3 DEF FlightQuiet, Carries, Presents
    <2>5. QED
      BY <1>2, <2>1, <2>3, <2>4, Unmoved DEF Quiet
  <1>5. ASSUME NEW c \in Calls, QueryArrive(c)
        PROVE  Quiet
    <2>1. UNCHANGED <<rotatedBy, cookie>> /\ \A d \in Calls \ {c} : call'[d] = call[d]
      BY <1>5 DEF QueryArrive, server, Typed
    <2>2. call'[c] = NoCall \/ call'[c].state = "waiting"
      BY <1>5 DEF QueryArrive, Typed, CallRow
    <2>3. \A d \in Calls : CallQuiet(d)
      BY <1>3, <2>1, <2>2, Unmoved DEF CallQuiet, Brings
    <2>4. \A t \in Tabs : FlightQuiet(t)
      <3>1. UNCHANGED flight \/ flight' = [flight EXCEPT ![c[1]] = Refreshing(c[1])]
        BY <1>5 DEF QueryArrive
      <3>2. c[1] \in Tabs
        BY CallsTyped
      <3>3. \/ flight'[c[1]] = flight[c[1]]
            \/ flight[c[1]] = NoFlight /\ flight'[c[1]] = Flight(cookie)
        BY <3>1, <3>2 DEF Refreshing, Typed
      <3>4. \A t \in Tabs \ {c[1]} : flight'[t] = flight[t]
        BY <3>1, <3>2 DEF Typed
      <3>5. flight[c[1]] = NoFlight => ~Carries(c[1])
        BY DEF Carries, NoFlight
      <3>6. QED
        BY <3>2, <3>3, <3>4, <3>5, Unmoved
    <2>5. QED
      BY <2>1, <2>3, <2>4 DEF Quiet
  <1>6. ASSUME NEW c \in Calls, ServeSignIn(c) \/ ServeSignOut(c)
        PROVE  Quiet
    <2>1. UNCHANGED <<rotatedBy, cookie, flight>>
      BY <1>6 DEF ServeSignIn, ServeSignOut, server
    <2>2. \A d \in Calls \ {c} : call'[d] = call[d]
      BY <1>6 DEF ServeSignIn, ServeSignOut, Answer, Typed
    <2>3. ~Brings(c)'
      <3>1. CASE ServeSignIn(c)
        BY <3>1 DEF Brings
      <3>2. CASE ServeSignOut(c)
        <4>1. call'[c].kind = "signout"
          BY <3>2 DEF ServeSignOut, Answer, Typed, CallRow
        <4>2. QED
          BY <4>1 DEF Brings
      <3>3. QED
        BY <1>6, <3>1, <3>2
    <2>4. QED
      BY <1>1, <1>3, <2>1, <2>2, <2>3 DEF CallQuiet
  <1>7. ASSUME NEW c \in Calls, SignOutArrive(c) \/ CallFails(c)
        PROVE  Quiet
    <2>1. UNCHANGED <<rotatedBy, flight>> /\ cookie' \in {cookie, 0}
      BY <1>7 DEF SignOutArrive, CallFails, server
    <2>2. call' = [call EXCEPT ![c] = NoCall]
      BY <1>7 DEF SignOutArrive, CallFails
    <2>3. \A d \in Calls : call'[d] = call[d] \/ call'[d] = NoCall
      BY <2>2 DEF Typed
    <2>4. QED
      BY <1>1, <2>1, <2>3, Unmoved
  <1>8. ASSUME NEW c \in Calls, NEW kind \in Kinds, Send(c, kind)
        PROVE  Quiet
    <2>1. UNCHANGED <<rotatedBy, flight, cookie>> /\ \A d \in Calls \ {c} : call'[d] = call[d]
      BY <1>8 DEF Send, server, Typed
    <2>2. call'[c].kind = kind /\ (kind = "signin" => call'[c].state = "sent")
      BY <1>8 DEF Send, Typed
    <2>3. CallQuiet(c)
      BY <2>2 DEF CallQuiet, Brings
    <2>4. QED
      BY <1>1, <1>3, <2>1, <2>3
  <1>9. ASSUME NEW t \in Tabs, AccessExpires(t)
        PROVE  Quiet
    BY <1>1, <1>2, <1>9 DEF AccessExpires, server
  <1>10. CASE ResetPassword \/ UNCHANGED vars
    BY <1>1, <1>2, <1>10 DEF ResetPassword, vars
  <1>11. QED
    BY <1>4, <1>5, <1>6, <1>7, <1>8, <1>9, <1>10 DEF Next, RefreshSteps, CallSteps

LEMMA ReuseStep ==
    ASSUME AuthInv, Undelivered, LeftBehind, QueriesWait, [Next]_vars
    PROVE  Undelivered' /\ LeftBehind'
  <1>1. Typed /\ Rotated
    BY DEF AuthInv
  <1>2. ASSUME NEW t \in Tabs, RefreshRotate(t)
        PROVE  Undelivered' /\ LeftBehind'
    BY <1>1, <1>2, RotationKeeps
  <1>3. ASSUME NEW t \in Tabs, RefreshArrive(t) \/ RefreshFails(t) \/ ReloadTab(t)
        PROVE  Undelivered' /\ LeftBehind'
    BY <1>1, <1>3, FlightEnds
  <1>4. ASSUME NEW c \in Calls, SignInArrive(c)
        PROVE  Undelivered' /\ LeftBehind'
    BY <1>1, <1>4, SignInArrives
  <1>5. ASSUME NEW c \in Calls, ServeSignIn(c), call'[c].state = "ok"
        PROVE  Undelivered' /\ LeftBehind'
    BY <1>1, <1>5, SignInKeeps
  <1>6. CASE Quiet
    BY <1>1, <1>6, QuietKeeps
  <1>7. QED
    BY <1>1, <1>2, <1>3, <1>4, <1>5, <1>6, QuietSteps

(* The history forgets no rotation.                                        *)
LEMMA RotationsStay ==
    ASSUME [Next]_vars
    PROVE  DOMAIN rotatedBy \subseteq DOMAIN rotatedBy'
  <1>1. ASSUME NEW t \in Tabs, RefreshFails(t) \/ ReloadTab(t) \/ RefreshRotate(t)
        PROVE  DOMAIN rotatedBy \subseteq DOMAIN rotatedBy'
    BY <1>1 DEF RefreshFails, ReloadTab, Forsake, RefreshRotate
  <1>2. ASSUME NEW t \in Tabs, RefreshCheck(t) \/ RefreshArrive(t) \/ AccessExpires(t)
        PROVE  UNCHANGED rotatedBy
    BY <1>2 DEF RefreshCheck, RefreshArrive, AccessExpires, server
  <1>3. ASSUME NEW c \in Calls, CallSteps(c) \/ CallFails(c)
        PROVE  UNCHANGED rotatedBy
    BY <1>3 DEF CallSteps, QueryArrive, ServeSignIn, SignInArrive, ServeSignOut,
                SignOutArrive, CallFails, server
  <1>4. ASSUME NEW c \in Calls, NEW kind \in Kinds, Send(c, kind)
        PROVE  UNCHANGED rotatedBy
    BY <1>4 DEF Send, server
  <1>5. UNCHANGED vars \/ ResetPassword => UNCHANGED rotatedBy
    BY DEF vars, ResetPassword
  <1>6. QED
    BY <1>1, <1>2, <1>3, <1>4, <1>5 DEF Next, RefreshSteps

LEMMA UsedStep ==
    ASSUME AuthInv, UsedRotated, [Next]_vars
    PROVE  UsedRotated'
  <1>1. Typed /\ Numbered /\ Len(tokens) \in Nat /\ DOMAIN rotatedBy \subseteq DOMAIN rotatedBy'
    BY RotationsStay DEF AuthInv, Typed
  <1>2. CASE OnlyRevoked
    BY <1>1, <1>2 DEF UsedRotated, OnlyRevoked
  <1>3. ASSUME NEW f, OneMore(f), NEW k,
               \A j \in 1 .. Len(tokens) \ {k} : tokens'[j].used = tokens[j].used,
               k \in 1 .. Len(tokens) => k \in DOMAIN rotatedBy'
        PROVE  UsedRotated'
    <2>1. Len(tokens') = Len(tokens) + 1 /\ ~tokens'[Len(tokens) + 1].used
      BY <1>3 DEF OneMore, Issue
    <2>2. \A j \in 1 .. Len(tokens') : j \in 1 .. Len(tokens) \/ j = Len(tokens) + 1
      BY <1>1, <2>1
    <2>3. QED
      BY <1>1, <1>3, <2>1, <2>2 DEF UsedRotated
  <1>4. ASSUME NEW t \in Tabs, RefreshRotate(t)
        PROVE  UsedRotated'
    <2>1. flight[t].tok \in DOMAIN rotatedBy'
      BY <1>4 DEF RefreshRotate
    <2>2. QED
      BY <1>1, <1>3, <1>4, <2>1, RotationIssues
  <1>5. ASSUME NEW c \in Calls, ServeSignIn(c)
        PROVE  UsedRotated'
    <2>1. CASE UNCHANGED tokens
      BY <1>1, <1>2, <2>1, KeepsTokens
    <2>2. CASE tokens' = Append(tokens, Issue(NewFamily))
      <3>1. OneMore(NewFamily) /\ \A j \in 1 .. Len(tokens) \ {0} : tokens'[j].used = tokens[j].used
        BY <1>1, <2>2, SignInIssues
      <3>2. 0 \notin 1 .. Len(tokens)
        BY <1>1
      <3>3. QED
        BY <1>3, <3>1, <3>2
    <2>3. QED
      BY <1>5, <2>1, <2>2 DEF ServeSignIn, server
  <1>6. ASSUME NEW t \in Tabs, RefreshCheck(t)
        PROVE  OnlyRevoked
    BY <1>1, <1>6, KeepsTokens, RevokeKeeps DEF RefreshCheck
  <1>7. ASSUME NEW c \in Calls, ServeSignOut(c)
        PROVE  OnlyRevoked
    BY <1>1, <1>7, KeepsTokens, RevokeKeeps DEF ServeSignOut
  <1>8. CASE ResetPassword
    BY <1>1, <1>2, <1>8, RevokeAllKeeps DEF ResetPassword
  <1>9. UNCHANGED tokens => OnlyRevoked
    BY <1>1, KeepsTokens
  <1>10. ASSUME NEW t \in Tabs,
                RefreshArrive(t) \/ RefreshFails(t) \/ AccessExpires(t) \/ ReloadTab(t)
         PROVE  UNCHANGED tokens
    BY <1>10 DEF RefreshArrive, RefreshFails, AccessExpires, ReloadTab, server
  <1>11. ASSUME NEW c \in Calls,
                QueryArrive(c) \/ SignInArrive(c) \/ SignOutArrive(c) \/ CallFails(c)
         PROVE  UNCHANGED tokens
    BY <1>11 DEF QueryArrive, SignInArrive, SignOutArrive, CallFails, server
  <1>12. ASSUME NEW c \in Calls, NEW kind \in Kinds, Send(c, kind)
         PROVE  UNCHANGED tokens
    BY <1>12 DEF Send, server
  <1>13. QED
    BY <1>2, <1>4, <1>5, <1>6, <1>7, <1>8, <1>9, <1>10, <1>11, <1>12
       DEF Next, RefreshSteps, CallSteps, vars

ReuseInv == Undelivered /\ LeftBehind /\ QueriesWait /\ UsedRotated

LEMMA ReuseInit == ASSUME Init PROVE ReuseInv
  <1>1. rotatedBy = <<>> /\ DOMAIN rotatedBy = {}
    BY DEF Init
  <1>2. \A t \in Tabs : ~Carries(t)
    BY DEF Init, Carries, Flight
  <1>3. \A c \in Calls : ~Brings(c) /\ call[c].state # "waiting"
    BY DEF Init, Brings, NoCall
  <1>4. \A k \in 1 .. Len(tokens) : ~tokens[k].used
    <2>1. CASE tokens = <<>>
      BY <2>1
    <2>2. CASE tokens = <<Issue(1)>>
      BY <2>2 DEF Issue
    <2>3. QED
      BY <2>1, <2>2 DEF Init
  <1>5. QED
    BY <1>1, <1>2, <1>3, <1>4 DEF ReuseInv, Undelivered, LeftBehind, QueriesWait, UsedRotated

(* Only the check of a refresh refuses one.                                *)
LEMMA RefusedByCheck ==
    ASSUME Typed, [Next]_vars, NEW t \in Tabs, flight[t].state = "sent",
           flight'[t].state = "refused"
    PROVE  RefreshCheck(t)
  <1> SUFFICES ASSUME ~RefreshCheck(t)
               PROVE  flight'[t].state # "refused"
    OBVIOUS
  <1>1. CASE flight'[t] = flight[t]
    BY <1>1
  <1>2. CASE flight'[t] \in {NoFlight, Flight(cookie)}
    BY <1>2 DEF NoFlight, Flight
  <1>3. ASSUME NEW u \in Tabs, RefreshCheck(u) \/ RefreshRotate(u)
        PROVE  flight'[t] = flight[t]
    <2>1. u # t
      BY <1>3 DEF RefreshRotate
    <2>2. QED
      BY <1>3, <2>1 DEF RefreshCheck, RefreshRotate, Typed
  <1>4. ASSUME NEW u \in Tabs, RefreshArrive(u) \/ RefreshFails(u) \/ ReloadTab(u)
        PROVE  flight'[t] \in {flight[t], NoFlight, Flight(cookie)}
    BY <1>4 DEF RefreshArrive, RefreshFails, Settle, ReloadTab, Typed
  <1>5. ASSUME NEW c \in Calls, QueryArrive(c)
        PROVE  flight'[t] \in {flight[t], Flight(cookie)}
    <2>1. UNCHANGED flight \/ flight' = [flight EXCEPT ![c[1]] = Refreshing(c[1])]
      BY <1>5 DEF QueryArrive
    <2>2. Refreshing(c[1]) \in {flight[c[1]], Flight(cookie)} /\ c[1] \in Tabs
      BY CallsTyped DEF Refreshing
    <2>3. QED
      BY <2>1, <2>2 DEF Typed
  <1>6. ASSUME NEW c \in Calls,
               \/ ServeSignIn(c) \/ SignInArrive(c) \/ ServeSignOut(c)
               \/ SignOutArrive(c) \/ CallFails(c)
        PROVE  UNCHANGED flight
    BY <1>6 DEF ServeSignIn, SignInArrive, ServeSignOut, SignOutArrive, CallFails
  <1>7. ASSUME NEW c \in Calls, NEW kind \in Kinds, Send(c, kind)
        PROVE  UNCHANGED flight
    BY <1>7 DEF Send
  <1>8. ASSUME NEW u \in Tabs, AccessExpires(u)
        PROVE  UNCHANGED flight
    BY <1>8 DEF AccessExpires
  <1>9. UNCHANGED vars \/ ResetPassword => UNCHANGED flight
    BY DEF vars, ResetPassword
  <1>10. QED
    BY <1>1, <1>2, <1>3, <1>4, <1>5, <1>6, <1>7, <1>8, <1>9 DEF Next, RefreshSteps, CallSteps

Reuses(t) == flight[t].state = "sent" /\ flight'[t].state = "refused" /\ tokens' # tokens

LEMMA ReuseForeign ==
    ASSUME Typed, LeftBehind, UsedRotated, [Next]_vars, NEW t \in Tabs, Reuses(t)
    PROVE  rotatedBy[flight[t].tok] # t
  <1> DEFINE k == flight[t].tok
  <1>1. RefreshCheck(t)
    BY RefusedByCheck DEF Reuses
  <1>2. tokens[k].used /\ k # 0
    BY <1>1 DEF RefreshCheck, Reuses
  <1>3. k \in 1 .. Len(tokens)
    BY <1>2 DEF Typed, FlightRow
  <1>4. k \in DOMAIN rotatedBy
    BY <1>2, <1>3 DEF UsedRotated
  <1>5. QED
    BY <1>4 DEF LeftBehind, Reuses

(* A tab is thrown out for reusing a token only when another tab rotated   *)
(* it or the answer of its rotation was lost (service.go's Refresh and     *)
(* client.ts's shared flight), for any number of tabs and requests.        *)
THEOREM AuthReuseIsForeign == Spec => ReuseIsForeign
  <1>1. Init => AuthInv /\ ReuseInv
    BY AuthInit, ReuseInit
  <1>2. AuthInv /\ ReuseInv /\ [Next]_vars => (AuthInv /\ ReuseInv)'
    <2> SUFFICES ASSUME AuthInv, ReuseInv, [Next]_vars
                 PROVE  AuthInv' /\ ReuseInv'
      OBVIOUS
    <2>1. Undelivered' /\ LeftBehind'
      BY ReuseStep DEF ReuseInv
    <2>2. QueriesWait'
      BY QueriesWaitStep DEF ReuseInv, AuthInv
    <2>3. UsedRotated'
      BY UsedStep DEF ReuseInv
    <2>4. QED
      BY <2>1, <2>2, <2>3, AuthStep DEF ReuseInv
  <1>3. AuthInv /\ ReuseInv /\ [Next]_vars =>
            [\A t \in Tabs : Reuses(t) => rotatedBy[flight[t].tok] # t]_vars
    BY ReuseForeign DEF AuthInv, ReuseInv
  <1>4. QED
    <2>1. [\A t \in Tabs : Reuses(t) => rotatedBy[flight[t].tok] # t]_vars
            <=> [\A t \in Tabs :
                    flight[t].state = "sent" /\ flight'[t].state = "refused" /\ tokens' # tokens
                        => rotatedBy[flight[t].tok] # t]_vars
      BY DEF Reuses
    <2>2. QED
      BY <1>1, <1>2, <1>3, <2>1, PTL DEF Spec, ReuseIsForeign
=============================================================================
