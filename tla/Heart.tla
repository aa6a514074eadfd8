------------------------------- MODULE Heart -------------------------------
(***************************************************************************)
(* A show's heart: the cached favourite that FavoriteButton and the        *)
(* editor's switch show, which flips before the API answers and is put     *)
(* back when it refuses (useFavoriteState, useToggleFavorite).             *)
(***************************************************************************)
EXTENDS Naturals, FiniteSets

CONSTANTS
    MaxToggles, \* favourites set or cleared (bound)
    MaxRefusals \* calls that fail (bound)

(* What is assumed of them.                                                *)
HeartAssumption == MaxToggles \in Nat /\ MaxRefusals \in Nat

VARIABLES
    fav,        \* favorites: whether the show is one
    heart,      \* the query: its data, its fetch and the fetch's answer
    toggles,    \* toggles in flight
    switch,     \* the editor's switch: "closed", "untouched", "on" or "off"
    saving,     \* the editor's Save: "no", its first call ("entry", or "on" or
                \* "off" when a favourite follows), or its second, "heart"
    crossed,    \* history: toggles overlapped, or rested on nothing read, or
                \* an answer was lost, or a read crossed a toggle
    toggled,    \* toggles so far
    refused     \* calls failed so far

heartVars == <<fav, heart, toggles, switch, saving, crossed, toggled, refused>>

NoHeart == [has |-> FALSE, data |-> FALSE, fetch |-> "none", answer |-> FALSE]

Init ==
    /\ fav \in BOOLEAN /\ heart = [NoHeart EXCEPT !.fetch = "asked"]
    /\ toggles = {} /\ switch = "closed" /\ saving = "no"
    /\ crossed = FALSE /\ toggled = 0 /\ refused = 0

(* The page is entered again, with no Save under way (bound), and its      *)
(* query is old enough to be re-read.                                      *)
Reread ==
    /\ switch = "closed" /\ saving = "no"
    /\ heart.fetch = "none" /\ heart' = [heart EXCEPT !.fetch = "asked"]
    /\ UNCHANGED <<fav, toggles, switch, saving, crossed, toggled, refused>>

(* A toggle's answer writes nothing, so what is read while it is on its    *)
(* way may stay.                                                           *)
ServeRead ==
    /\ heart.fetch = "asked" /\ heart' = [heart EXCEPT !.fetch = "served", !.answer = fav]
    /\ crossed' = (crossed \/ \E t \in toggles : t.at = "sent")
    /\ UNCHANGED <<fav, toggles, switch, saving, toggled, refused>>

ReadArrives ==
    /\ heart.fetch = "served"
    /\ heart' = [NoHeart EXCEPT !.has = TRUE, !.data = heart.answer]
    /\ UNCHANGED <<fav, toggles, switch, saving, crossed, toggled, refused>>

ReadFails ==
    /\ heart.fetch # "none" /\ refused < MaxRefusals /\ refused' = refused + 1
    /\ heart' = [heart EXCEPT !.fetch = "none", !.answer = FALSE]
    /\ UNCHANGED <<fav, toggles, switch, saving, crossed, toggled>>

(* A fault HeartIsTrue must notice: a read in flight is not dropped.       *)
ToggleOverRead(next, by) ==
    /\ toggled < MaxToggles /\ toggled' = toggled + 1
    /\ toggles' = toggles \cup {[id |-> toggled, next |-> next, prev |-> heart.data,
                                 by |-> by, at |-> "sent"]}
    /\ heart' = [heart EXCEPT !.has = TRUE, !.data = next]
    /\ crossed' = (crossed \/ toggles # {} \/ ~heart.has)

(* onMutate: the read in flight is dropped, what was shown is remembered   *)
(* and the guess is shown.                                                 *)
Toggle(next, by) ==
    /\ toggled < MaxToggles /\ toggled' = toggled + 1
    /\ toggles' = toggles \cup {[id |-> toggled, next |-> next, prev |-> heart.data,
                                 by |-> by, at |-> "sent"]}
    /\ heart' = [NoHeart EXCEPT !.has = TRUE, !.data = next]
    /\ crossed' = (crossed \/ toggles # {} \/ ~heart.has)

(* FavoriteButton: drawn once its query has settled, one way or the other, *)
(* and never dead.                                                         *)
Press ==
    /\ switch = "closed" /\ (heart.has \/ heart.fetch = "none")
    /\ Toggle(~heart.data, "button")
    /\ UNCHANGED <<fav, switch, saving, refused>>

OpenOrDismissEditor ==
    /\ switch' = IF switch = "closed" THEN "untouched" ELSE "closed"
    /\ UNCHANGED <<fav, heart, toggles, saving, crossed, toggled, refused>>

(* The switch is dead until the favourite is known; it moves nothing yet.  *)
Touch ==
    /\ switch # "closed" /\ heart.has
    /\ switch' \in {"on", "off"} /\ switch' # switch
    /\ UNCHANGED <<fav, heart, toggles, saving, crossed, toggled, refused>>

(* Save writes the entry first; the favourite follows if it was touched    *)
(* and differs from what is shown, both as of the press.  One Save at a    *)
(* time (bound), although its second call leaves the button alive.         *)
Save ==
    /\ switch # "closed" /\ saving = "no"
    /\ saving' = IF switch = "untouched" \/ (switch = "on") = heart.data
                 THEN "entry" ELSE switch
    /\ UNCHANGED <<fav, heart, toggles, switch, crossed, toggled, refused>>

(* The entry's answer.  The dialog may be gone, or the switch moved.       *)
Saved ==
    /\ UNCHANGED fav
    /\ \/ saving \in {"on", "off"} /\ saving' = "heart"
          /\ Toggle(saving = "on", "editor") /\ UNCHANGED <<switch, refused>>
       \/ saving = "entry" /\ saving' = "no" /\ switch' = "closed"
          /\ UNCHANGED <<heart, toggles, crossed, toggled, refused>>
       \/ saving \in {"on", "off", "entry"} /\ saving' = "no"
          /\ refused < MaxRefusals /\ refused' = refused + 1
          /\ UNCHANGED <<heart, toggles, switch, crossed, toggled>>

ServeToggle(t) ==
    /\ t.at = "sent" /\ fav' = t.next
    /\ toggles' = (toggles \ {t}) \cup {[t EXCEPT !.at = "served"]}
    /\ UNCHANGED <<heart, switch, saving, crossed, toggled, refused>>

Done(t) ==
    /\ toggles' = toggles \ {t}
    /\ saving' = IF t.by = "editor" THEN "no" ELSE saving

ToggleArrives(t) ==
    /\ t.at = "served" /\ Done(t)
    /\ switch' = IF t.by = "editor" THEN "closed" ELSE switch
    /\ UNCHANGED <<fav, heart, crossed, toggled, refused>>

(* onError: what was shown before the press is shown again, whatever       *)
(* happened since; the editor stays open.                                  *)
ToggleFails(t) ==
    /\ refused < MaxRefusals /\ refused' = refused + 1
    /\ Done(t) /\ heart' = [heart EXCEPT !.has = TRUE, !.data = t.prev]
    /\ crossed' = (crossed \/ t.at = "served")
    /\ UNCHANGED <<fav, switch, toggled>>

Next ==
    \/ Reread \/ ServeRead \/ ReadArrives \/ ReadFails
    \/ Press \/ OpenOrDismissEditor \/ Touch \/ Save \/ Saved
    \/ \E t \in toggles : ServeToggle(t) \/ ToggleArrives(t) \/ ToggleFails(t)

Spec == Init /\ [][Next]_heartVars

-----------------------------------------------------------------------------
(* Every variable has its type.                                            *)
TypeOK ==
    /\ fav \in BOOLEAN /\ crossed \in BOOLEAN
    /\ switch \in {"closed", "untouched", "on", "off"} /\ saving \in {"no", "entry", "on", "off", "heart"}
    /\ heart \in [has : BOOLEAN, data : BOOLEAN, fetch : {"none", "asked", "served"}, answer : BOOLEAN]

(* With nothing in flight the heart shows the favourite the API holds,     *)
(* unless toggles overlapped, or rested on nothing read, or an answer was  *)
(* lost, or a read crossed a toggle.                                       *)
HeartIsTrue ==
    heart.has /\ heart.fetch = "none" /\ toggles = {} /\ ~crossed => heart.data = fav

-----------------------------------------------------------------------------
(* What every step keeps: until something crosses, one toggle is in flight *)
(* at most, an answer to a read holds what is stored, and the heart shows  *)
(* what a toggle on its way asks for, or else what is stored.              *)
HeartTypes ==
    /\ TypeOK
    /\ toggles \subseteq [id : Nat, next : BOOLEAN, prev : BOOLEAN,
                          by : {"button", "editor"}, at : {"sent", "served"}]
    /\ toggled \in Nat

OneToggle == \A t, u \in toggles : t = u
ReadIsTrue ==
    heart.fetch = "served" => heart.answer = fav /\ \A t \in toggles : t.at = "served"
GuessIsShown ==
    \A t \in toggles : t.at = "sent" =>
        heart.has /\ heart.data = t.next /\ t.prev = fav
ShownIsStored == heart.has /\ (\A t \in toggles : t.at = "served") => heart.data = fav

HeartInv ==
    /\ HeartTypes
    /\ ~crossed => OneToggle /\ ReadIsTrue /\ GuessIsShown /\ ShownIsStored
=============================================================================
