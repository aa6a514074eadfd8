----------------------------- MODULE Onboarding -----------------------------
(***************************************************************************)
(* The step after registering (app/welcome/onboarding.tsx): shows picked   *)
(* from the season, from the popular ones or from a search, then written   *)
(* to the list one call each, all at once.                                 *)
(***************************************************************************)
EXTENDS Naturals, FiniteSets

CONSTANTS
    Catalog,        \* shows, numbered
    MaxTyping,      \* changes of the search field (bound)
    MaxPicks,       \* taps on shows (bound)
    MaxMissed       \* calls lost or refused (bound)

(* What is assumed of them.                                                *)
OnboardingAssumption ==
    Catalog \subseteq Nat /\ MaxTyping \in Nat /\ MaxPicks \in Nat /\ MaxMissed \in Nat

VARIABLES
    onList,     \* shows on the viewer's list
    tab,        \* "seasonal" or "popular"
    typed,      \* what the search field says
    query,      \* what is searched for: typed, a moment ago
    search,     \* the searches: what each has, or that it failed
    drawnFrom,  \* the search whose results were last had
    picked,     \* shows picked
    seed,       \* the writes: which were sent, answered well, answered badly
    said,       \* the count the toast told, or none
    at,         \* "welcome" or "home"
    spent       \* typing, picks and misses so far

seedVars == <<onList, tab, typed, query, search, drawnFrom, picked, seed, said, at, spent>>

(* A search finds the shows with its letter, and one finds none; less than *)
(* two letters search for nothing.                                         *)
Texts == {"", "aa", "bb", "zz"}
Matches(text) == CASE text = "aa" -> Catalog
                   [] text = "bb" -> {s \in Catalog : s % 2 = 0}
                   [] OTHER -> {}
Searching == query # ""
Fresh == [at |-> "none", has |-> FALSE, data |-> {}]
NoWrites == [on |-> FALSE, sent |-> {}, done |-> {}, failed |-> {}]
None == {}

Init ==
    /\ onList = {} /\ tab = "seasonal" /\ typed = "" /\ query = ""
    /\ search = [q \in Texts |-> Fresh] /\ drawnFrom = ""
    /\ picked = {} /\ seed = NoWrites /\ said = None /\ at = "welcome"
    /\ spent = [typing |-> 0, picks |-> 0, missed |-> 0]

-----------------------------------------------------------------------------
(* What PickerGrid draws: the tab's shows, or the search's; until it is    *)
(* answered, those of the search before it.                                *)
Results == IF search[query].has THEN search[query].data
           ELSE IF search[query].at = "failed" THEN {} ELSE search[drawnFrom].data
Browse == IF tab = "seasonal" THEN {s \in Catalog : s = 1} ELSE {s \in Catalog : s # 1}
Items == IF Searching THEN Results ELSE Browse
Loading == Searching /\ search[query].at = "asked" /\ Results = {}
PickerGrid == [tiles |-> IF Loading THEN {} ELSE Items,
               says |-> CASE Loading -> "skeleton"
                          [] ~Loading /\ Items = {} /\ Searching -> "no results"
                          [] ~Loading /\ Items = {} /\ ~Searching -> "nothing here"
                          [] OTHER -> "tiles"]

Open == at = "welcome"

SwitchTab ==
    /\ Open /\ tab' = (IF tab = "seasonal" THEN "popular" ELSE "seasonal")
    /\ UNCHANGED <<onList, typed, query, search, drawnFrom, picked, seed, said, at, spent>>

TypeQuery ==
    /\ Open /\ spent.typing < MaxTyping /\ spent' = [spent EXCEPT !.typing = @ + 1]
    /\ typed' \in Texts \ {typed}
    /\ UNCHANGED <<onList, tab, query, search, drawnFrom, picked, seed, said, at>>

(* useDebounced, then the search of what was typed unless it is cached.    *)
Settle ==
    /\ Open /\ query # typed /\ query' = typed
    /\ search' = IF typed # "" /\ ~search[typed].has THEN [search EXCEPT ![typed].at = "asked"]
                 ELSE search
    /\ drawnFrom' = IF search[typed].has THEN typed ELSE drawnFrom
    /\ UNCHANGED <<onList, tab, typed, picked, seed, said, at, spent>>

SearchArrives(q) ==
    /\ search[q].at = "asked"
    /\ search' = [search EXCEPT ![q] = [at |-> "none", has |-> TRUE, data |-> Matches(q)]]
    /\ drawnFrom' = IF q = query THEN q ELSE drawnFrom
    /\ UNCHANGED <<onList, tab, typed, query, picked, seed, said, at, spent>>

Miss == spent.missed < MaxMissed /\ spent' = [spent EXCEPT !.missed = @ + 1]

SearchFails(q) ==
    /\ search[q].at = "asked" /\ Miss /\ search' = [search EXCEPT ![q].at = "failed"]
    /\ UNCHANGED <<onList, tab, typed, query, drawnFrom, picked, seed, said, at>>

(* A tile stays alive while the picks are being written.                   *)
Toggle ==
    /\ Open /\ spent.picks < MaxPicks /\ spent' = [spent EXCEPT !.picks = @ + 1]
    /\ \E s \in PickerGrid.tiles : picked' = IF s \in picked THEN picked \ {s} ELSE picked \cup {s}
    /\ UNCHANGED <<onList, tab, typed, query, search, drawnFrom, seed, said, at>>

Finish ==
    /\ Open /\ ~seed.on /\ picked # {}
    /\ seed' = [NoWrites EXCEPT !.on = TRUE, !.sent = picked]
    /\ UNCHANGED <<onList, tab, typed, query, search, drawnFrom, picked, said, at, spent>>

Pending == seed.sent \ (seed.done \cup seed.failed)

WriteEntry(s) ==
    /\ seed.on /\ s \in Pending /\ onList' = onList \cup {s}
    /\ seed' = [seed EXCEPT !.done = @ \cup {s}]
    /\ UNCHANGED <<tab, typed, query, search, drawnFrom, picked, said, at, spent>>

(* A write refused, or one whose answer is lost.                           *)
WriteFails(s) ==
    /\ seed.on /\ s \in Pending /\ Miss
    /\ onList' \in {onList, onList \cup {s}}
    /\ seed' = [seed EXCEPT !.failed = @ \cup {s}]
    /\ UNCHANGED <<tab, typed, query, search, drawnFrom, picked, said, at>>

(* A fault SeedIsHonest must notice: every settled write counts.           *)
CountSettled(s) == Cardinality(s.done \cup s.failed)

Count(s) == Cardinality(s.done)

(* All have settled: the count is told, none is not, and the page is left. *)
Settled ==
    /\ seed.on /\ Pending = {} /\ at' = "home"
    /\ seed' = [seed EXCEPT !.on = FALSE]
    /\ said' = IF Count(seed) > 0 THEN {Count(seed)} ELSE said
    /\ UNCHANGED <<onList, tab, typed, query, search, drawnFrom, picked, spent>>

(* "Skip", dead while the picks are being written.                         *)
Skip ==
    /\ Open /\ ~seed.on /\ at' = "home"
    /\ UNCHANGED <<onList, tab, typed, query, search, drawnFrom, picked, seed, said, spent>>

Next ==
    \/ SwitchTab \/ TypeQuery \/ Settle \/ Toggle \/ Finish \/ Settled \/ Skip
    \/ \E q \in Texts : SearchArrives(q) \/ SearchFails(q)
    \/ \E s \in Catalog : WriteEntry(s) \/ WriteFails(s)

Spec == Init /\ [][Next]_seedVars

-----------------------------------------------------------------------------
(* Every variable has its type.                                            *)
TypeOK ==
    /\ onList \subseteq Catalog /\ picked \subseteq Catalog /\ typed \in Texts /\ query \in Texts
    /\ seed.sent \subseteq Catalog /\ at \in {"welcome", "home"}

(* The toast tells no more shows than were added, and all of them when no  *)
(* answer was lost; what is on the list was picked; and a search that was  *)
(* answered shows its matches, "No results" being said of one that has     *)
(* none or failed.                                                         *)
SeedIsHonest ==
    /\ \A n \in said : n <= Cardinality(onList) /\ (seed.failed = {} => n = Cardinality(onList))
    /\ onList \subseteq seed.sent
    /\ at = "home" /\ seed.sent # {} /\ said = None => seed.failed = seed.sent
    /\ Searching /\ search[query].has => PickerGrid.tiles = Matches(query)
    /\ PickerGrid.says = "no results" => Matches(query) = {} \/ search[query].at = "failed"

-----------------------------------------------------------------------------
(* What SeedIsHonest rests on: with their types, a search that was         *)
(* answered has its matches and the one searched for was asked; what is on *)
(* the list was sent and what was answered well is on it; nothing was said *)
(* while the page is open, and once it is left the count of those answered *)
(* well was, unless there were none.                                       *)
AnySearch == [at : {"none", "asked", "failed"}, has : BOOLEAN, data : SUBSET Catalog]
SeedTypes ==
    /\ onList \subseteq Catalog /\ typed \in Texts /\ query \in Texts /\ drawnFrom \in Texts
    /\ search \in [Texts -> AnySearch]
    /\ picked \subseteq Catalog /\ IsFiniteSet(picked)
    /\ seed \in [on : BOOLEAN, sent : SUBSET Catalog, done : SUBSET Catalog,
                 failed : SUBSET Catalog]
    /\ IsFiniteSet(seed.sent) /\ at \in {"welcome", "home"}
SearchesAnswered ==
    /\ \A q \in Texts : search[q].has => search[q].at = "none" /\ search[q].data = Matches(q)
    /\ Searching /\ ~search[query].has => search[query].at \in {"asked", "failed"}
WritesCounted ==
    /\ seed.done \subseteq onList /\ onList \subseteq seed.sent /\ seed.failed \subseteq seed.sent
    /\ seed.done \cap seed.failed = {}
    /\ seed.on => Open
    /\ Open => said = None
    /\ Open /\ ~seed.on => seed.sent = {}
    /\ ~Open => seed.sent = seed.done \cup seed.failed
    /\ ~Open => said = IF seed.done = {} THEN None ELSE {Count(seed)}
SeedInv == SeedTypes /\ SearchesAnswered /\ WritesCounted
=============================================================================
