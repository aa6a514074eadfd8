---------------------------- MODULE ImportPreview ----------------------------
(***************************************************************************)
(* The import preview (app/settings/import/import-preview.tsx and          *)
(* anime-picker.tsx, lib/imports.ts): the viewer decides row by row what   *)
(* is imported, the summary line predicts the outcome of Apply, and the    *)
(* API applies the rows to the list as it is by then.                      *)
(***************************************************************************)
EXTENDS Integers, FiniteSets

CONSTANTS
    Titles,     \* the catalog, 1 .. n
    MostRows,   \* rows of the import (bound)
    Chunk       \* rows drawn at first; Show more adds twice as many

(* What is assumed of them.                                                *)
PreviewAssumption == Titles \subseteq Nat \ {0} /\ MostRows \in Nat
                     /\ Chunk \in Nat \ {0}

VARIABLES
    rows,       \* the job's rows, none before the page has them
    list,       \* the titles on the viewer's list, now
    picks,      \* the viewer's decisions, by row
    mode,       \* "merge" or "overwrite"
    chunks,     \* rows drawn of each section
    picker,     \* the dialog: its row, the words typed, those searched for
    found,      \* the results shown: of which words, and whether others
                \* are still being fetched
    outcome     \* what Apply predicted and did

previewVars == <<rows, list, picks, mode, chunks, picker, found, outcome>>

NoTitle == 0
Untouched == -1
Row == DOMAIN rows
Sections == {"review", "matched"}
Words == {"", "a"}      \* too short to search for, and enough

(* A row: how it was matched, to which title, and whether that title was   *)
(* on the list when the preview was made.                                  *)
RowOf(match, title, listed) ==
    [match |-> match, title |-> IF match = "review" THEN NoTitle ELSE title,
     onList |-> match # "review" /\ title \in listed]

Section(s) == {r \in Row : (rows[r].match = "review") = (s = "review")}
Drawn(s) == {r \in Section(s) : Cardinality({q \in Section(s) : q < r}) < chunks[s]}

Closed == [row |-> 0, typed |-> "", q |-> ""]
NotFound == [of |-> "", fetching |-> FALSE]

-----------------------------------------------------------------------------
(* The summary line: a row counts once, under the first that applies.      *)
(* A fault SummaryIsHonest must notice: a row left out still counts.       *)
FateForgetsExclusion(r) ==
    CASE rows[r].match = "review" /\ picks[r] = Untouched -> "unresolved"
      [] mode = "merge" /\ rows[r].onList /\ picks[r] = Untouched -> "kept"
      [] OTHER -> "importing"
Fate(r) ==
    CASE picks[r] = NoTitle -> "excluded"
      [] picks[r] = Untouched /\ rows[r].match = "review" -> "unresolved"
      [] picks[r] = Untouched /\ rows[r].match # "review" /\ mode = "merge" /\ rows[r].onList -> "kept"
      [] OTHER -> "importing"
Count(fate) == Cardinality({r \in Row : Fate(r) = fate})

(* The API's apply: a resolution overrides or excludes its row, the first  *)
(* of two rows with one target wins, and merging keeps what is on the list *)
(* by now.                                                                 *)
Resolutions == [r \in {q \in Row : picks[q] # Untouched} |-> picks[r]]
Target(r) == IF r \in DOMAIN Resolutions THEN Resolutions[r] ELSE rows[r].title
Applied ==
    {r \in Row : /\ Target(r) # NoTitle
                 /\ \A q \in Row : q < r => Target(q) # Target(r)
                 /\ ~(mode = "merge" /\ Target(r) \in list)}

-----------------------------------------------------------------------------
NoRows == <<>>

Init ==
    /\ rows = NoRows /\ list = {} /\ picks = <<>> /\ mode = "merge"
    /\ chunks = [s \in Sections |-> Chunk] /\ picker = Closed /\ found = NotFound
    /\ outcome = [state |-> "none", predicted |-> 0, applied |-> 0]

(* The job's rows arrive, with the list they were matched against.         *)
Preview ==
    /\ rows = NoRows
    /\ \E n \in 1 .. MostRows, listed \in SUBSET Titles :
         /\ list' = listed
         /\ rows' \in [1 .. n -> {RowOf(m, t, listed) : m \in {"id", "title", "review"}, t \in Titles}]
         /\ picks' = [r \in 1 .. n |-> Untouched]
    /\ UNCHANGED <<mode, chunks, picker, found, outcome>>

SetMode ==
    /\ rows # NoRows /\ mode' = IF mode = "merge" THEN "overwrite" ELSE "merge"
    /\ UNCHANGED <<rows, list, picks, chunks, picker, found, outcome>>

(* "Leave out" and "Include again" of a matched row.                       *)
Exclude(r) ==
    /\ r \in Drawn("matched")
    /\ picks' = [picks EXCEPT ![r] = IF @ = NoTitle THEN Untouched ELSE NoTitle]
    /\ UNCHANGED <<rows, list, mode, chunks, picker, found, outcome>>

(* "Clear" of a review row that was given a title.                         *)
ClearPick(r) ==
    /\ r \in Drawn("review") /\ picks[r] # Untouched
    /\ picks' = [picks EXCEPT ![r] = Untouched]
    /\ UNCHANGED <<rows, list, mode, chunks, picker, found, outcome>>

ShowMore(s) ==
    /\ chunks[s] < Cardinality(Section(s))
    /\ chunks' = [chunks EXCEPT ![s] = @ + 2 * Chunk]
    /\ UNCHANGED <<rows, list, picks, mode, picker, found, outcome>>

(* "Find match", "Change": of a review row, a re-matched one, or one that  *)
(* was matched by its title.  The dialog opens on the row's own title and  *)
(* searches for it at once.                                                *)
OpenPicker(r) ==
    /\ picker = Closed
    /\ \/ r \in Drawn("review")
       \/ r \in Drawn("matched") /\ picks[r] # NoTitle
          /\ (picks[r] # Untouched \/ rows[r].match = "title")
    /\ picker' = [row |-> r, typed |-> "a", q |-> "a"] /\ found' = [of |-> "", fetching |-> TRUE]
    /\ UNCHANGED <<rows, list, picks, mode, chunks, outcome>>

Type ==
    /\ picker # Closed /\ picker' \in {[picker EXCEPT !.typed = w] : w \in Words \ {picker.typed}}
    /\ UNCHANGED <<rows, list, picks, mode, chunks, found, outcome>>

(* The words rest for a quarter of a second: they are searched for, with   *)
(* the last results kept on screen meanwhile.                              *)
Debounce ==
    /\ picker # Closed /\ picker.q # picker.typed
    /\ picker' = [picker EXCEPT !.q = picker.typed]
    /\ found' = [found EXCEPT !.fetching = picker.typed # ""]
    /\ UNCHANGED <<rows, list, picks, mode, chunks, outcome>>

(* The answer; words searched for before need none.                        *)
Found ==
    /\ found.fetching /\ found' = [of |-> picker.q, fetching |-> FALSE]
    /\ UNCHANGED <<rows, list, picks, mode, chunks, picker, outcome>>

(* What the dialog offers.                                                 *)
Listing == IF picker = Closed \/ picker.q = "" THEN "hint"
           ELSE IF found.of # "" THEN "results" ELSE "searching"

Pick(t) ==
    /\ Listing = "results"
    /\ picks' = [picks EXCEPT ![picker.row] = t]
    /\ picker' = Closed /\ found' = NotFound
    /\ UNCHANGED <<rows, list, mode, chunks, outcome>>

ClosePicker ==
    /\ picker # Closed /\ picker' = Closed /\ found' = NotFound
    /\ UNCHANGED <<rows, list, picks, mode, chunks, outcome>>

(* The list changes on another page.                                       *)
ListChanges ==
    /\ rows # NoRows /\ outcome.state = "none"
    /\ \E t \in Titles : list' = list \cup {t} \/ list' = list \ {t}
    /\ UNCHANGED <<rows, picks, mode, chunks, picker, found, outcome>>

(* Apply: dead when nothing would be imported.                             *)
Apply ==
    /\ Count("importing") > 0 /\ outcome.state = "none" /\ picker = Closed
    /\ outcome' = [state |-> "done", predicted |-> Count("importing"),
                   applied |-> Cardinality(Applied)]
    /\ UNCHANGED <<rows, list, picks, mode, chunks, picker, found>>

Next ==
    \/ Preview
    \/ outcome.state = "none"
       /\ \/ SetMode \/ Type \/ Debounce \/ Found \/ ClosePicker \/ ListChanges \/ Apply
          \/ \E s \in Sections : ShowMore(s)
          \/ \E r \in Row : Exclude(r) \/ ClearPick(r) \/ OpenPicker(r)
          \/ \E t \in Titles : Pick(t)

Spec == Init /\ [][Next]_previewVars

-----------------------------------------------------------------------------
(* Every variable has its type.                                            *)
TypeOK ==
    /\ list \subseteq Titles /\ mode \in {"merge", "overwrite"}
    /\ \A r \in Row : picks[r] \in {Untouched, NoTitle} \cup Titles
    /\ picker.typed \in Words /\ picker.q \in Words /\ found.of \in Words

(* The summary promises no less than Apply does to a list that is as the   *)
(* preview saw it, and exactly that unless two rows share a target or a    *)
(* title picked by hand is on the list; a row left out, or left            *)
(* unresolved, is never written; and what the viewer decided about a row   *)
(* is about a row on screen.                                               *)
SummaryIsHonest ==
    LET asSeen == \A r \in Row : rows[r].match # "review" =>
                     (rows[r].onList <=> rows[r].title \in list)
        plain == \A r \in Row : Fate(r) = "importing" =>
                   /\ picks[r] # Untouched /\ mode = "merge" => Target(r) \notin list
                   /\ \A q \in Row \ {r} : Target(q) # Target(r)
    IN  /\ asSeen => Cardinality(Applied) <= Count("importing")
        /\ asSeen /\ plain => Cardinality(Applied) = Count("importing")
        /\ \A r \in Row : Fate(r) \in {"excluded", "unresolved"} => r \notin Applied
        /\ \A r \in Row : picks[r] # Untouched => r \in Drawn("review") \cup Drawn("matched")

-----------------------------------------------------------------------------
(* What every step keeps: a row has a title unless it waits for review,    *)
(* and the rows that were decided about, or are being, are drawn.          *)
AnyRow == [match : {"id", "title", "review"}, title : {NoTitle} \cup Titles, onList : BOOLEAN]
OnScreen == Drawn("review") \cup Drawn("matched")

PreviewTypes ==
    /\ \E n \in 0 .. MostRows : /\ rows \in [1 .. n -> AnyRow]
                                /\ picks \in [1 .. n -> {Untouched, NoTitle} \cup Titles]
    /\ list \subseteq Titles /\ mode \in {"merge", "overwrite"}
    /\ chunks \in [Sections -> Nat]
    /\ picker \in [row : 0 .. MostRows, typed : Words, q : Words]
    /\ found \in [of : Words, fetching : BOOLEAN]

OnlyReviewedLackTitles == \A r \in Row : rows[r].match = "review" <=> rows[r].title = NoTitle
PickedAreDrawn == \A r \in Row : picks[r] # Untouched => r \in OnScreen
PickerIsDrawn == picker # Closed => picker.row \in OnScreen

PreviewInv == PreviewTypes /\ OnlyReviewedLackTitles /\ PickedAreDrawn /\ PickerIsDrawn
=============================================================================
