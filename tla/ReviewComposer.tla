--------------------------- MODULE ReviewComposer ---------------------------
(***************************************************************************)
(* Writing a review on a show's page (components/reviews/anime-reviews.tsx *)
(* and review-composer.tsx): the form starts from the viewer's own review, *)
(* read once by the page; a save replaces the review as a whole.           *)
(*                                                                         *)
(* A text is a number, 0 is none; the score and the spoiler mark go with   *)
(* it.                                                                     *)
(***************************************************************************)
EXTENDS Integers

CONSTANTS
    MaxTexts,   \* texts the viewer writes (bound)
    MaxForms,   \* forms opened (bound)
    MaxErrors   \* reads and saves that fail, or whose answer is lost (bound)

(* What is assumed of them.                                                *)
ComposerAssumption == MaxTexts \in Nat \ {0} /\ MaxForms \in Nat /\ MaxErrors \in Nat

VARIABLES
    review,     \* the stored review
    mine,       \* the page's query of it: Pending, Failed, or its text
    reading,    \* the query's read: "no", "asked", or the text served
    form,       \* the form: its number, what it started from, its text,
                \* and whether it is saving; 0 while the dialog is closed
    saves,      \* saves in flight: [form, text, is]
    forms,      \* forms opened so far
    texts, errors,
    unseen,     \* history: a save replaced a review its form did not start from
    gone,       \* history: a form with a text of its own was closed under it
    blindly,    \* history: a form was opened before the query had the review
    early       \* history: a form was opened, or written in, with a save in
                \* flight

query == <<mine, reading>>
past == <<unseen, gone, blindly, early>>
composerVars == <<review, query, form, saves, forms, texts, errors, past>>

Pending == -1
Failed == -2
NoRead == -1
Asked == -2
Closed == [no |-> 0, seed |-> 0, text |-> 0, saving |-> FALSE]
Existing == IF mine \in {Pending, Failed} THEN 0 ELSE mine

Init ==
    /\ review \in {0, 1} /\ mine = Pending /\ reading = Asked
    /\ form = Closed /\ saves = {} /\ forms = 0 /\ texts = 1 /\ errors = 0
    /\ unseen = FALSE /\ gone = FALSE /\ blindly = FALSE /\ early = FALSE

-----------------------------------------------------------------------------
(* The page's query.  A review that is not there (404) is an answer, too.  *)

ServeMine ==
    /\ reading = Asked /\ reading' = review
    /\ UNCHANGED <<review, mine, form, saves, forms, texts, errors, past>>

MineArrives ==
    /\ reading \notin {NoRead, Asked} /\ mine' = reading /\ reading' = NoRead
    /\ UNCHANGED <<review, form, saves, forms, texts, errors, past>>

(* A failed read keeps what an earlier one brought.                        *)
MineFails ==
    /\ reading # NoRead /\ errors < MaxErrors /\ errors' = errors + 1
    /\ mine' = (IF mine = Pending THEN Failed ELSE mine) /\ reading' = NoRead
    /\ UNCHANGED <<review, form, saves, forms, texts, past>>

(* The window comes back to the front.                                     *)
Refocus ==
    /\ mine = Failed /\ reading = NoRead /\ mine' = Pending /\ reading' = Asked
    /\ UNCHANGED <<review, form, saves, forms, texts, errors, past>>

-----------------------------------------------------------------------------
(* The dialog.  Its button is there as soon as the session is, whatever    *)
(* the query has.                                                          *)

Open ==
    /\ form = Closed /\ forms < MaxForms /\ forms' = forms + 1
    /\ form' = [no |-> forms', seed |-> Existing, text |-> Existing, saving |-> FALSE]
    /\ blindly' = (blindly \/ mine \in {Pending, Failed} \/ reading # NoRead)
    /\ early' = (early \/ saves # {})
    /\ UNCHANGED <<review, query, saves, texts, errors, unseen, gone>>

Type ==
    /\ form # Closed /\ texts < MaxTexts
    /\ texts' = texts + 1 /\ form' = [form EXCEPT !.text = texts']
    /\ early' = (early \/ saves # {})
    /\ UNCHANGED <<review, query, saves, forms, errors, unseen, gone, blindly>>

(* Escape, or a press beside it: a save that is in flight goes on.         *)
Dismiss ==
    /\ form # Closed /\ form' = Closed
    /\ UNCHANGED <<review, query, saves, forms, texts, errors, past>>

Save ==
    /\ form.text # 0 /\ ~form.saving
    /\ form' = [form EXCEPT !.saving = TRUE]
    /\ saves' = saves \cup {[form |-> form.no, seed |-> form.seed, text |-> form.text, is |-> "sent"]}
    /\ UNCHANGED <<review, query, forms, texts, errors, past>>

(* One row for a viewer and a show: a save replaces it.                    *)
Upsert ==
    /\ \E s \in saves :
         /\ s.is = "sent" /\ review' = s.text
         /\ saves' = (saves \ {s}) \cup {[s EXCEPT !.is = "ok"]}
         /\ unseen' = (unseen \/ review \notin {0, s.seed, s.text})
    /\ UNCHANGED <<query, form, forms, texts, errors, gone, blindly, early>>

(* A fault SocialHonest must notice: a refused text is dropped.            *)
FormAfterAny(s) == Closed

(* The form a save came from is closed when it is accepted and lives on    *)
(* when it is not.  The closing is the dialog's: a form that was opened    *)
(* since goes with it.                                                     *)
FormAfter(s) ==
    IF s.is = "ok" THEN Closed
    ELSE IF form.no = s.form THEN [form EXCEPT !.saving = FALSE] ELSE form

SaveAnswered ==
    /\ \E s \in saves :
         /\ s.is # "sent" /\ saves' = saves \ {s}
         /\ form' = FormAfter(s)
         /\ gone' = (gone \/ (form' = Closed /\ form.text # form.seed
                               /\ ~(s.is = "ok" /\ form.text = s.text)))
         /\ reading' = IF s.is = "ok" THEN Asked ELSE reading
    /\ UNCHANGED <<review, mine, forms, texts, errors, unseen, blindly, early>>

(* Refused, or the answer is lost: the review may be stored.               *)
SaveFails ==
    /\ errors < MaxErrors /\ errors' = errors + 1
    /\ \E s \in saves : s.is # "failed" /\ saves' = (saves \ {s}) \cup {[s EXCEPT !.is = "failed"]}
    /\ UNCHANGED <<review, query, form, forms, texts, past>>

Next == ServeMine \/ MineArrives \/ MineFails \/ Refocus \/ Open \/ Type \/ Dismiss \/ Save
          \/ Upsert \/ SaveAnswered \/ SaveFails

Spec == Init /\ [][Next]_composerVars

-----------------------------------------------------------------------------
(* Every variable has its type.                                            *)
TypeOK ==
    /\ review \in 0 .. MaxTexts /\ mine \in {Pending, Failed} \cup 0 .. MaxTexts
    /\ reading \in {NoRead, Asked} \cup 0 .. MaxTexts
    /\ form \in [no : 0 .. MaxForms, seed : 0 .. MaxTexts, text : 0 .. MaxTexts, saving : BOOLEAN]
    /\ \A s \in saves : s.form \in 1 .. MaxForms /\ s.is \in {"sent", "ok", "failed"}
    /\ texts <= MaxTexts /\ errors <= MaxErrors
    /\ unseen \in BOOLEAN /\ gone \in BOOLEAN /\ blindly \in BOOLEAN /\ early \in BOOLEAN

(* A review is replaced unseen only by a form that was opened before the   *)
(* page had read it, or with a save on its way; a text is erased under its *)
(* writer only if it was begun or changed with a save on its way; and at   *)
(* rest the button knows whether there is a review, unless a call failed.  *)
ReviewIsKept ==
    /\ unseen => blindly \/ early \/ errors > 0
    /\ gone => early
    /\ saves = {} /\ reading = NoRead /\ errors = 0 /\ mine # Pending => mine = review

(* Why it is.  A form that was opened and written in with no save on its   *)
(* way is the only one whose save there is, and while nothing failed what  *)
(* it started from is what that save replaces; and what the query has, or  *)
(* was served, is the review until a save is accepted, which asks again.   *)
Saved == [form : 1 .. MaxForms, seed : 0 .. MaxTexts, text : 0 .. MaxTexts, is : {"sent", "ok", "failed"}]
ComposerTypes ==
    /\ review \in 0 .. MaxTexts /\ mine \in {Pending, Failed} \cup 0 .. MaxTexts
    /\ reading \in {NoRead, Asked} \cup 0 .. MaxTexts
    /\ form = Closed \/ form \in [no : 1 .. MaxForms, seed : 0 .. MaxTexts, text : 0 .. MaxTexts,
                                  saving : BOOLEAN]
    /\ \A s \in saves : s \in Saved
    /\ texts \in 0 .. MaxTexts /\ errors \in 0 .. MaxErrors /\ forms \in 0 .. MaxForms
    /\ unseen \in BOOLEAN /\ gone \in BOOLEAN /\ blindly \in BOOLEAN /\ early \in BOOLEAN
Fresh == \A s \in saves : s.is # "ok"
QueryIsFresh ==
    errors = 0 =>
        /\ mine # Failed /\ \A s \in saves : s.is # "failed"
        /\ Fresh /\ reading \notin {NoRead, Asked} => reading = review
        /\ Fresh /\ reading = NoRead /\ mine # Pending => mine = review
OneSave ==
    ~early =>
        /\ \A s, t \in saves : s = t
        /\ form # Closed => \A s \in saves : form.saving /\ form.no = s.form /\ form.text = s.text
ReplacesItsSeed ==
    ~early /\ ~blindly /\ errors = 0 =>
        /\ form # Closed /\ saves = {} => form.seed = review
        /\ \A s \in saves : s.is = "sent" => s.seed = review
ComposerInv ==
    /\ ComposerTypes /\ QueryIsFresh /\ OneSave /\ ReplacesItsSeed
    /\ unseen => blindly \/ early \/ errors > 0
    /\ gone => early
=============================================================================
