--------------------------- MODULE SpoilerShield ---------------------------
(***************************************************************************)
(* The spoiler guards of an episode's thread: the shield that knows how    *)
(* far the viewer is (components/discussions/episode-spoiler-shield.tsx),  *)
(* the guard around each comment (components/spoiler-guard.tsx), the quote *)
(* chips (comment-item.tsx) and the composer's reply chip.                 *)
(***************************************************************************)
EXTENDS Naturals

CONSTANTS
    Comments,   \* comments of the thread
    Marked,     \* those their authors marked as spoilers
    Episode     \* the thread's episode

(* What is assumed of them.                                                *)
ShieldAssumption == Marked \subseteq Comments /\ Episode \in Nat \ {0}

VARIABLES
    session,    \* "loading", "anon" or "authed"
    watched,    \* the viewer's row: listed with the episodes watched,
                \* completed, or unlisted
    entry,      \* the query: Pending, Failed, or the row as it was read
    revealed,   \* the shield's "Show anyway"
    opened      \* comments whose guard was clicked

shieldVars == <<session, watched, entry, revealed, opened>>

Row(k, n) == [kind |-> k, upTo |-> n]
AnyRow == {Row("listed", n) : n \in 0 .. Episode} \cup {Row("completed", 0), Row("unlisted", 0)}
Pending == Row("pending", 0)
Failed == Row("failed", 0)

(* An anonymous viewer has no row to read; only aired episodes have a      *)
(* shield, and this one aired.                                             *)
Init ==
    /\ session = "loading" /\ watched \in AnyRow /\ entry = Pending
    /\ revealed = FALSE /\ opened = {}

Behind(row) == row.kind = "listed" /\ row.upTo < Episode

(* A fault BlurHolds must notice: nothing is blurred until the row is read.*)
ShieldWhenKnown == session = "authed" /\ Behind(entry) /\ ~revealed

(* Blur while the row is still loading, too.                               *)
Shield == session = "authed" /\ (entry = Pending \/ (Behind(entry) /\ ~revealed))

(* A comment's text, and its excerpt in a reply's quote chip or the        *)
(* composer's.                                                             *)
Readable(c) == (~Shield /\ c \notin Marked) \/ c \in opened
Quoted(c) == ~Shield /\ c \notin Marked

SessionKnown ==
    /\ session = "loading" /\ session' \in {"anon", "authed"}
    /\ UNCHANGED <<watched, entry, revealed, opened>>

EntryRead ==
    /\ session = "authed" /\ entry' \in {watched} \cup IF entry = Pending THEN {Failed} ELSE {}
    /\ UNCHANGED <<session, watched, revealed, opened>>

(* "Mark ep N watched", offered one episode behind: its answer is written  *)
(* to the query.                                                           *)
MarkWatched ==
    /\ session = "authed" /\ Behind(entry) /\ entry.upTo = Episode - 1
    /\ watched' \in {Row("listed", Episode), Row("completed", 0)} /\ entry' = watched'
    /\ UNCHANGED <<session, revealed, opened>>

(* "Show anyway" and "Blur again".                                         *)
ToggleShield ==
    /\ session = "authed" /\ Behind(entry) /\ revealed' = ~revealed
    /\ UNCHANGED <<session, watched, entry, opened>>

(* A guard that was clicked stays open, whatever the shield does next.     *)
OpenGuard ==
    /\ \E c \in Comments : ~Readable(c) /\ opened' = opened \cup {c}
    /\ UNCHANGED <<session, watched, entry, revealed>>

(* The row changes on another page or device.                              *)
SeenElsewhere ==
    /\ watched' \in AnyRow /\ UNCHANGED <<session, entry, revealed, opened>>

Next == SessionKnown \/ EntryRead \/ MarkWatched \/ ToggleShield \/ OpenGuard \/ SeenElsewhere

Spec == Init /\ [][Next]_shieldVars

-----------------------------------------------------------------------------
(* Every variable has its type.                                            *)
TypeOK ==
    /\ session \in {"loading", "anon", "authed"} /\ watched \in AnyRow
    /\ entry \in AnyRow \cup {Pending, Failed} /\ revealed \in BOOLEAN /\ opened \subseteq Comments

(* A viewer who is behind reads a comment only after asking for it, unless *)
(* the session is not known yet, the row could not be read, or it has      *)
(* changed since it was read; and a marked comment is never quoted.        *)
BlurHolds ==
    \A c \in Comments :
        /\ Quoted(c) => c \notin Marked
        /\ Behind(watched) /\ session = "authed" /\ entry \in {Pending, watched}
              /\ (Readable(c) \/ Quoted(c)) => revealed \/ c \in opened
=============================================================================
