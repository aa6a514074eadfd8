---------------------------- MODULE ThreadSorts ----------------------------
(***************************************************************************)
(* How the comments a page has loaded are drawn                            *)
(* (components/discussions/thread-view.tsx and comment-item.tsx): the      *)
(* sorts, the count that Top breaks ties with, and the quote or the stub   *)
(* of a reply.  ThreadClient has how the comments come to be loaded.       *)
(*                                                                         *)
(* A comment is its id; a reply's id is greater than its parent's.         *)
(***************************************************************************)
EXTENDS Integers, Sequences, FiniteSets, SequencesExt

CONSTANTS
    Newest,     \* the newest comment's id
    Heats,      \* counts of reactions
    MaxSorts    \* changes of the sort (bound)

(* What is assumed of them.                                                *)
SortsAssumption ==
    Newest \in Nat /\ Heats \subseteq Nat /\ MaxSorts \in Nat

VARIABLES
    thread,     \* the thread: for each comment its parent (0 is none), the
                \* second it is anchored to (or Unstamped), whether it was
                \* deleted, and its reactions
    oldest,     \* comments from this one on are loaded
    order,      \* the sort in use
    turns

sortsVars == <<thread, oldest, order, turns>>

Unstamped == -1
Orders == {"newest", "oldest", "top", "timeline"}
Loaded == oldest .. Newest
Parent(c) == thread[c].parent

(* Roots, and replies whose parent is not loaded.                          *)
IsRoot(c) == Parent(c) = 0 \/ Parent(c) \notin Loaded
DisplayRoots == {c \in Loaded : IsRoot(c)}

(* The replies drawn below a comment: those whose ancestry leads to it.    *)
Below(c) ==
    LET leads[d \in Loaded] == ~IsRoot(d) /\ (Parent(d) = c \/ leads[Parent(d)])
    IN  {d \in Loaded : leads[d]}

(* A fault ViewsAgree must notice: only direct replies are counted.        *)
CountDirect(c) == Cardinality({d \in Loaded : Parent(d) = c})

(* The busiest conversation: each reply counts for the root it hangs from. *)
ReplyCount(c) ==
    LET rootOf[d \in Loaded] == IF IsRoot(d) THEN d ELSE rootOf[Parent(d)]
    IN  Cardinality({d \in Loaded : rootOf[d] = c /\ ~IsRoot(d)})

Heat(c) == thread[c].heat
Hotter(a, b) ==
    \/ Heat(a) > Heat(b)
    \/ Heat(a) = Heat(b) /\ ReplyCount(a) > ReplyCount(b)
    \/ Heat(a) = Heat(b) /\ ReplyCount(a) = ReplyCount(b) /\ a > b
Above(a, b) ==
    CASE order = "oldest" -> a < b [] order = "top" -> Hotter(a, b) [] OTHER -> a > b
SortedRoots == SetToSortSeq(DisplayRoots, Above)

(* "By timestamp", offered while a loaded comment has a stamp (a deleted   *)
(* one, too): comments one by one, in the order of their stamps.           *)
AnyTimestamps == \E c \in Loaded : thread[c].stamp # Unstamped
OnTimeline(c) == thread[c].stamp # Unstamped /\ ~thread[c].deleted
Sooner(a, b) ==
    thread[a].stamp < thread[b].stamp \/ (thread[a].stamp = thread[b].stamp /\ a < b)
Timeline == SetToSortSeq({c \in Loaded : OnTimeline(c)}, Sooner)

(* A comment's header: what it replies to.                                 *)
Context(c) ==
    IF Parent(c) = 0 THEN "none" ELSE IF Parent(c) \in Loaded THEN "quote" ELSE "stub"

TimesDrawn(c) ==
    IF order = "timeline" THEN Cardinality({i \in DOMAIN Timeline : Timeline[i] = c})
    ELSE Cardinality({i \in DOMAIN SortedRoots :
                        c = SortedRoots[i] \/ c \in Below(SortedRoots[i])})

Init ==
    /\ \E p \in [1 .. Newest -> 0 .. Newest - 1], h \in [1 .. Newest -> Heats],
          one \in {2, Newest}, s \in {Unstamped, 7}, x \in BOOLEAN :
         /\ \A c \in 1 .. Newest : p[c] < c
         /\ thread = [c \in 1 .. Newest |->
                        [parent |-> p[c], heat |-> h[c],
                         stamp |-> IF c = one THEN s ELSE IF c = 1 THEN 9 ELSE Unstamped,
                         deleted |-> c = one /\ x]]
    /\ oldest \in 1 .. Newest /\ order = "newest" /\ turns = 0

(* The sort's menu; "Load older comments" brings one more.                 *)
PickSort ==
    /\ turns < MaxSorts /\ turns' = turns + 1
    /\ order' \in Orders \ {order} /\ (order' = "timeline" => AnyTimestamps)
    /\ UNCHANGED <<thread, oldest>>
LoadOlder == oldest > 1 /\ oldest' = oldest - 1 /\ UNCHANGED <<thread, order, turns>>

Next == PickSort \/ LoadOlder

Spec == Init /\ [][Next]_sortsVars

-----------------------------------------------------------------------------
(* Every variable has its type.                                            *)
TypeOK ==
    /\ \A c \in 1 .. Newest : Parent(c) \in 0 .. c - 1 /\ Heat(c) \in Heats
    /\ oldest \in 1 .. Newest /\ order \in Orders /\ turns <= MaxSorts

(* Each sort draws each loaded comment once (by timestamp: each that is    *)
(* anchored and not deleted), Top counts what is drawn below a root, and   *)
(* a reply drawn at the top says that it is one, or quotes what it         *)
(* answers.                                                                *)
SortsAreWhole ==
    /\ \A c \in Loaded :
         TimesDrawn(c) = IF order # "timeline" \/ OnTimeline(c) THEN 1 ELSE 0
    /\ \A r \in DisplayRoots :
         /\ ReplyCount(r) = Cardinality(Below(r))
         /\ Parent(r) # 0 => Context(r) = "stub"
    /\ order = "top" =>
         \A i, j \in DOMAIN SortedRoots : i < j => Heat(SortedRoots[i]) >= Heat(SortedRoots[j])
    /\ order = "timeline" =>
         \A i, j \in DOMAIN Timeline :
            i < j => thread[Timeline[i]].stamp <= thread[Timeline[j]].stamp
=============================================================================
