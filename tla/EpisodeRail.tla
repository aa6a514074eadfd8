---------------------------- MODULE EpisodeRail ----------------------------
(***************************************************************************)
(* Getting to an episode (components/anime/episode-navigator.tsx on        *)
(* lib/episodes.ts): the rail that opens on where the viewer is, paged by  *)
(* ranges when the show is long, its jump buttons and its jump box.        *)
(*                                                                         *)
(* An episode is its number; "air" gives its airing time, Unknown if the   *)
(* catalogue has none.                                                     *)
(***************************************************************************)
EXTENDS Integers, Sequences, FiniteSets, FiniteSetsExt

CONSTANTS
    RangeSize,      \* RANGE_SIZE, and PAGINATION_THRESHOLD
    Numbers,        \* episode numbers
    Times,          \* airing times
    Now,            \* the time of the render
    MostListed      \* episodes of a show (bound)

(* What is assumed of them.                                                *)
EpisodeAssumption == RangeSize \in Nat \ {0} /\ Numbers \subseteq Nat \ {0}
                  /\ Times \subseteq Nat \ {0} /\ Now \in Nat /\ MostListed \in Nat

VARIABLES
    air,        \* the episodes the page was given, with their airing times
    progress,   \* the viewer's entry: episodes watched, NoEntry without one
    rangeId     \* the bucket of the range picked, Auto follows the anchor

railVars == <<air, progress, rangeId>>

Unknown == 0
NoEntry == -1
Auto == -1
NoEpisode == 0
episodes == DOMAIN air

-----------------------------------------------------------------------------
(* A fault AllWithinReach must notice: the bucket of the number itself.    *)
BucketOfNumber(n) == n \div RangeSize

(* Ranges: only the buckets that hold episodes, each with its bounds.      *)
BucketOf(n) == Max({0, (n - 1) \div RangeSize})
Ranges == {BucketOf(n) : n \in episodes}
InRange(n, b) == n >= b * RangeSize + 1 /\ n <= (b + 1) * RangeSize
RangeContaining(n) == {b \in Ranges : n # NoEpisode /\ InRange(n, b)}
NeedsPagination == Cardinality(episodes) > RangeSize

(* The most recent aired episode, or the last when none is known to have   *)
(* aired; of two that aired at once, the one listed first.                 *)
Aired == {n \in episodes : air[n] # Unknown /\ air[n] <= Now}
LatestAired ==
    IF episodes = {} THEN NoEpisode
    ELSE IF Aired = {} THEN Max(episodes)
    ELSE CHOOSE n \in Aired : \A o \in Aired : air[o] < air[n] \/ (air[o] = air[n] /\ n <= o)

(* Where the viewer goes next, how a card reads, and what the rail opens   *)
(* on.                                                                     *)
NextUp == IF progress = NoEntry \/ \A n \in episodes : n <= progress THEN NoEpisode
          ELSE Min({n \in episodes : n > progress})
EpisodeState(n) == CASE progress = NoEntry -> "plain"
                     [] progress # NoEntry /\ n <= progress -> "watched"
                     [] n > progress /\ n = NextUp -> "next"
                     [] OTHER -> "ahead"
Anchor == IF NextUp # NoEpisode THEN NextUp ELSE LatestAired

(* The jump row: continue, start, latest, one button for each episode.     *)
JumpTargets ==
    IF episodes = {} THEN <<>>
    ELSE LET first == Min(episodes)
             wanted == (IF NextUp \notin {NoEpisode, first} THEN <<NextUp>> ELSE <<>>)
                         \o <<first, LatestAired>>
         IN  SelectSeq([i \in 1 .. Len(wanted) |-> [at |-> i, number |-> wanted[i]]],
                       LAMBDA t : \A j \in 1 .. (t.at - 1) : wanted[j] # t.number)

(* The page of the rail: the range picked, the anchor's, or the last.      *)
Active ==
    IF rangeId \in Ranges THEN rangeId
    ELSE IF RangeContaining(Anchor) # {} THEN CHOOSE b \in RangeContaining(Anchor) : TRUE
    ELSE Max(Ranges)
Rail == IF NeedsPagination THEN {n \in episodes : InRange(n, Active)} ELSE episodes

-----------------------------------------------------------------------------
Init == air = <<>> /\ progress = NoEntry /\ rangeId = Auto

(* The page opens on a show.                                               *)
Open ==
    /\ air = <<>>
    /\ \E listed \in kSubset(MostListed, Numbers) \cup kSubset(1, Numbers) :
         air' \in [listed -> Times \cup {Unknown}]
    /\ UNCHANGED <<progress, rangeId>>

(* The viewer's entry is read, or changes.                                 *)
EntryRead ==
    /\ air # <<>> /\ progress' \in {NoEntry, 0} \cup Numbers
    /\ UNCHANGED <<air, rangeId>>

(* The stepper's arrows and its menu of ranges.                            *)
Step ==
    /\ NeedsPagination
    /\ \/ rangeId' \in Ranges
       \/ \E b \in Ranges : b < Active /\ rangeId' = Max({c \in Ranges : c < Active})
       \/ \E b \in Ranges : b > Active /\ rangeId' = Min({c \in Ranges : c > Active})
    /\ UNCHANGED <<air, progress>>

(* A result of the jump box: the rail moves to the episode's range, too.   *)
Go ==
    /\ \E n \in episodes : rangeId' \in RangeContaining(n)
    /\ UNCHANGED <<air, progress>>

(* The rail's Watched, on the card that is up next and has aired.          *)
Tick ==
    /\ \E n \in Rail : EpisodeState(n) = "next" /\ air[n] <= Now /\ progress' = n
    /\ UNCHANGED <<air, rangeId>>

Next == Open \/ EntryRead \/ Step \/ Go \/ Tick

Spec == Init /\ [][Next]_railVars

-----------------------------------------------------------------------------
(* Every variable has its type, and the range picked is one of the show's. *)
TypeOK ==
    /\ episodes \subseteq Numbers /\ progress \in {NoEntry, 0} \cup Numbers
    /\ rangeId \in {Auto} \cup Ranges

(* Each episode is on exactly one page of the rail; until the viewer picks *)
(* a page the rail shows the episode it opens on; whatever is up next is   *)
(* one card, the first that is not watched; and the jump row has one       *)
(* button for each episode it offers, the primary one leading to what is   *)
(* up next.                                                                *)
AllWithinReach ==
    episodes # {} =>
    /\ \A n \in episodes : Cardinality({b \in Ranges : InRange(n, b)}) = 1
    /\ rangeId = Auto => Anchor \in Rail
    /\ \A n \in episodes : EpisodeState(n) = "next" =>
          \A m \in episodes : m < n <=> EpisodeState(m) = "watched"
    /\ \A i, j \in DOMAIN JumpTargets : JumpTargets[i].number = JumpTargets[j].number => i = j
    /\ NextUp # NoEpisode => JumpTargets[1].number = NextUp
=============================================================================
