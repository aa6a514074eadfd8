--------------------------- MODULE ThreadTexture ---------------------------
(***************************************************************************)
(* The strip that draws where an episode's discussion lands                *)
(* (components/discussions/timestamp-density.tsx on lib/thread-texture.ts) *)
(* and the chip that says how fast it moves.                               *)
(*                                                                         *)
(* A comment is its id; "said" gives the second it is anchored to (NoStamp *)
(* without one), whether it was deleted, and its age in minutes.           *)
(***************************************************************************)
EXTENDS Integers, Sequences, FiniteSets, FiniteSetsExt

CONSTANTS
    Buckets,    \* bucketCount
    LastStamp,  \* anchored seconds are at most this (bound)
    Ages,       \* ages of comments
    MostSaid    \* comments loaded (bound)

(* What is assumed of them.                                                *)
TextureAssumption == Buckets \in Nat \ {0} /\ LastStamp \in Nat /\ Ages \subseteq Nat
                  /\ MostSaid \in Nat

VARIABLES
    said,       \* the comments loaded
    truncated   \* older ones are not

textureVars == <<said, truncated>>

NoStamp == -1
Window == 15        \* VELOCITY_WINDOW_MS, in minutes
Floor == 3          \* VELOCITY_FLOOR
ids == DOMAIN said

Stamped == {c \in ids : said[c].at # NoStamp /\ ~said[c].deleted}
AxisEnd == Max({said[c].at : c \in Stamped})

(* A fault StripAddsUp must notice: the last stamp has no bucket.          *)
BucketNoEdge(c) == (said[c].at * Buckets) \div Max({AxisEnd, 1})

(* The axis includes its end, so the last stamp is in the last bucket.     *)
Bucket(c) == Min({(said[c].at * Buckets) \div (AxisEnd + 1), Buckets - 1})
Bar(i) == Cardinality({c \in Stamped : Bucket(c) = i})

(* Maximal runs of busy buckets: the regions that can be clicked.          *)
Clusters ==
    {r \in (0 .. Buckets - 1) \X (0 .. Buckets - 1) :
        /\ r[1] <= r[2] /\ \A i \in r[1] .. r[2] : Bar(i) > 0
        /\ r[1] > 0 => Bar(r[1] - 1) = 0
        /\ r[2] < Buckets - 1 => Bar(r[2] + 1) = 0}
CountOf(r) == MapThenSumSet(Bar, r[1] .. r[2])

(* A cluster's button leads to its earliest stamp, ties to the older.      *)
FirstOf(r) ==
    LET inside == {c \in Stamped : Bucket(c) = r[1]}
    IN  CHOOSE c \in inside : \A d \in inside :
            said[c].at < said[d].at \/ (said[c].at = said[d].at /\ c <= d)

(* Comments per minute: none under the floor; over the time that the       *)
(* loaded comments cover, if older ones are not loaded.                    *)
Live == {c \in ids : ~said[c].deleted /\ said[c].age <= Window}
Oldest == Max({said[c].age : c \in ids})
Moving == Cardinality(Live) >= Floor
Span == IF truncated /\ Oldest < Window THEN Max({Oldest, 1}) ELSE Window

Init == said = <<>> /\ truncated = FALSE

(* Pages of comments, the older of two with the smaller id.                *)
Load ==
    /\ said = <<>> /\ truncated' \in BOOLEAN
    /\ \E n \in 1 .. MostSaid :
         said' \in {f \in [1 .. n -> [at : NoStamp .. LastStamp, deleted : BOOLEAN, age : Ages]] :
                      \A c \in 2 .. n : f[c].age <= f[c - 1].age}

Next == Load

Spec == Init /\ [][Next]_textureVars

-----------------------------------------------------------------------------
(* Every variable has its type.                                            *)
TypeOK ==
    /\ truncated \in BOOLEAN /\ Len(said) <= MostSaid
    /\ \A c \in ids : said[c].at \in NoStamp .. LastStamp /\ said[c].age \in Ages

(* The strip loses no anchored comment: each is in one cluster, whose      *)
(* button leads to the earliest of it; and a rate is taken over a time     *)
(* that the loaded comments cover, or over the first minute.               *)
StripAddsUp ==
    Stamped # {} =>
        /\ MapThenSumSet(CountOf, Clusters) = Cardinality(Stamped)
        /\ \A r \in Clusters : \A c \in Stamped :
              Bucket(c) \in r[1] .. r[2] => said[FirstOf(r)].at <= said[c].at
RateIsCovered == ids # {} /\ Moving /\ truncated => Span <= Max({Oldest, 1})
=============================================================================
