------------------------------ MODULE Seasonal ------------------------------
(***************************************************************************)
(* The seasonal chart: a season's titles are loaded once, and the URL says *)
(* how they are sorted and narrowed (lib/seasonal.ts,                      *)
(* app/seasonal/[year]/[season]/seasonal-view.tsx).                        *)
(*                                                                         *)
(* A title is a record [id, format, genres, day, hour, popularity, score]; *)
(* its day is a weekday, or NoDay without a next airing.                   *)
(***************************************************************************)
EXTENDS Integers, Sequences, FiniteSets, SequencesExt

CONSTANTS
    Lineup,     \* titles that may be in the season
    Foreign,    \* values a URL written by hand may have in any parameter
    MaxPresses  \* chips, sorts and "Clear" used (bound)

(* What is assumed of them.                                                *)
SeasonalAssumption == (\A a, b \in Lineup : a.id = b.id => a = b) /\ MaxPresses \in Nat

VARIABLES
    season,     \* the titles loaded
    params,     \* the URL's parameters
    presses

seasonalVars == <<season, params, presses>>

NoDay == "no day"
Weekdays == <<"monday", "tuesday", "wednesday", "thursday", "friday", "saturday", "sunday">>
NoScore == -1
Absent == "absent"
DefaultSort == "popularity"
SortValues == {"popularity", "score", "title", "weekday", "newest"}
GroupIds == {"tv", "movies", "special"}
GenresOf(ts) == UNION {a.genres : a \in ts}
DaysOf(ts) == {a.day : a \in ts} \ {NoDay}

Keys == {"sort", "format", "genre", "day"}
Offered(k) ==   \* the values the page itself writes for a key
    CASE k = "sort" -> SortValues [] k = "format" -> GroupIds
      [] k = "genre" -> GenresOf(Lineup) [] k = "day" -> ToSet(Weekdays)
Bare == [k \in Keys |-> Absent]

-----------------------------------------------------------------------------
(* What the URL means: a value that is not of the page's is none, but any  *)
(* genre is taken as it is.                                                *)

ParseSort == IF params["sort"] \in SortValues THEN params["sort"] ELSE DefaultSort
ParseFormatGroup == IF params["format"] \in GroupIds THEN params["format"] ELSE Absent
ParseWeekday == IF params["day"] \in ToSet(Weekdays) THEN params["day"] ELSE Absent
Filters == [format |-> ParseFormatGroup, genre |-> params["genre"], day |-> ParseWeekday]
NoFilters == [format |-> Absent, genre |-> Absent, day |-> Absent]
IsGroupedView == ParseSort = DefaultSort /\ Filters = NoFilters

(* A fault ViewsAgree must notice: what has no format is in no group.      *)
GroupOfKnown(f) ==
    CASE f \in {"TV", "TV_SHORT"} -> "tv" [] f = "MOVIE" -> "movies"
      [] f = "none" -> Absent [] OTHER -> "special"

FormatGroupOf(f) ==
    CASE f \in {"TV", "TV_SHORT"} -> "tv" [] f = "MOVIE" -> "movies" [] OTHER -> "special"

FilterAnime(ts, f) ==
    {a \in ts : /\ f.format \in {Absent, FormatGroupOf(a.format)}
                /\ f.genre \in {Absent} \cup a.genres
                /\ f.day \in {Absent, a.day}}

(* The sorts, as comparisons of two titles: the title's id stands for its  *)
(* name, and a later weekday than Sunday for no airing.                    *)
Rank(a) == IF a.day = NoDay THEN 8 ELSE CHOOSE i \in 1 .. 7 : Weekdays[i] = a.day
Hour(a) == IF a.day = NoDay THEN 24 * 8 ELSE a.hour
Before(sort, a, b) ==
    CASE sort = "score" ->
            a.score > b.score \/ (a.score = b.score /\ a.popularity > b.popularity)
      [] sort = "title" -> a.id < b.id
      [] sort = "weekday" ->
            \/ Rank(a) < Rank(b)
            \/ Rank(a) = Rank(b) /\ Hour(a) < Hour(b)
            \/ Rank(a) = Rank(b) /\ Hour(a) = Hour(b) /\ a.popularity > b.popularity
      [] sort = "newest" -> a.id > b.id
      [] sort = "popularity" ->
            a.popularity > b.popularity \/ (a.popularity = b.popularity /\ a.id < b.id)

(* The sort is stable over the order the API sent, which is by popularity. *)
Sorted(ts, sort) ==
    SetToSortSeq(ts, LAMBDA a, b : \/ Before(sort, a, b)
                                   \/ ~Before(sort, b, a) /\ Before(DefaultSort, a, b))
Arranged == Sorted(FilterAnime(season, Filters), ParseSort)

CollectGenres == GenresOf(season)
CollectWeekdays == DaysOf(season)

(* The default view: a grid for each format that has a title.              *)
Group(g) == Sorted(FilterAnime(season, [NoFilters EXCEPT !.format = g]), DefaultSort)
GroupedGrid == {g \in GroupIds : Group(g) # <<>>}

-----------------------------------------------------------------------------
(* The URL.                                                                *)

Init ==
    /\ season \in SUBSET Lineup /\ presses = 0
    /\ params \in {Bare} \cup {[Bare EXCEPT ![k] = v] : k \in Keys, v \in Foreign}
                         \cup {[Bare EXCEPT !["sort"] = s, !["genre"] = g] :
                                   s \in SortValues \ {DefaultSort}, g \in GenresOf(Lineup)}

(* A fault ViewsAgree must notice: the default sort is written out.        *)
CommitVerbatim(key, value) == params' = [params EXCEPT ![key] = value]

Commit(key, value) ==
    params' = [params EXCEPT
                 ![key] = IF key = "sort" /\ value = DefaultSort THEN Absent ELSE value]

(* A chip that is pressed already clears its filter.                       *)
Toggle(key, value, active) == Commit(key, IF active THEN Absent ELSE value)

Press ==
    \/ \E s \in SortValues : Commit("sort", s)
    \/ \E g \in GroupIds : Toggle("format", g, Filters.format = g)
    \/ \E w \in CollectWeekdays : Toggle("day", w, Filters.day = w)
    \/ \E g \in CollectGenres : Toggle("genre", g, Filters.genre = g)

AnyActive == ParseSort # DefaultSort \/ Filters # NoFilters
Clear == AnyActive /\ params' = Bare

Next ==
    /\ presses < MaxPresses /\ presses' = presses + 1
    /\ Press \/ Clear
    /\ UNCHANGED season

Spec == Init /\ [][Next]_seasonalVars

-----------------------------------------------------------------------------
(* Every variable has its type.                                            *)
TypeOK ==
    /\ season \subseteq Lineup /\ presses <= MaxPresses
    /\ \A k \in Keys : params[k] \in {Absent} \cup Foreign \cup Offered(k)

(* The groups lose no title and repeat none; a sorted view has the titles  *)
(* its filters ask for, none before one that goes before it; and whatever  *)
(* chips were pressed, the URL has parameters only while "Clear" is        *)
(* offered, unless it came with foreign ones.                              *)
ChartIsWhole ==
    /\ IsGroupedView =>
         /\ \A a \in season : \E g \in GroupedGrid : a \in ToSet(Group(g))
         /\ \A g, h \in GroupedGrid : g = h \/ ToSet(Group(g)) \cap ToSet(Group(h)) = {}
    /\ Len(Arranged) = Cardinality(FilterAnime(season, Filters))
    /\ \A i, j \in DOMAIN Arranged : i < j => ~Before(ParseSort, Arranged[j], Arranged[i])
    /\ (\A k \in Keys : params[k] \notin Foreign) /\ ~AnyActive => params = Bare
=============================================================================
