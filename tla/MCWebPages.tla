---------------------------- MODULE MCWebPages ----------------------------
(***************************************************************************)
(* The web's pages, checked side by side: those of WebPages, and the ones  *)
(* that show a collection (a show's episodes, a thread's strip and sorts,  *)
(* a party's room and the lobby, the hub, the evening, a profile's library *)
(* and the season's chart).                                                *)
(***************************************************************************)
EXTENDS WebPages

CONSTANTS
    RangeSize, Numbers, Times, Now, MostListed, Buckets, LastStamp, Ages,
    MostSaid, People, Host, Length, Readouts, MaxOut, MaxMoves, Hours, Past,
    Future, MaxStarts, MaxTurns, Shows, Rooms, Podium, MaxEdits, Airings,
    Grace, Night, WeekCap, Gap, MaxLanes, MaxHours, MaxTroubles, Listable,
    YearOf, PerPage, MaxEvents, Lineup, Foreign, MaxPresses, Newest, Heats,
    MaxSorts

E == INSTANCE EpisodeRail WITH
    air <- s1, progress <- s2, rangeId <- s3
X == INSTANCE ThreadTexture WITH
    said <- s1, truncated <- s2
W == INSTANCE PartyRoom WITH
    viewer <- s1, present <- s2, clock <- s3, join <- s4, out <- s5,
    room <- s6, orders <- s7, chat <- s8, composer <- s9, comments <- s10,
    crossed <- s11, moves <- s12
L == INSTANCE PartyLobby WITH
    rooms <- s1, session <- s2, features <- s3, query <- s4, at <- s5,
    start <- s6, end <- s7, hosting <- s8, doubt <- s9, turns <- s10
U == INSTANCE ThreadsHub WITH
    trending <- s1, present <- s2, spoken <- s3, tonight <- s4, entries <- s5,
    list <- s6, session <- s7, view <- s8, late <- s9, edits <- s10
V == INSTANCE Evening WITH
    schedule <- s1, watching <- s2, session <- s3, list <- s4, now <- s5,
    since <- s6, anchor <- s7, looked <- s8, late <- s9, troubles <- s10
Y == INSTANCE Library WITH
    order <- s1, imported <- s2, entry <- s3, filter <- s4, sortBy <- s5,
    promise <- s6, pages <- s7, reads <- s8, failed <- s9, touches <- s10,
    events <- s11
G == INSTANCE Seasonal WITH
    season <- s1, params <- s2, presses <- s3
Q == INSTANCE ThreadSorts WITH
    thread <- s1, oldest <- s2, order <- s3, turns <- s4

HoursAround == -3..3

(* A week's schedule: two shows at one hour, one show twice, an episode    *)
(* that has just aired and one at the hour tonight ends.                   *)
SomeAirings ==
    {[show |-> 1, hour |-> -1], [show |-> 2, hour |-> 1], [show |-> 3, hour |-> 1],
     [show |-> 1, hour |-> 3], [show |-> 2, hour |-> 4]}

(* The years of the library's shows, and a season: two titles of equal     *)
(* scores, two without a score, one without a genre or an airing, one of   *)
(* two genres and no format.                                               *)
Years == [s \in Listable |-> 2000 + (s % 2)]
SomeTitles ==
    {[id |-> 1, format |-> "TV", genres |-> {"drama"}, day |-> "monday",
      hour |-> 9, popularity |-> 5, score |-> 80],
     [id |-> 2, format |-> "MOVIE", genres |-> {}, day |-> "no day",
      hour |-> 0, popularity |-> 5, score |-> -1],
     [id |-> 3, format |-> "none", genres |-> {"drama", "sport"}, day |-> "monday",
      hour |-> 8, popularity |-> 9, score |-> -1],
     [id |-> 4, format |-> "ONA", genres |-> {"sport"}, day |-> "sunday",
      hour |-> 9, popularity |-> 2, score |-> 80]}

ASSUME ViewsAssumption ==
    /\ E!EpisodeAssumption
    /\ X!TextureAssumption
    /\ W!RoomAssumption
    /\ L!LobbyAssumption
    /\ U!HubAssumption
    /\ V!EveningAssumption
    /\ Y!LibraryAssumption
    /\ G!SeasonalAssumption
    /\ Q!SortsAssumption

Init ==
    \/ PagesInit
    \/ page = "rail" /\ E!Init
          /\ s4 = Unused /\ s5 = Unused /\ s6 = Unused /\ s7 = Unused
          /\ s8 = Unused /\ s9 = Unused /\ s10 = Unused /\ s11 = Unused
          /\ s12 = Unused /\ s13 = Unused
    \/ page = "texture" /\ X!Init
          /\ s3 = Unused /\ s4 = Unused /\ s5 = Unused /\ s6 = Unused
          /\ s7 = Unused /\ s8 = Unused /\ s9 = Unused /\ s10 = Unused
          /\ s11 = Unused /\ s12 = Unused /\ s13 = Unused
    \/ page = "party" /\ W!Init
          /\ s13 = Unused
    \/ page = "lobby" /\ L!Init
          /\ s11 = Unused /\ s12 = Unused /\ s13 = Unused
    \/ page = "hub" /\ U!Init
          /\ s11 = Unused /\ s12 = Unused /\ s13 = Unused
    \/ page = "evening" /\ V!Init
          /\ s11 = Unused /\ s12 = Unused /\ s13 = Unused
    \/ page = "library" /\ Y!Init
          /\ s12 = Unused /\ s13 = Unused
    \/ page = "season" /\ G!Init
          /\ s4 = Unused /\ s5 = Unused /\ s6 = Unused /\ s7 = Unused
          /\ s8 = Unused /\ s9 = Unused /\ s10 = Unused /\ s11 = Unused
          /\ s12 = Unused /\ s13 = Unused
    \/ page = "sorts" /\ Q!Init
          /\ s5 = Unused /\ s6 = Unused /\ s7 = Unused /\ s8 = Unused
          /\ s9 = Unused /\ s10 = Unused /\ s11 = Unused /\ s12 = Unused
          /\ s13 = Unused

Next ==
    \/ PagesNext
    \/ page = "rail" /\ E!Next /\ UNCHANGED <<page, s4, s5, s6, s7, s8, s9,
                                              s10, s11, s12, s13>>
    \/ page = "texture" /\ X!Next /\ UNCHANGED <<page, s3, s4, s5, s6, s7, s8,
                                                 s9, s10, s11, s12, s13>>
    \/ page = "party" /\ W!Next /\ UNCHANGED <<page, s13>>
    \/ page = "lobby" /\ L!Next /\ UNCHANGED <<page, s11, s12, s13>>
    \/ page = "hub" /\ U!Next /\ UNCHANGED <<page, s11, s12, s13>>
    \/ page = "evening" /\ V!Next /\ UNCHANGED <<page, s11, s12, s13>>
    \/ page = "library" /\ Y!Next /\ UNCHANGED <<page, s12, s13>>
    \/ page = "season" /\ G!Next /\ UNCHANGED <<page, s4, s5, s6, s7, s8, s9,
                                                s10, s11, s12, s13>>
    \/ page = "sorts" /\ Q!Next /\ UNCHANGED <<page, s5, s6, s7, s8, s9, s10,
                                               s11, s12, s13>>

Spec == Init /\ [][Next]_allVars

-----------------------------------------------------------------------------
(* Every page's variables have their types.                                *)
TypeOK ==
    /\ PagesTypeOK
    /\ page = "rail" => E!TypeOK
    /\ page = "texture" => X!TypeOK
    /\ page = "party" => W!TypeOK
    /\ page = "lobby" => L!TypeOK
    /\ page = "hub" => U!TypeOK
    /\ page = "evening" => V!TypeOK
    /\ page = "library" => Y!TypeOK
    /\ page = "season" => G!TypeOK
    /\ page = "sorts" => Q!TypeOK

(* Views of one collection lose none of it: each episode is within reach   *)
(* of the rail, each stamped comment is in the strip, each room and each   *)
(* show kept on the list is in the hub, each episode of the week is in the *)
(* evening, each show that matches is in a profile's library, each title   *)
(* in the season's chart, each loaded comment in every sort of its thread; *)
(* a party's room shows the room, and the lobby the parties that are open. *)
ViewsAgree ==
    /\ page = "rail" => E!AllWithinReach
    /\ page = "texture" => X!StripAddsUp /\ X!RateIsCovered
    /\ page = "party" => W!RoomShowsRoom
    /\ page = "lobby" => L!LobbyIsHonest
    /\ page = "hub" => U!HubIsHonest
    /\ page = "evening" => V!EveningIsHonest
    /\ page = "library" => Y!LibraryIsHonest
    /\ page = "season" => G!ChartIsWhole
    /\ page = "sorts" => Q!SortsAreWhole
=============================================================================
