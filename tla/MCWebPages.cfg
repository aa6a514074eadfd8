SPECIFICATION Spec
CONSTANTS
    Total = 2
    MaxMade = 2
    MaxVisits = 2
    MaxFails = 1
    MaxToggles = 3
    MaxRefusals = 2
    RangeSize = 2
    Numbers = {1, 2, 3, 5, 6}
    Times = {1, 3}
    Now = 2
    MostListed = 4
    Others = 1
    Drafts = 2
    Sends = 2
    Refusals = 1
    Comments = {1, 2}
    Marked = {2}
    Episode = 2
    Buckets = 3
    LastStamp = 3
    Ages = {0, 10, 20}
    MostSaid = 3
    MaxJobs = 2
    MaxLost = 1
    Titles = {1, 2}
    MostRows = 2
    Chunk = 1
    MaxVerbs = 2
    MaxMisses = 1
    PageSize = 1
    MaxMsgs = 2
    MaxDrops = 1
    People = {1, 2, 3}
    Host = 2
    Length = 2
    Readouts = {0, 59, 60, 3599, 3600, 215999, 216000, 359999, 360000}
    MaxOut = 3
    MaxMoves = 3
    PanelLimit = 1
    MaxNotes = 2
    MaxMarks = 1
    MaxLosses = 1
    Hours <- HoursAround
    Past = 2
    Future = 1
    MaxStarts = 1
    MaxTurns = 1
    Shows = {1, 2}
    Rooms = {1, 2, 3}
    Podium = 2
    MaxEdits = 1
    Airings <- SomeAirings
    Grace = 1
    Night = 3
    WeekCap = 2
    Gap = 1
    MaxLanes = 2
    MaxHours = 1
    MaxTroubles = 1
    Catalog = {1, 2}
    MaxTyping = 2
    MaxPicks = 3
    MaxMissed = 2
    Listable = {1, 2}
    YearOf <- Years
    PerPage = 1
    MaxEvents = 2
    Lineup <- SomeTitles
    Foreign = {"junk"}
    MaxPresses = 2
    Voters = 2
    MaxPushes = 3
    MaxBroken = 2
    MaxTexts = 3
    MaxForms = 2
    MaxErrors = 1
    Newest = 4
    Heats = {0, 2}
    MaxSorts = 1
    Emoji = {"heart"}
    Crowd = 1
    MaxTaps = 2
    MaxCrowd = 1
    MaxMishaps = 1
INVARIANTS
    TypeOK
    ListsHonest
    ViewsAgree
    ThreadHonest
    SocialHonest
PROPERTIES
    TapsRaise
CHECK_DEADLOCK FALSE
