\* Two tabs of the host, and one member watching: members do not influence each
\* other or the clock.
SPECIFICATION FairSpec
CONSTANTS
    Unknown = Unknown
    NoPosition = NoPosition
    Members = {g1}
    HostTabs = {h1, h2}
    PlayAt = {NoPosition}
    SeekTo = {1, 5}
    Duration = 2
    BusCap = 1
    MaxTime = 2
    MaxOps = 2
    RedisFails = TRUE
INVARIANTS
    TypeOK
    ShownWasReal
PROPERTIES
    ClocksAgree
CHECK_DEADLOCK FALSE
