SPECIFICATION FairSpec
CONSTANTS
    api1 = api1
    api2 = api2
    p1 = p1
    p2 = p2
    u1 = u1
    u2 = u2
    s1 = s1
    s2 = s2
    none = none
    NoParty = none
    Presence = FALSE
    Instances <- TwoApis
    Rooms <- OneRoom
    Users <- TwoUsers
    Sessions <- TwoSockets
    UserOf <- SocketEach
    Subs <- Channels
    InstanceOf <- ApiEach
    MaxJoins = 1
    MaxCloses = 0
    WireCap = 0
    BufferCap = 1
    Crashes = TRUE
    Ages = TRUE
    RedisFails = {"leave"}
INVARIANTS
    TypeOK
PROPERTIES
    PresenceConverges
CHECK_DEADLOCK FALSE
