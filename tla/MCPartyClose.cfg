SPECIFICATION FairSpec
CONSTANTS
    api1 = api1
    api2 = api2
    p1 = p1
    p2 = p2
    u1 = u1
    u2 = u2
    s1 = s1
    s2 = s2
    none = none
    NoParty = none
    Presence = FALSE
    Instances <- OneApi
    Rooms <- TwoRooms
    Users <- TwoUsers
    Sessions <- OneSocket
    UserOf <- OneTab
    Subs <- Channels
    InstanceOf <- SameApi
    MaxJoins = 2
    MaxCloses = 1
    WireCap = 1
    BufferCap = 2
    Crashes = FALSE
    Ages = FALSE
    RedisFails = {"touch", "close"}
INVARIANTS
    MembershipCoherent
    NoGhosts
PROPERTIES
    ClosedFrameDrops
CHECK_DEADLOCK FALSE
