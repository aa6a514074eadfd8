SPECIFICATION Spec
CONSTANTS
    api1 = api1
    api2 = api2
    p1 = p1
    p2 = p2
    u1 = u1
    u2 = u2
    s1 = s1
    s2 = s2
    none = none
    NoParty = none
    Presence = FALSE
    Instances <- OneApi
    Rooms <- OneRoom
    Users <- TwoUsers
    Sessions <- TwoSockets
    UserOf <- SocketEach
    Subs <- Channels
    InstanceOf <- SameApi
    MaxJoins = 1
    MaxCloses = 0
    WireCap = 4
    BufferCap = 4
    Crashes = FALSE
    Ages = FALSE
    RedisFails = {}
INVARIANTS
    NothingLostWhileJoining
CHECK_DEADLOCK FALSE
