SPECIFICATION Spec
CONSTANTS
    api1 = api1
    t1 = t1
    t2 = t2
    r1 = r1
    r2 = r2
    none = none
    Instances <- MCInstances
    Rooms <- MCRooms
    Subs <- MCSubs
    InstanceOf <- MCInstanceOf
    NoRoom = none
    BufferCap = 2
    Presence = TRUE
    MaxSent = 2
INVARIANTS
    TypeOK
    NoSendOnClosed
    StreamHonest
PROPERTIES
    FeedSpec
    FanOutNeverStalls
CHECK_DEADLOCK FALSE
