\* One host's two parties and a guest; the window is two sweeps and a member is
\* live for one.
SPECIFICATION LifeFairSpec
CONSTANTS
    Hosts = {h1}
    Creates = {c1, c2}
    Users = {g1}
    PresenceTTL = 1
    IdleAfter = 2
INVARIANTS
    LifeTypeOK
    OneOpenPerHost
PROPERTIES
    RoomsEnd
CHECK_DEADLOCK FALSE
