\* Two speakers, a chat of two lines out of three, two visits and one fault.
SPECIFICATION Spec
CONSTANTS
    Speakers = {"me", "you"}
    Me = "me"
    ChatCap = 2
    MaxLines = 3
    MaxVisits = 2
    MaxDrops = 1
    MaxFrames = 3
INVARIANTS TypeOK NoOrphans ChatShowsRoom PillIsTrue
PROPERTIES ComesBack
CHECK_DEADLOCK FALSE
