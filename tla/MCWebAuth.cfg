\* Two tabs, the first with two requests in flight at once, two requests in
\* all and one lost answer or reload.
SPECIFICATION Spec
CONSTANTS
    Tabs = {"a", "b"}
    Busy = {"a"}
    MaxCalls = 2
    MaxLost = 1
INVARIANTS TypeOK EndedStaysEnded
PROPERTIES ReuseIsForeign StatusFollowsToken WaitsEnd
CHECK_DEADLOCK FALSE
