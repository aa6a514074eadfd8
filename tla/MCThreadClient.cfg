\* A thread of one comment that may grow to three, one comment to a page and
\* two changes, so that older pages, replies to comments not loaded, two posts
\* published out of order and a change of a comment being fetched all occur.
SPECIFICATION Spec
CONSTANTS
    MaxId = 3
    Posted = 1
    Posters = 2
    PageSize = 1
    MaxChanges = 2
    MaxStream = 1
    MaxFails = 1
    MaxDrops = 1
    OwnKinds = {"created", "deleted", "reaction"}
INVARIANTS TypeOK FreshUnlessGap EveryCommentDrawn
PROPERTIES PollingKeepsUp
CHECK_DEADLOCK FALSE
