SPECIFICATION FairSpec
CONSTANTS
    j1 = j1
    j2 = j2
    alice = alice
    w1 = w1
    w2 = w2
    q1 = q1
    q2 = q2
    Users <- OneUser
    Owner <- Alices
    Jobs <- TwoJobs
    Workers <- TwoWorkers
    Requests <- TwoRequests
    MaxRetry = 2
    MaxDeaths = 2
    Crashes = TRUE
    DbErrors = FALSE
INVARIANTS
    ImportTypeOK
    ImportsExclusive
PROPERTIES
    JobsAreProcessed
    ImportOutcomes
CHECK_DEADLOCK FALSE
