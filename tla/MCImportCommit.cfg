SPECIFICATION ImportSpec
CONSTANTS
    j1 = j1
    j2 = j2
    alice = alice
    w1 = w1
    w2 = w2
    q1 = q1
    q2 = q2
    Users <- OneUser
    Owner <- Alices
    Jobs <- TwoJobs
    Workers <- OneWorker
    Requests <- TwoRequests
    MaxRetry = 1
    MaxDeaths = 1
    Crashes = FALSE
    DbErrors = FALSE
INVARIANTS
    FailedApplyReopens
CHECK_DEADLOCK FALSE
