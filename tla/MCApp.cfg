\* A scheduled job, a queued job and two requests meet the end of the process.
CONSTANTS
    r1 = r1
    r2 = r2
    cleanup = cleanup
    g1 = g1
    j1 = j1
    mail = mail
    Request = {r1, r2}
    JobId = {j1}
    Names = {cleanup, mail}
    Scheduled = {cleanup}
    Goroutine = {g1}
    NoRecord = NoRecord
    MaxAttempts = 2
    MaxBoots = 1
SPECIFICATION FairAppSpec
CHECK_DEADLOCK FALSE
INVARIANTS
    AppTypeOK
    UsersHaveDatabases
    ClosedOnReturn
PROPERTIES
    StartReturns
