\* Liveness: two jobs whose rows may be left running by a first process.
CONSTANTS
    j1 = j1
    j2 = j2
    g1 = g1
    g2 = g2
    cleanup = cleanup
    JobId = {j1, j2}
    Names = {cleanup}
    Scheduled = {}
    Goroutine = {g1}
    NoRecord = NoRecord
    MaxAttempts = 2
    MaxBoots = 2
SPECIFICATION FairSpec
CHECK_DEADLOCK FALSE
PROPERTIES
    EveryJobSettles
