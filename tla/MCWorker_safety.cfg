\* Two jobs, two goroutines, a crash or restart: every interleaving.
CONSTANTS
    j1 = j1
    j2 = j2
    g1 = g1
    g2 = g2
    cleanup = cleanup
    JobId = {j1, j2}
    Names = {cleanup}
    Scheduled = {cleanup}
    Goroutine = {g1, g2}
    NoRecord = NoRecord
    MaxAttempts = 2
    MaxBoots = 3
SPECIFICATION Spec
SYMMETRY Symmetry
CHECK_DEADLOCK FALSE
INVARIANTS
    TypeOK
    ClaimOwnership
    OneTable
    NoSilentStranding
    AttemptAccounting
    ClosedIsQuiet
PROPERTIES
    SettledIsFinal
    ImplementsLifecycle
