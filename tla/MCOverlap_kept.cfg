\* Two processes over one database: the second boots while the first works.
CONSTANTS
    JobId = {j1}
    Names = {job}
    Scheduled = {}
    Goroutine = {g1}
    NoRecord = NoRecord
    MaxAttempts = 2
    MaxBoots = 1
SPECIFICATION Spec
CHECK_DEADLOCK FALSE
PROPERTIES
    AcceptedIsKept
