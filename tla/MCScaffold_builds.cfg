\* One call over the intact repository.
CONSTANTS
    i1 = i1
    i2 = i2
    Process = {i1}
    Requested <- MCRequested
    Sources <- Intact
SPECIFICATION Spec
CHECK_DEADLOCK FALSE
INVARIANTS
    GeneratedServerBuilds
