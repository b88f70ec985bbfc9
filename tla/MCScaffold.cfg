\* Two calls for one name over an intact repository or one with a marker damaged.
CONSTANTS
    i1 = i1
    i2 = i2
    Process = {i1, i2}
    Requested <- MCRequested
    Sources <- MCSources
SPECIFICATION Spec
SYMMETRY Symmetry
CHECK_DEADLOCK FALSE
INVARIANTS
    ScaffoldTypeOK
    OutcomeIsTold
    StagingRemoved
    RewriteIsExact
PROPERTIES
    TargetIsWhole
