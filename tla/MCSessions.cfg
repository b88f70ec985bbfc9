\* Two concurrent requests of one session that outlives its cached copy or not.
CONSTANTS
    r1 = r1
    r2 = r2
    t1 = t1
    Caller = {r1, r2}
    Key = {t1}
    Value <- MCSeconds
    TTLs = {0, 1, 3}
    MaxTime = 5
    SessionTTL = 3
    TicksPerSecond = 2
SPECIFICATION Spec
SYMMETRY Symmetry
INVARIANTS
    TypeOK
    ServedWhileValid
    SignedOutStaysOut
    RejectedForCause
