\* Two callers of Get, two keys; caches that expire and one that does not.
CONSTANTS
    c1 = c1
    c2 = c2
    k1 = k1
    k2 = k2
    v1 = v1
    v2 = v2
    Caller = {c1, c2}
    Key = {k1}
    Value = {v1, v2}
    TTLs = {0, 1, 2}
    MaxTime = 4
SPECIFICATION CallsSpec
SYMMETRY Symmetry
INVARIANTS
    CacheTypeOK
    HitWasLive
PROPERTIES
    GetSparesFreshEntries
