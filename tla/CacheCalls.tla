----------------------------- MODULE CacheCalls -----------------------------
(***************************************************************************)
(* The cache of module TTLCache together with what each Get could have      *)
(* answered, had it been atomic, at every moment since it began.            *)
(***************************************************************************)
EXTENDS TTLCache

VARIABLE answers    \* history: of each call, the answers of its moments

callVars == <<cacheVars, answers>>

Miss == [found |-> FALSE]
Hit(v) == [found |-> TRUE, value |-> v]

\* What an atomic Get would answer now.
Answer == [k \in Key |-> IF k \in Live THEN Hit(entries[k].value) ELSE Miss]

CallsInit == CacheInit /\ answers = [c \in Caller |-> {}]

CallsNext ==
    /\ CacheNext
    /\ answers' = [c \in Caller |->
            IF call'[c] = Idle THEN {}
            ELSE answers[c] \cup {Answer'[call'[c].key]}]

CallsSpec == CallsInit /\ [][CallsNext]_callVars

-----------------------------------------------------------------------------
\* A value that Get returns was the live value of the key at a moment of the
\* call, although its age is judged after the lock is released (cache.go:40-58).
HitWasLive ==
    \A c \in Caller : call[c].at = "hit" => Hit(call[c].entry.value) \in answers[c]
=============================================================================
