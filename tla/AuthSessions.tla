---------------------------- MODULE AuthSessions ----------------------------
(***************************************************************************)
(* Sessions of app/services/auth: concurrent requests log in, are           *)
(* authenticated by LoadAuth and log out, over the sessions table and the    *)
(* cache of module TTLCache.  The table and the cache are read and written   *)
(* in separate steps, and the time a request compares with is the time of    *)
(* its arrival.                                                              *)
(* A key of the cache is the hash of a token, a value of the cache is the    *)
(* expiry of the session; the user is determined by the token.               *)
(***************************************************************************)
EXTENDS TTLCache, FiniteSets

CONSTANTS
    SessionTTL,     \* in ticks of the clock
    TicksPerSecond  \* expiries are stored in whole seconds

ASSUME SessionAssumption ==
    SessionTTL \in Nat /\ TicksPerSecond \in Nat \ {0}

VARIABLES
    sessions,       \* table: hash of a token |-> expires_at
    request,        \* of each caller: the handler that runs and where it is
    granted,        \* history: the expiry every session was created with
    withdrawn,      \* history: tokens whose logout has returned
    late            \* history: of those, tokens some request had looked up
                    \* before the logout and had not yet put in the cache

history == <<granted, withdrawn, late>>
vars == <<cacheVars, sessions, request, history>>

Free == [pc |-> "free"]

\* time.Time.Unix
Unix(t) == t \div TicksPerSecond

\* The cache holds the expiry of any session that can be created.
ASSUME ValueAssumption == \A t \in 0 .. MaxTime : Unix(t + SessionTTL) \in Value

Go(r, pc) == request' = [request EXCEPT ![r].pc = pc]
End(r) == request' = [request EXCEPT ![r] = Free]
TokenOf(r) == request[r].token

Init ==
    /\ CacheInit
    /\ sessions = EmptyTable
    /\ request = [r \in Caller |-> Free]
    /\ granted = EmptyTable
    /\ withdrawn = {}
    /\ late = {}

-----------------------------------------------------------------------------
(* Log in *)

\* The credentials are right; the token is 32 random bytes.
Authenticate(r, t) ==
    /\ request[r] = Free
    /\ t \notin DOMAIN granted
    /\ \A q \in Caller : request[q].pc = "create" => TokenOf(q) # t
    /\ request' = [request EXCEPT ![r] = [pc |-> "create", token |-> t, now |-> clock]]
    /\ UNCHANGED <<cacheVars, sessions, history>>

CreateSession(r) ==
    LET expiresAt == Unix(request[r].now + SessionTTL) IN
    /\ request[r].pc = "create"
    /\ sessions' = Insert(sessions, TokenOf(r), expiresAt)
    /\ granted' = Insert(granted, TokenOf(r), expiresAt)
    /\ End(r)
    /\ UNCHANGED <<cacheVars, withdrawn, late>>

-----------------------------------------------------------------------------
(* LoadAuth and UserForToken *)

Load(r, t) ==
    /\ request[r] = Free
    /\ t \in DOMAIN granted
    /\ request' = [request EXCEPT ![r] =
            [pc |-> "get", token |-> t, now |-> clock,
             revoked |-> t \in withdrawn \ late]]
    /\ UNCHANGED <<cacheVars, sessions, history>>

GetCached(r) ==
    /\ request[r].pc = "get"
    /\ Peek(r, TokenOf(r)) \/ Judge(r) \/ Evict(r)
    /\ UNCHANGED <<sessions, request, history>>

\* Mutant: the Get of the cache is not done with.
UseCachedUnfinished(r) ==
    /\ request[r].pc = "get"
    /\ call[r].at \in {"hit", "miss"}
    /\ Go(r, IF call[r].at = "miss" THEN "find" ELSE "served")
    /\ UNCHANGED <<cacheVars, sessions, history>>

\* The answer of the cache: a hit is compared with the session's own expiry.
UseCached(r) ==
    /\ request[r].pc = "get"
    /\ Return(r)
    /\ Go(r, IF call[r].at = "miss" THEN "find"
             ELSE IF call[r].entry.value <= Unix(request[r].now) THEN "drop"
             ELSE "served")
    /\ UNCHANGED <<sessions, history>>

\* Remove takes away whatever is cached by now.
DropExpired(r) ==
    /\ request[r].pc = "drop"
    /\ Remove(TokenOf(r))
    /\ Go(r, "find")
    /\ UNCHANGED <<sessions, history>>

\* Mutant: the session is compared with the time of the query.
FindSessionUserNow(r) ==
    /\ request[r].pc = "find"
    /\ IF TokenOf(r) \in DOMAIN sessions /\ sessions[TokenOf(r)] > Unix(clock)
       THEN request' = [request EXCEPT ![r] =
                [pc |-> "permissions", token |-> @.token, now |-> @.now,
                 revoked |-> @.revoked, expiresAt |-> sessions[@.token]]]
       ELSE Go(r, "rejected")
    /\ UNCHANGED <<cacheVars, sessions, history>>

FindSessionUser(r) ==
    /\ request[r].pc = "find"
    /\ IF TokenOf(r) \in DOMAIN sessions /\ sessions[TokenOf(r)] > Unix(request[r].now)
       THEN request' = [request EXCEPT ![r] =
                [pc |-> "permissions", token |-> @.token, now |-> @.now,
                 revoked |-> @.revoked, expiresAt |-> sessions[@.token]]]
       ELSE Go(r, "rejected")
    /\ UNCHANGED <<cacheVars, sessions, history>>

ListPermissions(r) ==
    /\ request[r].pc = "permissions"
    /\ Go(r, "fill")
    /\ UNCHANGED <<cacheVars, sessions, history>>

\* Mutant: the user is cached as if the session had just begun.
FillExtended(r) ==
    /\ request[r].pc = "fill"
    /\ Set(TokenOf(r), Unix(clock + SessionTTL))
    /\ Go(r, "served")
    /\ UNCHANGED <<sessions, history>>

Fill(r) ==
    /\ request[r].pc = "fill"
    /\ Set(TokenOf(r), request[r].expiresAt)
    /\ Go(r, "served")
    /\ UNCHANGED <<sessions, history>>

\* The handler behind LoadAuth has run with or without a user.
Respond(r) ==
    /\ request[r].pc \in {"served", "rejected", "failed"}
    /\ End(r)
    /\ UNCHANGED <<cacheVars, sessions, history>>

-----------------------------------------------------------------------------
(* Log out *)

Logout(r, t) ==
    /\ request[r] = Free
    /\ t \in DOMAIN granted
    /\ request' = [request EXCEPT ![r] = [pc |-> "delete", token |-> t]]
    /\ UNCHANGED <<cacheVars, sessions, history>>

DeleteSession(r) ==
    /\ request[r].pc = "delete"
    /\ sessions' = Delete(sessions, TokenOf(r))
    /\ Go(r, "uncache")
    /\ UNCHANGED <<cacheVars, history>>

\* A request of t has read the session and not yet written the cache.
LookedUp(t) == \E q \in Caller :
    request[q].pc \in {"permissions", "fill"} /\ TokenOf(q) = t

Withdraw(t) ==
    /\ withdrawn' = withdrawn \cup {t}
    /\ late' = IF LookedUp(t) THEN late \cup {t} ELSE late \ {t}

\* Mutant: the cache keeps the user.
UncacheForgotten(r) ==
    /\ request[r].pc = "uncache"
    /\ Withdraw(TokenOf(r))
    /\ End(r)
    /\ UNCHANGED <<cacheVars, sessions, granted>>

Uncache(r) ==
    /\ request[r].pc = "uncache"
    /\ Remove(TokenOf(r))
    /\ Withdraw(TokenOf(r))
    /\ End(r)
    /\ UNCHANGED <<sessions, granted>>

-----------------------------------------------------------------------------
(* Failures and time *)

\* A statement fails, or the client is gone and its context with it.
DatabaseFails(r) ==
    /\ \/ request[r].pc \in {"create", "delete"} /\ End(r)
       \/ request[r].pc \in {"find", "permissions"} /\ Go(r, "failed")
    /\ UNCHANGED <<cacheVars, sessions, history>>

\* The process is restarted: the cache and the requests are gone.
Restart ==
    /\ entries' = EmptyTable
    /\ call' = [r \in Caller |-> Idle]
    /\ request' = [r \in Caller |-> Free]
    /\ late' = {}
    /\ UNCHANGED <<ttl, clock, sessions, granted, withdrawn>>

Pass == Tick /\ UNCHANGED <<sessions, request, history>>

LogIn(r) == (\E t \in Key : Authenticate(r, t)) \/ CreateSession(r)

LoadAuth(r) ==
    \/ \E t \in Key : Load(r, t)
    \/ GetCached(r) \/ UseCached(r) \/ DropExpired(r)
    \/ FindSessionUser(r) \/ ListPermissions(r) \/ Fill(r) \/ Respond(r)

LogOut(r) == (\E t \in Key : Logout(r, t)) \/ DeleteSession(r) \/ Uncache(r)

Next ==
    \/ \E r \in Caller : LogIn(r) \/ LoadAuth(r) \/ LogOut(r) \/ DatabaseFails(r)
    \/ Restart
    \/ Pass

Spec == Init /\ [][Next]_vars

-----------------------------------------------------------------------------
(* Properties *)


\* A request is in one of the handlers, and a Get runs only inside LoadAuth.
TypeOK ==
    /\ CacheTypeOK
    /\ IsTable(sessions, Key, Nat)
    /\ IsTable(granted, Key, Nat)
    /\ \A r \in Caller : request[r] \in
            {Free} \cup [pc : {"create"}, token : Key, now : Nat]
            \cup [pc : {"get", "drop", "find", "served", "rejected", "failed"},
                  token : Key, now : Nat, revoked : BOOLEAN]
            \cup [pc : {"permissions", "fill", "served", "failed"}, token : Key,
                  now : Nat, revoked : BOOLEAN, expiresAt : Nat]
            \cup [pc : {"delete", "uncache"}, token : Key]
    /\ \A r \in Caller : call[r] # Idle => request[r].pc = "get"
    /\ late \subseteq withdrawn
    /\ withdrawn \subseteq Key

\* A request is served a user only if the session was created and had not
\* expired when the request arrived, whatever the age of the cached copy and
\* whoever replaced it meanwhile (UserForToken).
ServedWhileValid ==
    \A r \in Caller : request[r].pc = "served" =>
        granted[TokenOf(r)] > Unix(request[r].now)

\* A request that arrives after the logout of its session has returned is not
\* served, unless another request had read the session before the logout deleted
\* it and put it in the cache afterwards: the order of DeleteSession and Remove
\* leaves no other way back (Logout).
SignedOutStaysOut ==
    \A r \in Caller : request[r].pc = "served" => ~request[r].revoked

\* A request without a user has no session in the table, or its session had
\* expired when it arrived: an entry of the cache never turns it away.
RejectedForCause ==
    \A r \in Caller : request[r].pc = "rejected" =>
        TokenOf(r) \notin DOMAIN sessions \/ sessions[TokenOf(r)] <= Unix(request[r].now)
=============================================================================
