----------------------------- MODULE AuthProofs -----------------------------
(***************************************************************************)
(* Proofs about the cache, for any keys, values, callers and durations, and *)
(* about the sessions over it, for any tokens, concurrent requests, and     *)
(* lifetimes of sessions and of cached users.                              *)
(***************************************************************************)
EXTENDS AuthSessions, CacheCalls, TLAPS

-----------------------------------------------------------------------------
(* Tables and time *)

LEMMA InsertTyped ==
    ASSUME NEW K, NEW R, NEW table, NEW k \in K, NEW row \in R, IsTable(table, K, R)
    PROVE  IsTable(Insert(table, k, row), K, R)
  BY DEF IsTable, Insert

LEMMA DeleteTyped ==
    ASSUME NEW K, NEW R, NEW table, NEW k, IsTable(table, K, R)
    PROVE  IsTable(Delete(table, k), K, R)
  BY DEF IsTable, Delete

LEMMA EmptyTyped ==
    ASSUME NEW K, NEW R
    PROVE  IsTable(EmptyTable, K, R)
  BY DEF IsTable, EmptyTable

\* Whatever has expired stays so.
LEMMA ExpiryStays ==
    ASSUME CacheTypeOK, CacheNext \/ UNCHANGED cacheVars,
           NEW entry \in CacheEntry, Expired(entry)
    PROVE  Expired(entry)'
  <1>1. ttl' = ttl /\ (clock' = clock \/ clock' = clock + 1)
    <2>1. ASSUME NEW c \in Caller, Get(c) PROVE UNCHANGED <<ttl, clock>>
      BY <2>1 DEF Get, Peek, Judge, Evict, Return
    <2> QED BY <2>1 DEF CacheNext, cacheVars, Set, Remove, Purge, Tick
  <1>2. clock \in Nat
    BY DEF CacheTypeOK
  <1>3. entry.expiresAt \in Nat
    BY DEF CacheEntry
  <1> QED BY <1>1, <1>2, <1>3 DEF Expired

-----------------------------------------------------------------------------
(* Types of the cache *)

Calls == {Idle} \cup [at : {"miss"}, key : Key]
         \cup [at : {"peeked", "expired", "hit"}, key : Key, entry : CacheEntry]

\* What a Get that holds a copy knows of it.
LEMMA HoldsCopy ==
    ASSUME NEW x \in Calls, x.at \in {"peeked", "expired", "hit"}
    PROVE  x \in [at : {"peeked", "expired", "hit"}, key : Key, entry : CacheEntry]
  BY DEF Calls, Idle

LEMMA CacheTypeKept ==
    ASSUME CacheTypeOK, CacheNext \/ UNCHANGED cacheVars
    PROVE  CacheTypeOK'
  <1> USE DEF CacheTypeOK
  <1> call \in [Caller -> Calls]
    BY DEF Calls
  <1>0. CASE UNCHANGED cacheVars
    BY <1>0 DEF cacheVars
  <1>1. ASSUME NEW c \in Caller, NEW k \in Key, Peek(c, k)
        PROVE  CacheTypeOK'
    <2>1. k \in DOMAIN entries => entries[k] \in CacheEntry
      BY DEF IsTable
    <2>2. call'[c] \in Calls
      BY <1>1, <2>1 DEF Peek, Calls
    <2> QED BY <1>1, <2>2 DEF Peek, Calls
  <1>2. ASSUME NEW c \in Caller, Judge(c) PROVE CacheTypeOK'
    <2>1. call[c] \in [at : {"peeked", "expired", "hit"}, key : Key, entry : CacheEntry]
      BY <1>2, HoldsCopy DEF Judge
    <2>2. call'[c] \in [at : {"peeked", "expired", "hit"}, key : Key, entry : CacheEntry]
      BY <1>2, <2>1 DEF Judge
    <2> QED BY <1>2, <2>2 DEF Judge, Calls
  <1>3. ASSUME NEW c \in Caller, Evict(c) PROVE CacheTypeOK'
    <2>1. call[c].key \in Key
      BY <1>3, HoldsCopy DEF Evict
    <2>2. IsTable(entries', Key, CacheEntry)
      BY <1>3, DeleteTyped DEF Evict
    <2> QED BY <1>3, <2>1, <2>2 DEF Evict
  <1>4. ASSUME NEW c \in Caller, Return(c) PROVE CacheTypeOK'
    BY <1>4 DEF Return
  <1>5. ASSUME NEW k \in Key, NEW v \in Value, Set(k, v) PROVE CacheTypeOK'
    <2>1. [value |-> v, expiresAt |-> IF ttl > 0 THEN clock + ttl ELSE 0] \in CacheEntry
      BY DEF CacheEntry
    <2>2. IsTable(entries', Key, CacheEntry)
      BY <1>5, <2>1, InsertTyped DEF Set
    <2> QED BY <1>5, <2>2 DEF Set
  <1>6. ASSUME NEW k \in Key, Remove(k) PROVE CacheTypeOK'
    BY <1>6, DeleteTyped DEF Remove
  <1>7. CASE Purge
    BY <1>7, EmptyTyped DEF Purge
  <1>8. CASE Tick
    BY <1>8 DEF Tick
  <1> QED BY <1>0, <1>1, <1>2, <1>3, <1>4, <1>5, <1>6, <1>7, <1>8 DEF CacheNext, Get

LEMMA CacheTypeStarts == CacheInit => CacheTypeOK
  <1> SUFFICES ASSUME CacheInit PROVE CacheTypeOK
    OBVIOUS
  <1>1. IsTable(entries, Key, CacheEntry)
    BY EmptyTyped DEF CacheInit
  <1>2. ttl \in Nat /\ clock \in Nat
    BY CacheAssumption DEF CacheInit
  <1>3. call \in [Caller -> Calls]
    BY DEF CacheInit, Calls
  <1> QED BY <1>1, <1>2, <1>3 DEF CacheTypeOK, Calls

\* Every entry and every copy of one has a value and an expiry time (cache.go).
THEOREM CacheTyped == CallsSpec => []CacheTypeOK
  <1>1. CallsInit => CacheTypeOK
    BY CacheTypeStarts DEF CallsInit
  <1>2. CacheTypeOK /\ [CallsNext]_callVars => CacheTypeOK'
    BY CacheTypeKept DEF CallsNext, callVars
  <1> QED BY <1>1, <1>2, PTL DEF CallsSpec

-----------------------------------------------------------------------------
(* Eviction *)

\* A Get never takes away an entry that has not expired, also when the entry it
\* saw had (the second check of Cache.Get).
THEOREM FreshEntriesSpared == CallsSpec => GetSparesFreshEntries
  <1>1. [CallsNext]_callVars =>
            [call' # call =>
                \A k \in Live : k \in DOMAIN entries' /\ entries'[k] = entries[k]]_cacheVars
    <2> SUFFICES ASSUME CacheNext, call' # call, NEW k \in Live
                 PROVE  k \in DOMAIN entries' /\ entries'[k] = entries[k]
      BY DEF CallsNext, callVars, cacheVars
    <2>1. PICK c \in Caller : Get(c)
      BY DEF CacheNext, Set, Remove, Purge, Tick
    <2>2. CASE Evict(c)
      BY <2>2 DEF Evict, Live, Delete
    <2> QED BY <2>1, <2>2 DEF Get, Peek, Judge, Return, Live
  <1> QED BY <1>1, PTL DEF CallsSpec, GetSparesFreshEntries

-----------------------------------------------------------------------------
(* Hits *)

\* A copy was live at a moment of the call, or it had expired when it was made
\* and still has.
CopiesJustified ==
    \A c \in Caller :
        /\ call[c].at = "peeked" =>
            Hit(call[c].entry.value) \in answers[c] \/ Expired(call[c].entry)
        /\ call[c].at = "hit" => Hit(call[c].entry.value) \in answers[c]

LEMMA CopiesStayJustified ==
    ASSUME CacheTypeOK, CopiesJustified, [CallsNext]_callVars
    PROVE  CopiesJustified'
  <1> SUFFICES ASSUME NEW c \in Caller
               PROVE  /\ call'[c].at = "peeked" =>
                            Hit(call'[c].entry.value) \in answers'[c]
                            \/ Expired(call[c].entry)'
                      /\ call'[c].at = "hit" =>
                            Hit(call'[c].entry.value) \in answers'[c]
    BY DEF CopiesJustified, Expired
  <1> CacheNext \/ UNCHANGED cacheVars
    BY DEF CallsNext, callVars
  <1> call \in [Caller -> Calls] /\ Idle.at = "idle"
    BY DEF CacheTypeOK, Calls, Idle
  <1>1. CASE call'[c] = call[c]
    <2>1. call[c].at \in {"peeked", "hit"} => answers[c] \subseteq answers'[c]
      BY <1>1 DEF CallsNext, callVars
    <2>2. call[c].at = "peeked" => call[c].entry \in CacheEntry
      BY HoldsCopy DEF CacheTypeOK, Calls
    <2>3. call[c].at = "peeked" /\ Expired(call[c].entry) => Expired(call[c].entry)'
      BY <1>1, <2>2, ExpiryStays
    <2> QED BY <1>1, <2>1, <2>3 DEF CopiesJustified
  <1>2. CASE call'[c] # call[c]
    <2>0. CacheNext /\ answers'[c] = IF call'[c] = Idle THEN {}
                                     ELSE answers[c] \cup {Answer'[call'[c].key]}
      BY <1>2 DEF CallsNext, callVars, cacheVars
    <2>1. Get(c)
      BY <1>2, <2>0 DEF CacheNext, Get, Peek, Judge, Evict, Return, Set, Remove, Purge, Tick
    <2>2. ASSUME NEW k \in Key, Peek(c, k), call'[c].at = "peeked"
          PROVE  Hit(call'[c].entry.value) \in answers'[c] \/ Expired(call[c].entry)'
      <3>1. call'[c] = [at |-> "peeked", key |-> k, entry |-> entries[k]]
        BY <2>2 DEF Peek
      <3>2. entries' = entries /\ k \in DOMAIN entries
        BY <2>2 DEF Peek
      <3>3. Answer'[k] = IF k \in Live' THEN Hit(entries'[k].value) ELSE Miss
        BY DEF Answer
      <3>4. k \in Live' \/ Expired(entries[k])'
        BY <3>2 DEF Live, Expired
      <3> QED BY <2>0, <3>1, <3>2, <3>3, <3>4 DEF Idle, Expired
    <2>3. CASE Judge(c)
      <3>1. call[c] \in [at : {"peeked", "expired", "hit"}, key : Key, entry : CacheEntry]
        BY <2>3, HoldsCopy DEF Judge
      <3>2. /\ call'[c].entry = call[c].entry
            /\ call'[c].at = IF Expired(call[c].entry) THEN "expired" ELSE "hit"
        BY <2>3, <3>1 DEF Judge
      <3>3. call'[c].at = "hit" => answers[c] \subseteq answers'[c]
        BY <2>0
      <3> QED BY <2>3, <3>2, <3>3 DEF Judge, CopiesJustified
    <2>4. CASE Evict(c) \/ Return(c)
      BY <2>4 DEF Evict, Return
    <2>5. ASSUME NEW k \in Key, Peek(c, k)
          PROVE  call'[c].at # "hit"
      BY <2>5 DEF Peek
    <2> QED BY <2>1, <2>2, <2>3, <2>4, <2>5 DEF Get
  <1> QED BY <1>1, <1>2

\* A value that Get returns was the live value of its key at a moment of the
\* call, although the entry is judged after the lock is released (Cache.Get).
THEOREM HitsWereLive == CallsSpec => []HitWasLive
  <1>1. CallsInit => CopiesJustified
    BY DEF CallsInit, CacheInit, CopiesJustified, Idle
  <1>2. CopiesJustified => HitWasLive
    BY DEF CopiesJustified, HitWasLive
  <1> QED BY <1>1, <1>2, CacheTyped, CopiesStayJustified, PTL DEF CallsSpec

-----------------------------------------------------------------------------
(* Shapes *)

Beginning == [pc : {"create"}, token : Key, now : Nat]
Loading == [pc : {"get", "drop", "find", "served", "rejected", "failed"},
            token : Key, now : Nat, revoked : BOOLEAN]
Found == [pc : {"permissions", "fill", "served", "failed"},
          token : Key, now : Nat, revoked : BOOLEAN, expiresAt : Nat]
Leaving == [pc : {"delete", "uncache"}, token : Key]

Requests == {Free} \cup Beginning \cup Loading \cup Found \cup Leaving

\* The expiry of a session and that of the copy.
Cached == [value : Nat, expiresAt : Nat]

Missing == [at : {"miss"}, key : Key]
Holding == [at : {"peeked", "expired", "hit"}, key : Key, entry : Cached]

Shapes ==
    /\ ttl \in Nat /\ clock \in Nat
    /\ IsTable(entries, Key, Cached)
    /\ IsTable(sessions, Key, Nat)
    /\ IsTable(granted, Key, Nat)
    /\ request \in [Caller -> Requests]
    /\ call \in [Caller -> {Idle} \cup Missing \cup Holding]

LEMMA UnixTyped ==
    ASSUME NEW t \in Nat
    PROVE  Unix(t) \in Nat
  BY SessionAssumption DEF Unix

\* What a request is that has come to a step.
LEMMA RequestShape ==
    ASSUME NEW x \in Requests
    PROVE  /\ x.pc \in {"get", "drop", "find", "rejected"} => x \in Loading
           /\ x.pc \in {"served", "failed"} => x \in Loading \cup Found
           /\ x.pc \in {"permissions", "fill"} => x \in Found
           /\ x.pc \in {"delete", "uncache"} => x \in Leaving
           /\ x.pc = "create" => x \in Beginning
           /\ x.pc # "free" => x.token \in Key
  BY DEF Requests, Free, Beginning, Loading, Found, Leaving

\* What a Get is that has come to a step.
LEMMA CallShape ==
    ASSUME NEW x \in {Idle} \cup Missing \cup Holding
    PROVE  /\ x.at \in {"peeked", "expired", "hit"} => x \in Holding
           /\ x.at = "miss" => x \in Missing
           /\ x # Idle => x.key \in Key
           /\ x.at = "idle" <=> x = Idle
  BY DEF Idle, Missing, Holding

-----------------------------------------------------------------------------
(* Steps that stay within the handler of one request *)

\* Only the request of r and its Get change.
OnlyCaller(r) ==
    /\ \A q \in Caller \ {r} : request'[q] = request[q] /\ call'[q] = call[q]
    /\ request' \in [Caller -> Requests]
    /\ call' \in [Caller -> {Idle} \cup Missing \cup Holding]

LEMMA AuthenticateShapes ==
    ASSUME Shapes, NEW r \in Caller, NEW t \in Key, Authenticate(r, t)
    PROVE  /\ Shapes' /\ OnlyCaller(r)
           /\ UNCHANGED <<cacheVars, sessions, history>>
           /\ request'[r].pc = "create" /\ request'[r].token = t
  <1>1. request'[r] = [pc |-> "create", token |-> t, now |-> clock]
    BY DEF Authenticate, Shapes
  <1>2. /\ request'[r] \in Beginning
        /\ request'[r].pc = "create" /\ request'[r].token = t
    BY <1>1 DEF Shapes, Beginning
  <1> QED BY <1>2 DEF Authenticate, Shapes, OnlyCaller, Requests, cacheVars, history

LEMMA CreateShapes ==
    ASSUME Shapes, NEW r \in Caller, CreateSession(r)
    PROVE  /\ Shapes' /\ OnlyCaller(r)
           /\ request[r] \in Beginning /\ request'[r].pc = "free"
  <1>1. request[r] \in Beginning
    BY RequestShape DEF CreateSession, Shapes
  <1>2. Unix(request[r].now + SessionTTL) \in Nat /\ TokenOf(r) \in Key
    BY <1>1, UnixTyped, SessionAssumption DEF Beginning, TokenOf
  <1>3. IsTable(sessions', Key, Nat) /\ IsTable(granted', Key, Nat)
    BY <1>2, InsertTyped DEF CreateSession, Shapes
  <1>4. request'[r] = Free /\ Free.pc = "free"
    BY DEF CreateSession, End, Shapes, Free
  <1> QED BY <1>1, <1>3, <1>4 DEF CreateSession, End, Shapes, OnlyCaller, Requests, cacheVars

LEMMA LoadShapes ==
    ASSUME Shapes, NEW r \in Caller, NEW t \in Key, Load(r, t)
    PROVE  /\ Shapes' /\ OnlyCaller(r)
           /\ UNCHANGED <<cacheVars, sessions, history>>
           /\ request'[r].pc = "get" /\ request'[r].token = t
           /\ request'[r].revoked => t \in withdrawn \ late
  <1>1. PICK gone \in BOOLEAN : gone <=> t \in withdrawn \ late
    OBVIOUS
  <1>2. request'[r] = [pc |-> "get", token |-> t, now |-> clock, revoked |-> gone]
    BY <1>1 DEF Load, Shapes
  <1>3. /\ request'[r] \in Loading
        /\ request'[r].pc = "get" /\ request'[r].token = t
        /\ request'[r].revoked = gone
    BY <1>2 DEF Shapes, Loading
  <1> QED BY <1>1, <1>3 DEF Load, Shapes, OnlyCaller, Requests, cacheVars, history

LEMMA PeekShapes ==
    ASSUME Shapes, NEW r \in Caller, request[r].pc = "get", Peek(r, TokenOf(r)),
           UNCHANGED <<sessions, request, history>>
    PROVE  /\ Shapes' /\ OnlyCaller(r)
           /\ call'[r].key = TokenOf(r) /\ call'[r] # Idle
           /\ call'[r].at \in {"peeked", "miss"}
           /\ call'[r].at = "peeked" =>
                TokenOf(r) \in DOMAIN entries /\ call'[r].entry = entries[TokenOf(r)]
  <1>1. TokenOf(r) \in Key
    BY RequestShape DEF Shapes, TokenOf
  <1>2. ASSUME TokenOf(r) \in DOMAIN entries
        PROVE  /\ call'[r] = [at |-> "peeked", key |-> TokenOf(r), entry |-> entries[TokenOf(r)]]
               /\ call'[r] \in Holding
    <2>1. entries[TokenOf(r)] \in Cached
      BY <1>2 DEF Shapes, IsTable
    <2> QED BY <1>1, <1>2, <2>1 DEF Peek, Shapes, Holding
  <1>3. ASSUME TokenOf(r) \notin DOMAIN entries
        PROVE  /\ call'[r] = [at |-> "miss", key |-> TokenOf(r)]
               /\ call'[r] \in Missing
    BY <1>1, <1>3 DEF Peek, Shapes, Missing
  <1>4. call'[r] \in Missing \cup Holding
    BY <1>2, <1>3
  <1>5. Shapes' /\ OnlyCaller(r)
    BY <1>4 DEF Peek, Shapes, OnlyCaller, history
  <1> QED BY <1>2, <1>3, <1>5 DEF Idle, Missing, Holding

LEMMA JudgeShapes ==
    ASSUME Shapes, NEW r \in Caller, Judge(r), UNCHANGED <<sessions, request, history>>
    PROVE  /\ Shapes' /\ OnlyCaller(r)
           /\ call[r] # Idle /\ call'[r].key = call[r].key
           /\ call'[r].entry = call[r].entry
           /\ call[r] \in Holding /\ call'[r] \in Holding
  <1>1. call[r] \in Holding
    BY CallShape DEF Judge, Shapes
  <1>2. /\ call'[r] \in Holding /\ call'[r].key = call[r].key
        /\ call'[r].entry = call[r].entry
    BY <1>1 DEF Judge, Shapes, Holding
  <1> QED BY <1>1, <1>2 DEF Judge, Shapes, OnlyCaller, history, Idle, Holding

LEMMA EvictShapes ==
    ASSUME Shapes, NEW r \in Caller, Evict(r), UNCHANGED <<sessions, request, history>>
    PROVE  /\ Shapes' /\ OnlyCaller(r)
           /\ call[r] # Idle /\ call'[r].key = call[r].key /\ call'[r] # Idle
           /\ call'[r].at = "miss"
           /\ DOMAIN entries' \subseteq DOMAIN entries
           /\ \A t \in DOMAIN entries' : entries'[t] = entries[t]
  <1>1. call[r] \in Holding
    BY CallShape DEF Evict, Shapes
  <1>2. /\ call'[r] = [at |-> "miss", key |-> call[r].key]
        /\ call'[r] \in Missing
    BY <1>1 DEF Evict, Shapes, Holding, Missing
  <1>3. IsTable(entries', Key, Cached)
    BY DeleteTyped DEF Evict, Shapes
  <1>4. /\ DOMAIN entries' \subseteq DOMAIN entries
        /\ \A t \in DOMAIN entries' : entries'[t] = entries[t]
    BY DEF Evict, Delete
  <1> QED BY <1>1, <1>2, <1>3, <1>4
          DEF Evict, Shapes, OnlyCaller, history, Idle, Holding

\* The request moves on with what it knows.
LEMMA GoTyped ==
    ASSUME Shapes, NEW r \in Caller, NEW pc, Go(r, pc),
           \/ /\ request[r] \in Loading
              /\ pc \in {"get", "drop", "find", "served", "rejected", "failed"}
           \/ /\ request[r] \in Found
              /\ pc \in {"permissions", "fill", "served", "failed"}
           \/ request[r] \in Leaving /\ pc \in {"delete", "uncache"}
    PROVE  /\ request'[r].pc = pc
           /\ request'[r].token = request[r].token
           /\ request[r] \in Loading \cup Found =>
                request'[r].now = request[r].now /\ request'[r].revoked = request[r].revoked
           /\ request[r] \in Found => request'[r].expiresAt = request[r].expiresAt
           /\ request' \in [Caller -> Requests]
           /\ \A q \in Caller \ {r} : request'[q] = request[q]
  <1>1. CASE request[r] \in Loading
            /\ pc \in {"get", "drop", "find", "served", "rejected", "failed"}
    <2>1. /\ request'[r] \in Loading /\ request'[r].pc = pc
          /\ request'[r].token = request[r].token
          /\ request'[r].now = request[r].now /\ request'[r].revoked = request[r].revoked
      BY <1>1 DEF Go, Shapes, Loading
    <2>2. request[r] \notin Found
      BY <1>1 DEF Loading, Found
    <2> QED BY <2>1, <2>2 DEF Go, Shapes, Requests
  <1>2. CASE request[r] \in Found /\ pc \in {"permissions", "fill", "served", "failed"}
    <2>1. /\ request'[r] \in Found /\ request'[r].pc = pc
          /\ request'[r].token = request[r].token
          /\ request'[r].now = request[r].now /\ request'[r].revoked = request[r].revoked
          /\ request'[r].expiresAt = request[r].expiresAt
      BY <1>2 DEF Go, Shapes, Found
    <2> QED BY <2>1 DEF Go, Shapes, Requests
  <1>3. CASE request[r] \in Leaving /\ pc \in {"delete", "uncache"}
    <2>1. /\ request'[r] \in Leaving /\ request'[r].pc = pc
          /\ request'[r].token = request[r].token
      BY <1>3 DEF Go, Shapes, Leaving
    <2>2. request[r] \notin Loading \cup Found
      BY <1>3 DEF Loading, Found, Leaving
    <2> QED BY <2>1, <2>2 DEF Go, Shapes, Requests
  <1> QED BY <1>1, <1>2, <1>3

\* The request keeps its token, its time and what is known of the logout.
SameRequest(r) ==
    /\ request'[r].token = request[r].token
    /\ request'[r].now = request[r].now
    /\ request'[r].revoked = request[r].revoked

LEMMA UseShapes ==
    ASSUME Shapes, NEW r \in Caller, UseCached(r)
    PROVE  /\ Shapes' /\ OnlyCaller(r) /\ SameRequest(r)
           /\ UNCHANGED <<ttl, clock, entries, sessions, history>>
           /\ call'[r] = Idle
           /\ call[r].at = "miss" => request'[r].pc = "find"
           /\ call[r].at # "miss" =>
                /\ call[r] \in Holding
                /\ request'[r].pc = IF call[r].entry.value <= Unix(request[r].now)
                                    THEN "drop" ELSE "served"
  <1>1. request[r] \in Loading
    BY RequestShape DEF UseCached, Shapes
  <1> DEFINE pc == IF call[r].at = "miss" THEN "find"
                   ELSE IF call[r].entry.value <= Unix(request[r].now) THEN "drop"
                   ELSE "served"
  <1>2. Go(r, pc) /\ pc \in {"find", "drop", "served"}
    BY DEF UseCached
  <1>3. /\ call[r].at = "miss" => pc = "find"
        /\ call[r].at # "miss" =>
              pc = IF call[r].entry.value <= Unix(request[r].now) THEN "drop" ELSE "served"
    OBVIOUS
  <1> HIDE DEF pc
  <1>4. /\ request'[r].pc = pc /\ SameRequest(r) /\ request' \in [Caller -> Requests]
        /\ \A q \in Caller \ {r} : request'[q] = request[q]
    BY <1>1, <1>2, GoTyped DEF SameRequest
  <1>5. call[r].at # "miss" => call[r] \in Holding
    BY CallShape DEF UseCached, Return, Shapes
  <1>6. /\ call' \in [Caller -> {Idle} \cup Missing \cup Holding] /\ call'[r] = Idle
        /\ \A q \in Caller \ {r} : call'[q] = call[q]
        /\ UNCHANGED <<ttl, clock, entries, sessions, history>>
    BY DEF UseCached, Return, Shapes
  <1>7. Shapes' /\ OnlyCaller(r)
    BY <1>4, <1>6 DEF Shapes, OnlyCaller, history
  <1> QED BY <1>3, <1>4, <1>5, <1>6, <1>7

LEMMA DropShapes ==
    ASSUME Shapes, NEW r \in Caller, DropExpired(r)
    PROVE  /\ Shapes' /\ OnlyCaller(r) /\ SameRequest(r) /\ call' = call
           /\ request'[r].pc = "find"
           /\ UNCHANGED <<sessions, history>>
           /\ DOMAIN entries' \subseteq DOMAIN entries
           /\ \A t \in DOMAIN entries' : entries'[t] = entries[t]
  <1>1. request[r] \in Loading /\ Go(r, "find")
    BY RequestShape DEF DropExpired, Shapes
  <1>2. /\ request'[r].pc = "find" /\ SameRequest(r) /\ request' \in [Caller -> Requests]
        /\ \A q \in Caller \ {r} : request'[q] = request[q]
    BY <1>1, GoTyped DEF SameRequest
  <1>3. IsTable(entries', Key, Cached)
    BY DeleteTyped DEF DropExpired, Remove, Shapes
  <1>4. /\ DOMAIN entries' \subseteq DOMAIN entries
        /\ \A t \in DOMAIN entries' : entries'[t] = entries[t]
        /\ UNCHANGED <<ttl, clock, call, sessions, history>>
    BY DEF DropExpired, Remove, Delete
  <1> QED BY <1>2, <1>3, <1>4 DEF Shapes, OnlyCaller, history

LEMMA FindShapes ==
    ASSUME Shapes, NEW r \in Caller, FindSessionUser(r)
    PROVE  /\ Shapes' /\ OnlyCaller(r) /\ SameRequest(r)
           /\ UNCHANGED <<cacheVars, sessions, history>>
           /\ \/ /\ request'[r].pc = "permissions"
                 /\ TokenOf(r) \in DOMAIN sessions
                 /\ sessions[TokenOf(r)] > Unix(request[r].now)
                 /\ request'[r].expiresAt = sessions[TokenOf(r)]
              \/ /\ request'[r].pc = "rejected"
                 /\ ~(TokenOf(r) \in DOMAIN sessions
                      /\ sessions[TokenOf(r)] > Unix(request[r].now))
  <1>1. request[r] \in Loading
    BY RequestShape DEF FindSessionUser, Shapes
  <1> DEFINE valid == TokenOf(r) \in DOMAIN sessions
                      /\ sessions[TokenOf(r)] > Unix(request[r].now)
  <1>2. CASE valid
    <2>1. request'[r] = [pc |-> "permissions", token |-> request[r].token,
                         now |-> request[r].now, revoked |-> request[r].revoked,
                         expiresAt |-> sessions[request[r].token]]
      BY <1>2 DEF FindSessionUser, Shapes
    <2>2. sessions[request[r].token] \in Nat
      BY <1>2 DEF Shapes, IsTable, TokenOf
    <2>3. request'[r] \in Found
      BY <1>1, <2>1, <2>2 DEF Loading, Found
    <2> QED BY <1>2, <2>1, <2>3 DEF FindSessionUser, Shapes, OnlyCaller, SameRequest,
                Requests, cacheVars, history, TokenOf
  <1>3. CASE ~valid
    <2>1. Go(r, "rejected")
      BY <1>3 DEF FindSessionUser
    <2>2. /\ request'[r].pc = "rejected" /\ SameRequest(r) /\ request' \in [Caller -> Requests]
          /\ \A q \in Caller \ {r} : request'[q] = request[q]
      BY <1>1, <2>1, GoTyped DEF SameRequest
    <2> QED BY <1>3, <2>2 DEF FindSessionUser, Shapes, OnlyCaller, cacheVars, history
  <1> QED BY <1>2, <1>3

LEMMA ListShapes ==
    ASSUME Shapes, NEW r \in Caller, ListPermissions(r)
    PROVE  /\ Shapes' /\ OnlyCaller(r) /\ SameRequest(r)
           /\ UNCHANGED <<cacheVars, sessions, history>>
           /\ request'[r].pc = "fill"
           /\ request'[r].expiresAt = request[r].expiresAt
  <1>1. request[r] \in Found /\ Go(r, "fill")
    BY RequestShape DEF ListPermissions, Shapes
  <1>2. /\ request'[r].pc = "fill" /\ SameRequest(r) /\ request' \in [Caller -> Requests]
        /\ request'[r].expiresAt = request[r].expiresAt
        /\ \A q \in Caller \ {r} : request'[q] = request[q]
    BY <1>1, GoTyped DEF SameRequest
  <1> QED BY <1>2 DEF ListPermissions, Shapes, OnlyCaller, cacheVars, history

LEMMA FillShapes ==
    ASSUME Shapes, NEW r \in Caller, Fill(r)
    PROVE  /\ Shapes' /\ OnlyCaller(r) /\ SameRequest(r) /\ call' = call
           /\ UNCHANGED <<sessions, history>>
           /\ request'[r].pc = "served"
           /\ DOMAIN entries' = DOMAIN entries \cup {TokenOf(r)}
           /\ entries'[TokenOf(r)].value = request[r].expiresAt
           /\ \A t \in DOMAIN entries \ {TokenOf(r)} : entries'[t] = entries[t]
  <1>1. request[r] \in Found /\ Go(r, "served")
    BY RequestShape DEF Fill, Shapes
  <1>2. /\ request'[r].pc = "served" /\ SameRequest(r) /\ request' \in [Caller -> Requests]
        /\ \A q \in Caller \ {r} : request'[q] = request[q]
    BY <1>1, GoTyped DEF SameRequest
  <1> DEFINE entry == [value |-> request[r].expiresAt,
                       expiresAt |-> IF ttl > 0 THEN clock + ttl ELSE 0]
  <1>3. entry \in Cached /\ TokenOf(r) \in Key
    BY <1>1 DEF Shapes, Found, Cached, TokenOf
  <1>4. entries' = Insert(entries, TokenOf(r), entry) /\ entry.value = request[r].expiresAt
    BY DEF Fill, Set
  <1> HIDE DEF entry
  <1>5. IsTable(entries', Key, Cached)
    BY <1>3, <1>4, InsertTyped DEF Shapes
  <1>6. /\ DOMAIN entries' = DOMAIN entries \cup {TokenOf(r)}
        /\ entries'[TokenOf(r)].value = request[r].expiresAt
        /\ \A t \in DOMAIN entries \ {TokenOf(r)} : entries'[t] = entries[t]
    BY <1>4 DEF Insert
  <1>7. UNCHANGED <<ttl, clock, call, sessions, history>>
    BY DEF Fill, Set
  <1> QED BY <1>2, <1>5, <1>6, <1>7 DEF Shapes, OnlyCaller, history

LEMMA RespondShapes ==
    ASSUME Shapes, NEW r \in Caller, Respond(r)
    PROVE  /\ Shapes' /\ OnlyCaller(r) /\ request'[r].pc = "free"
           /\ UNCHANGED <<cacheVars, sessions, history>>
  <1>1. request'[r] = Free /\ Free.pc = "free"
    BY DEF Respond, End, Shapes, Free
  <1> QED BY <1>1 DEF Respond, End, Shapes, OnlyCaller, Requests, cacheVars, history

LEMMA LogoutShapes ==
    ASSUME Shapes, NEW r \in Caller, NEW t \in Key, Logout(r, t)
    PROVE  /\ Shapes' /\ OnlyCaller(r)
           /\ UNCHANGED <<cacheVars, sessions, history>>
           /\ request'[r].pc = "delete" /\ request'[r].token = t
  <1>1. /\ request'[r] \in Leaving
        /\ request'[r].pc = "delete" /\ request'[r].token = t
    BY DEF Logout, Shapes, Leaving
  <1> QED BY <1>1 DEF Logout, Shapes, OnlyCaller, Requests, cacheVars, history

LEMMA DeleteShapes ==
    ASSUME Shapes, NEW r \in Caller, DeleteSession(r)
    PROVE  /\ Shapes' /\ OnlyCaller(r)
           /\ UNCHANGED <<cacheVars, history>>
           /\ request'[r].pc = "uncache" /\ request'[r].token = request[r].token
           /\ sessions' = Delete(sessions, TokenOf(r))
  <1>1. request[r] \in Leaving /\ Go(r, "uncache")
    BY RequestShape DEF DeleteSession, Shapes
  <1>2. /\ request'[r].pc = "uncache" /\ request'[r].token = request[r].token
        /\ request' \in [Caller -> Requests]
        /\ \A q \in Caller \ {r} : request'[q] = request[q]
    BY <1>1, GoTyped
  <1>3. IsTable(sessions', Key, Nat)
    BY DeleteTyped DEF DeleteSession, Shapes
  <1> QED BY <1>2, <1>3 DEF DeleteSession, Shapes, OnlyCaller, cacheVars, history

LEMMA UncacheShapes ==
    ASSUME Shapes, NEW r \in Caller, Uncache(r)
    PROVE  /\ Shapes' /\ OnlyCaller(r) /\ request'[r].pc = "free" /\ call' = call
           /\ UNCHANGED <<sessions, granted>>
           /\ entries' = Delete(entries, TokenOf(r))
  <1>1. IsTable(entries', Key, Cached)
    BY DeleteTyped DEF Uncache, Remove, Shapes
  <1>2. request'[r] = Free /\ Free.pc = "free"
    BY DEF Uncache, End, Shapes, Free
  <1> QED BY <1>1, <1>2 DEF Uncache, Remove, End, Shapes, OnlyCaller, Requests

LEMMA FailShapes ==
    ASSUME Shapes, NEW r \in Caller, DatabaseFails(r)
    PROVE  /\ Shapes' /\ OnlyCaller(r)
           /\ UNCHANGED <<cacheVars, sessions, history>>
           /\ request'[r].pc = "free" \/ (request'[r].pc = "failed" /\ SameRequest(r))
  <1>1. CASE request[r].pc \in {"create", "delete"} /\ End(r)
    <2>1. request'[r] = Free /\ Free.pc = "free"
      BY <1>1 DEF End, Shapes, Free
    <2> QED BY <1>1, <2>1 DEF DatabaseFails, End, Shapes, OnlyCaller, Requests, cacheVars,
                history
  <1>2. CASE request[r].pc \in {"find", "permissions"} /\ Go(r, "failed")
    <2>1. request[r] \in Loading \cup Found
      BY <1>2, RequestShape DEF Shapes
    <2>2. /\ request'[r].pc = "failed" /\ SameRequest(r) /\ request' \in [Caller -> Requests]
          /\ \A q \in Caller \ {r} : request'[q] = request[q]
      BY <1>2, <2>1, GoTyped DEF SameRequest
    <2> QED BY <2>2 DEF DatabaseFails, Shapes, OnlyCaller, cacheVars, history
  <1> QED BY <1>1, <1>2 DEF DatabaseFails

LEMMA RestartShapes ==
    ASSUME Shapes, Restart
    PROVE  Shapes'
  BY EmptyTyped DEF Restart, Shapes, Requests

LEMMA PassShapes ==
    ASSUME Shapes, Pass \/ UNCHANGED vars
    PROVE  Shapes'
  BY DEF Pass, Tick, vars, cacheVars, history, Shapes

-----------------------------------------------------------------------------
(* All copies of an expiry agree with the one that was granted *)

TablesAgree ==
    /\ \A t \in DOMAIN sessions : t \in DOMAIN granted /\ sessions[t] = granted[t]
    /\ \A t \in DOMAIN entries : t \in DOMAIN granted /\ entries[t].value = granted[t]

Creating(r) == request[r].pc = "create"

CallerAgrees(r) ==
    /\ call[r] # Idle => request[r].pc = "get" /\ call[r].key = TokenOf(r)
    /\ call[r] \in Holding => call[r].entry.value = granted[TokenOf(r)]
    /\ request[r].pc \notin {"free", "create"} => TokenOf(r) \in DOMAIN granted
    /\ Creating(r) => TokenOf(r) \notin DOMAIN granted
    /\ request[r].pc \in {"permissions", "fill"} =>
            /\ request[r].expiresAt = granted[TokenOf(r)]
            /\ request[r].expiresAt > Unix(request[r].now)
    /\ request[r].pc = "served" => granted[TokenOf(r)] > Unix(request[r].now)

TokensDiffer(r) ==
    \A q \in Caller \ {r} : Creating(r) /\ Creating(q) => TokenOf(q) # TokenOf(r)

Agreement ==
    TablesAgree /\ \A r \in Caller : CallerAgrees(r) /\ TokensDiffer(r)

\* A step of r that grants nothing.
LEMMA CallerStep ==
    ASSUME Agreement, NEW r \in Caller, OnlyCaller(r), granted' = granted,
           TablesAgree', CallerAgrees(r)', TokensDiffer(r)'
    PROVE  Agreement'
  <1> SUFFICES ASSUME NEW q \in Caller, q # r PROVE CallerAgrees(q)' /\ TokensDiffer(q)'
    BY DEF Agreement
  <1>1. request'[q] = request[q] /\ call'[q] = call[q]
    BY DEF OnlyCaller
  <1>2. CallerAgrees(q)'
    BY <1>1 DEF Agreement, CallerAgrees, Creating, TokenOf
  <1>3. ASSUME NEW s \in Caller \ {q}, Creating(q)', Creating(s)'
        PROVE  TokenOf(s)' # TokenOf(q)'
    <2>1. CASE s = r
      BY <1>3, <2>1 DEF TokensDiffer
    <2>2. CASE s # r
      BY <1>1, <1>3, <2>2 DEF OnlyCaller, Agreement, TokensDiffer, Creating, TokenOf
    <2> QED BY <2>1, <2>2
  <1> QED BY <1>2, <1>3 DEF TokensDiffer

\* Of those the steps that do not begin a log in.
LEMMA QuietStep ==
    ASSUME Agreement, NEW r \in Caller, OnlyCaller(r), granted' = granted,
           TablesAgree', CallerAgrees(r)', ~Creating(r)'
    PROVE  Agreement'
  BY CallerStep DEF TokensDiffer

LEMMA TablesKept ==
    ASSUME TablesAgree, UNCHANGED <<entries, sessions, granted>>
    PROVE  TablesAgree'
  BY DEF TablesAgree

LEMMA LogInAgrees ==
    ASSUME Shapes, Agreement, NEW r \in Caller, LogIn(r)
    PROVE  Agreement'
  <1> Idle \notin Holding
    BY DEF Idle, Holding
  <1>1. ASSUME NEW t \in Key, Authenticate(r, t) PROVE Agreement'
    <2>1. /\ OnlyCaller(r) /\ UNCHANGED <<cacheVars, sessions, history>>
          /\ request'[r].pc = "create" /\ request'[r].token = t
      BY <1>1, AuthenticateShapes
    <2>2. request[r].pc = "free" /\ t \notin DOMAIN granted
      BY <1>1 DEF Authenticate, Free
    <2>6. call'[r] = Idle /\ request'[r].pc = "create" /\ TokenOf(r)' = t /\ granted' = granted
      BY <2>1, <2>2 DEF Agreement, CallerAgrees, TokenOf, cacheVars, history
    <2>3. CallerAgrees(r)'
      BY <2>2, <2>6 DEF CallerAgrees, Creating
    <2>4. TokensDiffer(r)'
      BY <1>1, <2>1 DEF TokensDiffer, Authenticate, Creating, TokenOf, OnlyCaller
    <2>5. TablesAgree'
      BY <2>1, TablesKept DEF Agreement, cacheVars, history
    <2> QED BY <2>1, <2>3, <2>4, <2>5, CallerStep DEF history
  <1>2. CASE CreateSession(r)
    <2> DEFINE t == TokenOf(r)
    <2> DEFINE e == Unix(request[r].now + SessionTTL)
    <2>1. OnlyCaller(r) /\ request'[r].pc = "free" /\ Creating(r)
      BY <1>2, CreateShapes DEF Creating, Free, CreateSession
    <2>2. /\ DOMAIN sessions' = DOMAIN sessions \cup {t} /\ sessions'[t] = e
          /\ DOMAIN granted' = DOMAIN granted \cup {t} /\ granted'[t] = e
          /\ \A u \in DOMAIN sessions \ {t} : sessions'[u] = sessions[u]
          /\ \A u \in DOMAIN granted \ {t} : granted'[u] = granted[u]
      BY <1>2 DEF CreateSession, Insert
    <2>3. UNCHANGED cacheVars
      BY <1>2 DEF CreateSession
    <2>4. t \notin DOMAIN granted
      BY <2>1 DEF Agreement, CallerAgrees
    <2> HIDE DEF t, e
    <2>5. TablesAgree'
      BY <2>2, <2>3, <2>4 DEF Agreement, TablesAgree, cacheVars
    <2>6. CallerAgrees(r)'
      <3>1. call'[r] = Idle
        BY <2>1, <2>3 DEF Agreement, CallerAgrees, Creating, cacheVars
      <3> QED BY <2>1, <3>1 DEF CallerAgrees, Creating
    <2>7. ASSUME NEW q \in Caller, q # r PROVE CallerAgrees(q)'
      <3>1. request'[q] = request[q] /\ call'[q] = call[q]
        BY <2>1, <2>7 DEF OnlyCaller
      <3>2. TokenOf(q) \in DOMAIN granted =>
                TokenOf(q) \in DOMAIN granted' /\ granted'[TokenOf(q)] = granted[TokenOf(q)]
        BY <2>2, <2>4
      <3>3. Creating(q) => TokenOf(q) # t
        BY <2>1, <2>7 DEF Agreement, TokensDiffer, t
      <3>4. call[q] \in Holding => call[q] # Idle
        BY DEF Holding, Idle
      <3> QED BY <2>2, <3>1, <3>2, <3>3, <3>4 DEF Agreement, CallerAgrees, Creating, TokenOf
    <2>8. ASSUME NEW q \in Caller PROVE TokensDiffer(q)'
      BY <2>1 DEF Agreement, TokensDiffer, Creating, TokenOf, OnlyCaller
    <2> QED BY <2>5, <2>6, <2>7, <2>8 DEF Agreement
  <1> QED BY <1>1, <1>2 DEF LogIn

LEMMA CachedAgrees ==
    ASSUME Shapes, Agreement, NEW r \in Caller, GetCached(r)
    PROVE  Agreement'
  <1> /\ request[r].pc = "get" /\ UNCHANGED <<sessions, request, history>>
    BY DEF GetCached
  <1>0. TokenOf(r) \in DOMAIN granted /\ ~Creating(r)' /\ granted' = granted
    BY DEF Agreement, CallerAgrees, Creating, history
  <1>1. CASE Peek(r, TokenOf(r))
    <2>1. /\ OnlyCaller(r) /\ call'[r].key = TokenOf(r) /\ call'[r].at \in {"peeked", "miss"}
          /\ call'[r].at = "peeked" =>
                TokenOf(r) \in DOMAIN entries /\ call'[r].entry = entries[TokenOf(r)]
      BY <1>1, PeekShapes
    <2>2. TablesAgree'
      BY <1>1, TablesKept DEF Peek, Agreement, history
    <2>3. call'[r] \in Holding => call'[r].entry.value = granted[TokenOf(r)]
      BY <2>1 DEF Agreement, TablesAgree, Holding
    <2>4. CallerAgrees(r)'
      BY <1>0, <2>1, <2>3 DEF CallerAgrees, Creating, TokenOf
    <2> QED BY <1>0, <2>1, <2>2, <2>4, QuietStep
  <1>2. CASE Judge(r)
    <2>1. /\ OnlyCaller(r) /\ call[r] # Idle /\ call'[r].key = call[r].key
          /\ call'[r].entry = call[r].entry /\ call[r] \in Holding
      BY <1>2, JudgeShapes
    <2>2. TablesAgree'
      BY <1>2, TablesKept DEF Judge, Agreement, history
    <2>3. CallerAgrees(r)'
      BY <1>0, <2>1 DEF Agreement, CallerAgrees, Creating, TokenOf
    <2> QED BY <1>0, <2>1, <2>2, <2>3, QuietStep
  <1>3. CASE Evict(r)
    <2>1. /\ OnlyCaller(r) /\ call[r] # Idle /\ call'[r].key = call[r].key
          /\ call'[r].at = "miss"
          /\ DOMAIN entries' \subseteq DOMAIN entries
          /\ \A t \in DOMAIN entries' : entries'[t] = entries[t]
      BY <1>3, EvictShapes
    <2>2. TablesAgree'
      BY <1>0, <2>1 DEF Agreement, TablesAgree
    <2>3. call'[r] \notin Holding
      BY <2>1 DEF Holding
    <2>4. CallerAgrees(r)'
      BY <1>0, <2>1, <2>3 DEF Agreement, CallerAgrees, Creating, TokenOf
    <2> QED BY <1>0, <2>1, <2>2, <2>4, QuietStep
  <1> QED BY <1>1, <1>2, <1>3 DEF GetCached

LEMMA LoadAuthAgrees ==
    ASSUME Shapes, Agreement, NEW r \in Caller, LoadAuth(r)
    PROVE  Agreement'
  <1> USE DEF TokenOf, Creating
  <1> Idle \notin Holding
    BY DEF Idle, Holding
  <1>1. ASSUME NEW t \in Key, Load(r, t) PROVE Agreement'
    <2>1. /\ OnlyCaller(r) /\ UNCHANGED <<cacheVars, sessions, history>>
          /\ request'[r].pc = "get" /\ request'[r].token = t
      BY <1>1, LoadShapes
    <2>2. request[r].pc = "free" /\ t \in DOMAIN granted
      BY <1>1 DEF Load, Free
    <2>3. call[r] = Idle
      BY <2>2 DEF Agreement, CallerAgrees
    <2>4. CallerAgrees(r)'
      BY <2>1, <2>2, <2>3 DEF CallerAgrees, cacheVars, history
    <2> QED BY <2>1, <2>4, TablesKept, QuietStep DEF Agreement, cacheVars, history
  <1>2. CASE UseCached(r)
    <2>1. /\ OnlyCaller(r) /\ SameRequest(r)
          /\ UNCHANGED <<entries, sessions, history>> /\ call'[r] = Idle
          /\ call[r].at = "miss" => request'[r].pc = "find"
          /\ call[r].at # "miss" =>
                /\ call[r] \in Holding
                /\ request'[r].pc = IF call[r].entry.value <= Unix(request[r].now)
                                    THEN "drop" ELSE "served"
      BY <1>2, UseShapes
    <2>2. request[r] \in Loading /\ request[r].pc = "get"
      BY <1>2, RequestShape DEF UseCached, Shapes
    <2>3. Unix(request[r].now) \in Nat /\ TokenOf(r) \in DOMAIN granted
      BY <2>2, UnixTyped DEF Loading, Agreement, CallerAgrees
    <2>4. granted[TokenOf(r)] \in Nat
      BY <2>3 DEF Shapes, IsTable
    <2>5. request'[r].pc = "served" => granted[TokenOf(r)] > Unix(request[r].now)
      BY <2>1, <2>3, <2>4 DEF Agreement, CallerAgrees
    <2>6. CallerAgrees(r)'
      BY <2>1, <2>3, <2>5 DEF CallerAgrees, SameRequest, history
    <2> QED BY <2>1, <2>6, TablesKept, QuietStep DEF Agreement, history
  <1>3. CASE DropExpired(r)
    <2>1. /\ OnlyCaller(r) /\ SameRequest(r) /\ call' = call
          /\ request'[r].pc = "find" /\ UNCHANGED <<sessions, history>>
          /\ DOMAIN entries' \subseteq DOMAIN entries
          /\ \A t \in DOMAIN entries' : entries'[t] = entries[t]
      BY <1>3, DropShapes
    <2>2. request[r].pc = "drop"
      BY <1>3 DEF DropExpired
    <2>3. CallerAgrees(r)'
      BY <2>1, <2>2 DEF Agreement, CallerAgrees, SameRequest, history
    <2>4. TablesAgree'
      BY <2>1 DEF Agreement, TablesAgree, history
    <2> QED BY <2>1, <2>3, <2>4, QuietStep DEF history
  <1>4. CASE FindSessionUser(r)
    <2>1. /\ OnlyCaller(r) /\ SameRequest(r) /\ UNCHANGED <<cacheVars, sessions, history>>
          /\ \/ /\ request'[r].pc = "permissions"
                /\ TokenOf(r) \in DOMAIN sessions
                /\ sessions[TokenOf(r)] > Unix(request[r].now)
                /\ request'[r].expiresAt = sessions[TokenOf(r)]
             \/ request'[r].pc = "rejected"
      BY <1>4, FindShapes
    <2>2. request[r].pc = "find"
      BY <1>4 DEF FindSessionUser
    <2>3. call[r] = Idle /\ TokenOf(r) \in DOMAIN granted
      BY <2>2 DEF Agreement, CallerAgrees
    <2>4. CallerAgrees(r)'
      BY <2>1, <2>3 DEF Agreement, TablesAgree, CallerAgrees, SameRequest, cacheVars, history
    <2> QED BY <2>1, <2>4, TablesKept, QuietStep DEF Agreement, cacheVars, history
  <1>5. CASE ListPermissions(r)
    <2>1. /\ OnlyCaller(r) /\ SameRequest(r) /\ UNCHANGED <<cacheVars, sessions, history>>
          /\ request'[r].pc = "fill" /\ request'[r].expiresAt = request[r].expiresAt
      BY <1>5, ListShapes
    <2>2. request[r].pc = "permissions"
      BY <1>5 DEF ListPermissions
    <2>3. CallerAgrees(r)'
      BY <2>1, <2>2 DEF Agreement, CallerAgrees, SameRequest, cacheVars, history
    <2> QED BY <2>1, <2>3, TablesKept, QuietStep DEF Agreement, cacheVars, history
  <1>6. CASE Fill(r)
    <2>1. /\ OnlyCaller(r) /\ SameRequest(r) /\ call' = call
          /\ UNCHANGED <<sessions, history>> /\ request'[r].pc = "served"
          /\ DOMAIN entries' = DOMAIN entries \cup {TokenOf(r)}
          /\ entries'[TokenOf(r)].value = request[r].expiresAt
          /\ \A t \in DOMAIN entries \ {TokenOf(r)} : entries'[t] = entries[t]
      BY <1>6, FillShapes
    <2>2. request[r].pc = "fill"
      BY <1>6 DEF Fill
    <2>3. /\ TokenOf(r) \in DOMAIN granted /\ call[r] = Idle
          /\ request[r].expiresAt = granted[TokenOf(r)]
          /\ request[r].expiresAt > Unix(request[r].now)
      BY <2>2 DEF Agreement, CallerAgrees
    <2>4. TablesAgree'
      BY <2>1, <2>3 DEF Agreement, TablesAgree, history
    <2>5. CallerAgrees(r)'
      BY <2>1, <2>3 DEF CallerAgrees, SameRequest, history
    <2> QED BY <2>1, <2>4, <2>5, QuietStep DEF history
  <1>7. CASE Respond(r)
    <2>1. /\ OnlyCaller(r) /\ request'[r].pc = "free"
          /\ UNCHANGED <<cacheVars, sessions, history>>
      BY <1>7, RespondShapes DEF Free
    <2>2. call[r] = Idle
      BY <1>7 DEF Respond, Agreement, CallerAgrees
    <2>3. CallerAgrees(r)'
      BY <2>1, <2>2 DEF CallerAgrees, cacheVars
    <2> QED BY <2>1, <2>3, TablesKept, QuietStep DEF Agreement, cacheVars, history
  <1> QED BY <1>1, <1>2, <1>3, <1>4, <1>5, <1>6, <1>7, CachedAgrees DEF LoadAuth

LEMMA LogOutAgrees ==
    ASSUME Shapes, Agreement, NEW r \in Caller, LogOut(r)
    PROVE  Agreement'
  <1> USE DEF TokenOf, Creating
  <1> Idle \notin Holding
    BY DEF Idle, Holding
  <1>1. ASSUME NEW t \in Key, Logout(r, t) PROVE Agreement'
    <2>1. /\ OnlyCaller(r) /\ UNCHANGED <<cacheVars, sessions, history>>
          /\ request'[r].pc = "delete" /\ request'[r].token = t
      BY <1>1, LogoutShapes
    <2>2. request[r].pc = "free" /\ t \in DOMAIN granted
      BY <1>1 DEF Logout, Free
    <2>3. CallerAgrees(r)'
      BY <2>1, <2>2 DEF Agreement, CallerAgrees, cacheVars, history
    <2> QED BY <2>1, <2>3, TablesKept, QuietStep DEF Agreement, cacheVars, history
  <1>2. CASE DeleteSession(r)
    <2>1. /\ OnlyCaller(r) /\ UNCHANGED <<cacheVars, history>>
          /\ request'[r].pc = "uncache" /\ request'[r].token = request[r].token
          /\ sessions' = Delete(sessions, TokenOf(r))
      BY <1>2, DeleteShapes
    <2>2. request[r].pc = "delete"
      BY <1>2 DEF DeleteSession
    <2>3. CallerAgrees(r)'
      BY <2>1, <2>2 DEF Agreement, CallerAgrees, cacheVars, history
    <2>4. TablesAgree'
      BY <2>1 DEF Agreement, TablesAgree, Delete, cacheVars, history
    <2> QED BY <2>1, <2>3, <2>4, QuietStep DEF history
  <1>3. CASE Uncache(r)
    <2>1. /\ OnlyCaller(r) /\ request'[r].pc = "free" /\ call' = call
          /\ UNCHANGED <<sessions, granted>>
          /\ entries' = Delete(entries, TokenOf(r))
      BY <1>3, UncacheShapes DEF Free
    <2>2. call[r] = Idle
      BY <1>3 DEF Uncache, Agreement, CallerAgrees
    <2>3. CallerAgrees(r)'
      BY <2>1, <2>2 DEF CallerAgrees
    <2>4. TablesAgree'
      BY <2>1 DEF Agreement, TablesAgree, Delete
    <2> QED BY <2>1, <2>3, <2>4, QuietStep
  <1> QED BY <1>1, <1>2, <1>3 DEF LogOut

LEMMA FailureAgrees ==
    ASSUME Shapes, Agreement, NEW r \in Caller, DatabaseFails(r)
    PROVE  Agreement'
  <1> USE DEF TokenOf, Creating
  <1> Idle \notin Holding
    BY DEF Idle, Holding
  <1>1. /\ OnlyCaller(r) /\ UNCHANGED <<cacheVars, sessions, history>>
        /\ request'[r].pc = "free" \/ (request'[r].pc = "failed" /\ SameRequest(r))
    BY FailShapes DEF Free
  <1>2. call[r] = Idle
    BY DEF DatabaseFails, Agreement, CallerAgrees
  <1>3. request'[r].pc = "failed" => request[r].pc \notin {"free", "create"}
    BY RequestShape DEF DatabaseFails, End, Free, Shapes
  <1>4. CallerAgrees(r)'
    BY <1>1, <1>2, <1>3 DEF Agreement, CallerAgrees, SameRequest, cacheVars, history
  <1> QED BY <1>1, <1>4, TablesKept, QuietStep DEF Agreement, cacheVars, history

LEMMA RestartAgrees ==
    ASSUME Agreement, Restart \/ Pass \/ UNCHANGED vars
    PROVE  Agreement'
  <1> Idle \notin Holding
    BY DEF Idle, Holding
  <1>1. CASE Restart
    <2>1. TablesAgree'
      BY <1>1 DEF Restart, Agreement, TablesAgree, EmptyTable
    <2>2. ASSUME NEW r \in Caller PROVE CallerAgrees(r)' /\ TokensDiffer(r)'
      BY <1>1 DEF Restart, CallerAgrees, TokensDiffer, Creating, Free
    <2> QED BY <2>1, <2>2 DEF Agreement
  <1>2. CASE Pass \/ UNCHANGED vars
    <2>1. UNCHANGED <<entries, call, sessions, request, granted>>
      BY <1>2 DEF Pass, Tick, vars, cacheVars, history
    <2> QED BY <2>1 DEF Agreement, TablesAgree, CallerAgrees, TokensDiffer, Creating, TokenOf
  <1> QED BY <1>1, <1>2

LEMMA AgreementHolds == Spec => [](Shapes /\ Agreement)
  <1>1. Init => Shapes /\ Agreement
    <2> SUFFICES ASSUME Init PROVE Shapes /\ Agreement
      OBVIOUS
    <2>1. Shapes
      <3>1. IsTable(entries, Key, Cached) /\ IsTable(sessions, Key, Nat) /\ IsTable(granted, Key, Nat)
        BY EmptyTyped DEF Init, CacheInit
      <3>2. ttl \in Nat /\ clock \in Nat
        BY CacheAssumption DEF Init, CacheInit
      <3>3. /\ request \in [Caller -> Requests]
            /\ call \in [Caller -> {Idle} \cup Missing \cup Holding]
        BY DEF Init, CacheInit, Requests
      <3> QED BY <3>1, <3>2, <3>3 DEF Shapes
    <2>2. Idle \notin Holding
      BY DEF Idle, Holding
    <2>3. ASSUME NEW r \in Caller PROVE CallerAgrees(r) /\ TokensDiffer(r)
      BY <2>2 DEF Init, CacheInit, CallerAgrees, TokensDiffer, Creating, Free
    <2>4. TablesAgree
      BY DEF Init, CacheInit, TablesAgree, EmptyTable
    <2> QED BY <2>1, <2>3, <2>4 DEF Agreement
  <1>2. Shapes /\ Agreement /\ [Next]_vars => (Shapes /\ Agreement)'
    <2> SUFFICES ASSUME Shapes, Agreement, [Next]_vars PROVE Shapes' /\ Agreement'
      OBVIOUS
    <2>1. ASSUME NEW r \in Caller, LogIn(r) PROVE Shapes' /\ Agreement'
      BY <2>1, LogInAgrees, AuthenticateShapes, CreateShapes DEF LogIn
    <2>2. ASSUME NEW r \in Caller, GetCached(r) PROVE Shapes'
      BY <2>2, PeekShapes, JudgeShapes, EvictShapes DEF GetCached
    <2>3. ASSUME NEW r \in Caller, LoadAuth(r) PROVE Shapes' /\ Agreement'
      BY <2>2, <2>3, LoadAuthAgrees, LoadShapes, UseShapes, DropShapes, FindShapes,
         ListShapes, FillShapes, RespondShapes DEF LoadAuth
    <2>4. ASSUME NEW r \in Caller, LogOut(r) PROVE Shapes' /\ Agreement'
      BY <2>4, LogOutAgrees, LogoutShapes, DeleteShapes, UncacheShapes DEF LogOut
    <2>5. ASSUME NEW r \in Caller, DatabaseFails(r) PROVE Shapes' /\ Agreement'
      BY <2>5, FailureAgrees, FailShapes
    <2>6. CASE Restart \/ Pass \/ UNCHANGED vars
      BY <2>6, RestartAgrees, RestartShapes, PassShapes
    <2> QED BY <2>1, <2>3, <2>4, <2>5, <2>6 DEF Next
  <1> QED BY <1>1, <1>2, PTL DEF Spec

\* A request is served only if its session had not expired when it arrived,
\* whatever copy it was served from (UserForToken).
THEOREM Served == Spec => []ServedWhileValid
  <1>1. Shapes /\ Agreement => ServedWhileValid
    BY DEF Agreement, CallerAgrees, ServedWhileValid
  <1> QED BY <1>1, AgreementHolds, PTL

-----------------------------------------------------------------------------
(* What the steps of one request leave of the tables *)

\* What is in the table of sessions stays as it is or goes, except for the
\* session that r creates.
SessionsShrink(r) ==
    \A t \in DOMAIN sessions' :
        \/ t \in DOMAIN sessions /\ sessions'[t] = sessions[t]
        \/ Creating(r) /\ t = TokenOf(r)

Step(r) == LogIn(r) \/ LoadAuth(r) \/ LogOut(r) \/ DatabaseFails(r)

LEMMA StepShapes ==
    ASSUME Shapes, NEW r \in Caller, Step(r)
    PROVE  Shapes' /\ OnlyCaller(r)
  <1>1. CASE LogIn(r)
    BY <1>1, AuthenticateShapes, CreateShapes DEF LogIn
  <1>2. CASE GetCached(r)
    BY <1>2, PeekShapes, JudgeShapes, EvictShapes DEF GetCached
  <1>3. CASE LoadAuth(r)
    BY <1>2, <1>3, LoadShapes, UseShapes, DropShapes, FindShapes, ListShapes, FillShapes,
        RespondShapes DEF LoadAuth
  <1>4. CASE LogOut(r)
    BY <1>4, LogoutShapes, DeleteShapes, UncacheShapes DEF LogOut
  <1> QED BY <1>1, <1>3, <1>4, FailShapes DEF Step

LEMMA StepSessions ==
    ASSUME Shapes, Agreement, NEW r \in Caller, Step(r)
    PROVE  SessionsShrink(r)
  <1>1. CASE CreateSession(r)
    BY <1>1 DEF CreateSession, Insert, SessionsShrink, Creating
  <1>2. CASE DeleteSession(r)
    BY <1>2 DEF DeleteSession, Delete, SessionsShrink
  <1>3. CASE sessions' = sessions
    BY <1>3 DEF SessionsShrink
  <1>4. CreateSession(r) \/ DeleteSession(r) \/ sessions' = sessions
    BY DEF Step, LogIn, LoadAuth, LogOut, DatabaseFails, Authenticate, Load, GetCached,
        UseCached, DropExpired, FindSessionUser, ListPermissions, Fill, Respond, Logout,
        Uncache
  <1> QED BY <1>1, <1>2, <1>3, <1>4

-----------------------------------------------------------------------------
(* Types *)

\* The expiries are those the cache can hold, and the history is of known tokens.
Within ==
    /\ clock <= MaxTime
    /\ \A r \in Caller : Creating(r) => request[r].now <= MaxTime
    /\ \A t \in DOMAIN granted : granted[t] \in Value
    /\ late \subseteq withdrawn /\ withdrawn \subseteq Key

LEMMA CreateWithin ==
    ASSUME Shapes, Within, NEW r \in Caller, CreateSession(r)
    PROVE  Within'
  <1> DEFINE e == Unix(request[r].now + SessionTTL)
  <1>1. OnlyCaller(r) /\ request[r] \in Beginning /\ ~Creating(r)'
    BY CreateShapes DEF Creating
  <1>2. request[r].now \in 0 .. MaxTime
    BY <1>1, CacheAssumption DEF Within, Beginning, Creating, CreateSession
  <1>3. e \in Value
    BY <1>2, ValueAssumption
  <1>4. granted' = Insert(granted, TokenOf(r), e)
    BY DEF CreateSession
  <1> HIDE DEF e
  <1>5. \A t \in DOMAIN granted' : granted'[t] \in Value
    BY <1>3, <1>4 DEF Within, Insert
  <1>6. \A q \in Caller : Creating(q)' => Creating(q) /\ request'[q].now = request[q].now
    BY <1>1 DEF OnlyCaller, Creating
  <1> QED BY <1>5, <1>6 DEF Within, CreateSession, cacheVars

LEMMA WithinStep ==
    ASSUME Shapes, Within, [Next]_vars
    PROVE  Within'
  <1>1. ASSUME NEW r \in Caller, NEW t \in Key, Authenticate(r, t) PROVE Within'
    <2>1. OnlyCaller(r) /\ UNCHANGED <<cacheVars, sessions, history>>
      BY <1>1, AuthenticateShapes
    <2>2. request'[r].now = clock
      BY <1>1 DEF Authenticate, Shapes
    <2> QED BY <2>1, <2>2 DEF Within, OnlyCaller, Creating, cacheVars, history
  <1>2. ASSUME NEW r \in Caller, CreateSession(r) PROVE Within'
    BY <1>2, CreateWithin
  <1>3. ASSUME NEW r \in Caller, LoadAuth(r) PROVE Within'
    <2>1. OnlyCaller(r) /\ UNCHANGED <<clock, history>>
      BY <1>3, StepShapes DEF Step, LoadAuth, Load, GetCached, Peek, Judge, Evict, UseCached,
         Return, DropExpired, Remove, FindSessionUser, ListPermissions, Fill, Set, Respond,
         cacheVars
    <2>2. ~Creating(r)'
      <3>1. CASE GetCached(r)
        BY <3>1 DEF GetCached, Creating
      <3> QED BY <1>3, <3>1, LoadShapes, UseShapes, DropShapes, FindShapes, ListShapes,
             FillShapes, RespondShapes DEF LoadAuth, Creating
    <2> QED BY <2>1, <2>2 DEF Within, OnlyCaller, Creating, history
  <1>4. ASSUME NEW r \in Caller, LogOut(r) PROVE Within'
    <2>1. OnlyCaller(r) /\ UNCHANGED <<clock, granted>> /\ ~Creating(r)'
      BY <1>4, LogoutShapes, DeleteShapes, UncacheShapes
         DEF LogOut, Creating, Uncache, Remove, cacheVars, history
    <2>2. late' \subseteq withdrawn' /\ withdrawn' \subseteq Key
      <3>1. CASE Uncache(r)
        <4>1. TokenOf(r) \in Key
          BY <3>1, RequestShape DEF Uncache, Shapes, TokenOf
        <4> QED BY <3>1, <4>1 DEF Uncache, Withdraw, Within
      <3> QED BY <1>4, <3>1 DEF LogOut, Logout, DeleteSession, history, Within
    <2> QED BY <2>1, <2>2 DEF Within, OnlyCaller, Creating
  <1>5. ASSUME NEW r \in Caller, DatabaseFails(r) PROVE Within'
    BY <1>5, FailShapes DEF Within, OnlyCaller, Creating, cacheVars, history
  <1>6. CASE Restart
    BY <1>6 DEF Restart, Within, Creating, Free
  <1>7. CASE Pass
    BY <1>7, CacheAssumption DEF Pass, Tick, Within, Creating, history, Shapes
  <1>8. CASE UNCHANGED vars
    BY <1>8 DEF vars, cacheVars, history, Within, Creating
  <1> QED BY <1>1, <1>2, <1>3, <1>4, <1>5, <1>6, <1>7, <1>8 DEF Next, LogIn

LEMMA Typing == Shapes /\ Agreement /\ Within => TypeOK
  <1> SUFFICES ASSUME Shapes, Agreement, Within PROVE TypeOK
    OBVIOUS
  <1>1. ASSUME NEW x \in Cached, x.value \in Value PROVE x \in CacheEntry
    BY <1>1 DEF Cached, CacheEntry
  <1>2. IsTable(entries, Key, CacheEntry)
    BY <1>1 DEF Shapes, Agreement, TablesAgree, Within, IsTable
  <1>3. ASSUME NEW r \in Caller, call[r] \in Holding
        PROVE  call[r] \in [at : {"peeked", "expired", "hit"}, key : Key, entry : CacheEntry]
    <2>1. call[r] # Idle
      BY <1>3 DEF Holding, Idle
    <2>2. call[r].entry.value \in Value
      BY <1>3, <2>1 DEF Agreement, CallerAgrees, Within
    <2>3. call[r].entry \in CacheEntry
      BY <1>1, <1>3, <2>2 DEF Holding
    <2> QED BY <1>3, <2>3 DEF Holding
  <1>4. CacheTypeOK
    BY <1>2, <1>3 DEF CacheTypeOK, Shapes, Missing
  <1> QED BY <1>4 DEF TypeOK, Shapes, Agreement, CallerAgrees, Within, Requests, Beginning,
         Loading, Found, Leaving

\* Requests, their Gets and the cache keep their types (the whole of UserForToken,
\* Login and Logout over core/cache).
THEOREM SessionsTyped == Spec => []TypeOK
  <1>1. Init => Within
    BY CacheAssumption DEF Init, CacheInit, Within, Creating, Free, EmptyTable
  <1>2. Shapes /\ Within /\ [Next]_vars => Within'
    BY WithinStep
  <1> QED BY <1>1, <1>2, Typing, AgreementHolds, PTL DEF Spec

-----------------------------------------------------------------------------
(* Rejections *)

Justified(r) ==
    request[r].pc = "rejected" =>
        TokenOf(r) \notin DOMAIN sessions \/ sessions[TokenOf(r)] <= Unix(request[r].now)

LEMMA OtherJustified ==
    ASSUME Shapes, Agreement, NEW r \in Caller, Step(r), NEW q \in Caller, q # r, Justified(q)
    PROVE  Justified(q)'
  <1>1. request'[q] = request[q]
    BY StepShapes DEF OnlyCaller
  <1>2. ASSUME request[q].pc = "rejected" PROVE ~(Creating(r) /\ TokenOf(q) = TokenOf(r))
    BY <1>2 DEF Agreement, CallerAgrees
  <1> QED BY <1>1, <1>2, StepSessions DEF Justified, SessionsShrink, TokenOf

LEMMA SelfJustified ==
    ASSUME Shapes, NEW r \in Caller, Step(r), request'[r].pc = "rejected", Justified(r)
    PROVE  Justified(r)'
  <1> USE DEF TokenOf
  <1>1. CASE FindSessionUser(r)
    <2>1. request[r] \in Loading
      BY <1>1, RequestShape DEF FindSessionUser, Shapes
    <2>2. /\ SameRequest(r) /\ sessions' = sessions
          /\ ~(TokenOf(r) \in DOMAIN sessions /\ sessions[TokenOf(r)] > Unix(request[r].now))
      BY <1>1, FindShapes
    <2>3. Unix(request[r].now) \in Nat
      BY <2>1, UnixTyped DEF Loading
    <2>4. TokenOf(r) \in DOMAIN sessions => sessions[TokenOf(r)] \in Nat
      BY DEF Shapes, IsTable
    <2> QED BY <2>2, <2>3, <2>4 DEF Justified, SameRequest
  <1>2. ASSUME GetCached(r) PROVE Justified(r)'
    BY <1>2 DEF GetCached, Justified
  <1>3. CASE LogIn(r)
    BY <1>3, AuthenticateShapes, CreateShapes DEF LogIn, Free
  <1>4. CASE LogOut(r)
    BY <1>4, LogoutShapes, DeleteShapes, UncacheShapes DEF LogOut, Free
  <1>5. CASE DatabaseFails(r)
    BY <1>5, FailShapes DEF Free
  <1>6. ASSUME NEW t \in Key, Load(r, t) PROVE FALSE
    BY <1>6, LoadShapes
  <1>7. CASE UseCached(r)
    BY <1>7, UseShapes
  <1>8. CASE DropExpired(r) \/ ListPermissions(r) \/ Fill(r) \/ Respond(r)
    BY <1>8, DropShapes, ListShapes, FillShapes, RespondShapes
  <1> QED BY <1>1, <1>2, <1>3, <1>4, <1>5, <1>6, <1>7, <1>8 DEF Step, LoadAuth

\* A request is turned away only if its session is not in the table or had
\* expired when it arrived (UserForToken).
THEOREM Rejected == Spec => []RejectedForCause
  <1> DEFINE Inv == \A r \in Caller : Justified(r)
  <1>1. Init => Inv
    BY DEF Init, Justified, Free
  <1>2. Shapes /\ Agreement /\ Inv /\ [Next]_vars => Inv'
    <2> SUFFICES ASSUME Shapes, Agreement, Inv, [Next]_vars, NEW q \in Caller
                 PROVE  Justified(q)'
      OBVIOUS
    <2>1. ASSUME NEW r \in Caller, Step(r) PROVE Justified(q)'
      <3>1. CASE q # r
        BY <2>1, <3>1, OtherJustified
      <3>2. CASE q = r /\ request'[r].pc = "rejected"
        BY <2>1, <3>2, SelfJustified
      <3> QED BY <3>1, <3>2 DEF Justified
    <2>2. CASE Restart
      BY <2>2 DEF Restart, Justified, Free
    <2>3. CASE Pass \/ UNCHANGED vars
      BY <2>3 DEF Pass, vars, Justified, TokenOf, Unix
    <2> QED BY <2>1, <2>2, <2>3 DEF Next, Step
  <1>3. Inv => RejectedForCause
    BY DEF Justified, RejectedForCause
  <1> QED BY <1>1, <1>2, <1>3, AgreementHolds, PTL DEF Spec

-----------------------------------------------------------------------------
(* Sign out *)

\* Nothing is left of a session whose logout has returned, unless some request
\* had looked it up before.
Gone(t) ==
    /\ t \in DOMAIN granted /\ t \notin DOMAIN sessions
    /\ t \notin late => t \notin DOMAIN entries /\ ~LookedUp(t)

\* A request that came after such a logout.
Late(r) ==
    /\ request[r].pc = "uncache" => TokenOf(r) \notin DOMAIN sessions
    /\ request[r].pc \in {"get", "drop", "find", "permissions", "fill", "served"}
       /\ request[r].revoked =>
            /\ TokenOf(r) \in withdrawn \ late
            /\ call[r] \notin Holding
            /\ request[r].pc # "served"

SignedOut == (\A t \in withdrawn : Gone(t)) /\ \A r \in Caller : Late(r)

\* A step of r that withdraws nothing.
LEMMA SignedOutStep ==
    ASSUME Shapes, Agreement, SignedOut, NEW r \in Caller, Step(r),
           UNCHANGED <<withdrawn, late>>, Late(r)',
           \A t \in DOMAIN entries' \ DOMAIN entries : LookedUp(t),
           request'[r].pc = "permissions" =>
                request[r].pc = "find" /\ SameRequest(r) /\ TokenOf(r) \in DOMAIN sessions,
           request'[r].pc = "fill" => request[r].pc = "permissions" /\ SameRequest(r)
    PROVE  SignedOut'
  <1> USE DEF TokenOf
  <1>1. OnlyCaller(r) /\ SessionsShrink(r)
    BY StepShapes, StepSessions
  <1>2. DOMAIN granted \subseteq DOMAIN granted'
    <2>1. CASE CreateSession(r)
      BY <2>1 DEF CreateSession, Insert
    <2>2. CreateSession(r) \/ granted' = granted
      BY DEF Step, LogIn, LoadAuth, LogOut, DatabaseFails, Authenticate, Load, GetCached,
          UseCached, DropExpired, FindSessionUser, ListPermissions, Fill, Respond, Logout,
          DeleteSession, Uncache, history
    <2> QED BY <2>1, <2>2
  <1>3. \A t \in DOMAIN granted : t \notin DOMAIN sessions => t \notin DOMAIN sessions'
    BY <1>1 DEF SessionsShrink, Agreement, CallerAgrees
  <1>4. \A t \in Key : LookedUp(t)' => LookedUp(t) \/ t \in DOMAIN sessions
    <2> SUFFICES ASSUME NEW t \in Key, NEW q \in Caller,
                        request'[q].pc \in {"permissions", "fill"}, request'[q].token = t
                 PROVE  LookedUp(t) \/ t \in DOMAIN sessions
      BY DEF LookedUp
    <2>1. CASE q # r
      BY <1>1, <2>1 DEF OnlyCaller, LookedUp
    <2>2. CASE q = r
      BY <2>2 DEF LookedUp, SameRequest
    <2> QED BY <2>1, <2>2
  <1>5. ASSUME NEW t \in withdrawn PROVE Gone(t)'
    <2>1. Gone(t) /\ t \in Key
      BY DEF SignedOut, Gone, Shapes, IsTable
    <2> QED BY <1>2, <1>3, <1>4, <2>1 DEF Gone
  <1>6. ASSUME NEW q \in Caller, q # r PROVE Late(q)'
    <2>1. request'[q] = request[q] /\ call'[q] = call[q] /\ Late(q)
      BY <1>1, <1>6 DEF OnlyCaller, SignedOut
    <2>2. request[q].pc = "uncache" => TokenOf(q) \in DOMAIN granted
      BY DEF Agreement, CallerAgrees
    <2> QED BY <1>3, <2>1, <2>2 DEF Late
  <1> QED BY <1>5, <1>6 DEF SignedOut

LEMMA LoadAuthSignsOut ==
    ASSUME Shapes, Agreement, SignedOut, NEW r \in Caller, LoadAuth(r)
    PROVE  SignedOut'
  <1> USE DEF TokenOf
  <1> Step(r) /\ (call[r] # Idle => request[r].pc = "get") /\ Idle \notin Holding
    BY DEF Step, Agreement, CallerAgrees, Idle, Holding
  <1>1. ASSUME NEW t \in Key, Load(r, t) PROVE SignedOut'
    <2>1. /\ UNCHANGED <<cacheVars, history>> /\ request'[r].pc = "get"
          /\ request'[r].token = t
          /\ request'[r].revoked => t \in withdrawn \ late
      BY <1>1, LoadShapes
    <2>2. call'[r] = Idle
      BY <1>1, <2>1 DEF Load, Free, cacheVars
    <2>3. Late(r)'
      BY <2>1, <2>2 DEF Late, history
    <2> QED BY <2>1, <2>3, SignedOutStep DEF cacheVars, history
  <1>2. CASE GetCached(r)
    <2> /\ request[r].pc = "get" /\ UNCHANGED <<sessions, request, history>>
      BY <1>2 DEF GetCached
    <2>1. ASSUME request[r].revoked PROVE call'[r] \notin Holding
      <3>1. TokenOf(r) \notin DOMAIN entries /\ call[r] \notin Holding
        BY <2>1 DEF SignedOut, Late, Gone
      <3>2. CASE Peek(r, TokenOf(r))
        BY <3>1, <3>2, PeekShapes DEF Holding
      <3>3. CASE Judge(r)
        BY <3>1, <3>3, JudgeShapes
      <3>4. CASE Evict(r)
        BY <3>4, EvictShapes DEF Holding
      <3> QED BY <1>2, <3>2, <3>3, <3>4 DEF GetCached
    <2>2. Late(r)'
      BY <2>1 DEF SignedOut, Late, history
    <2>3. DOMAIN entries' \subseteq DOMAIN entries
      BY <1>2, EvictShapes DEF GetCached, Peek, Judge
    <2> QED BY <2>2, <2>3, SignedOutStep DEF history
  <1>3. CASE UseCached(r)
    <2>1. /\ SameRequest(r) /\ UNCHANGED <<entries, history>> /\ call'[r] = Idle
          /\ request'[r].pc \in {"find", "drop", "served"}
          /\ request'[r].pc = "served" => call[r] \in Holding
      BY <1>3, UseShapes
    <2>2. request[r].pc = "get"
      BY <1>3 DEF UseCached
    <2>3. Late(r)'
      BY <2>1, <2>2 DEF SignedOut, Late, SameRequest, history
    <2> QED BY <2>1, <2>3, SignedOutStep DEF history
  <1>4. CASE DropExpired(r)
    <2>1. /\ SameRequest(r) /\ call' = call /\ UNCHANGED history
          /\ request'[r].pc = "find" /\ DOMAIN entries' \subseteq DOMAIN entries
      BY <1>4, DropShapes
    <2>2. request[r].pc = "drop"
      BY <1>4 DEF DropExpired
    <2>3. Late(r)'
      BY <2>1, <2>2 DEF SignedOut, Late, SameRequest, history
    <2> QED BY <2>1, <2>3, SignedOutStep DEF history
  <1>5. CASE FindSessionUser(r)
    <2>1. /\ SameRequest(r) /\ UNCHANGED <<cacheVars, history>>
          /\ \/ request'[r].pc = "permissions" /\ TokenOf(r) \in DOMAIN sessions
             \/ request'[r].pc = "rejected"
      BY <1>5, FindShapes
    <2>2. request[r].pc = "find"
      BY <1>5 DEF FindSessionUser
    <2>3. Late(r)'
      BY <2>1, <2>2 DEF SignedOut, Late, SameRequest, cacheVars, history
    <2> QED BY <2>1, <2>2, <2>3, SignedOutStep DEF cacheVars, history
  <1>6. CASE ListPermissions(r)
    <2>1. /\ SameRequest(r) /\ UNCHANGED <<cacheVars, history>> /\ request'[r].pc = "fill"
      BY <1>6, ListShapes
    <2>2. request[r].pc = "permissions"
      BY <1>6 DEF ListPermissions
    <2>3. Late(r)'
      BY <2>1, <2>2 DEF SignedOut, Late, SameRequest, cacheVars, history
    <2> QED BY <2>1, <2>2, <2>3, SignedOutStep DEF cacheVars, history
  <1>7. CASE Fill(r)
    <2>1. /\ SameRequest(r) /\ call' = call /\ UNCHANGED history
          /\ request'[r].pc = "served"
          /\ DOMAIN entries' = DOMAIN entries \cup {TokenOf(r)}
      BY <1>7, FillShapes
    <2>2. LookedUp(TokenOf(r)) /\ request[r].pc = "fill"
      BY <1>7 DEF Fill, LookedUp
    <2>3. ~request[r].revoked
      BY <2>2 DEF SignedOut, Late, Gone
    <2>4. Late(r)'
      BY <2>1, <2>3 DEF Late, SameRequest
    <2> QED BY <2>1, <2>2, <2>4, SignedOutStep DEF history
  <1>8. CASE Respond(r)
    <2>1. request'[r].pc = "free" /\ UNCHANGED <<cacheVars, history>>
      BY <1>8, RespondShapes
    <2>2. Late(r)'
      BY <2>1 DEF Late
    <2> QED BY <2>1, <2>2, SignedOutStep DEF cacheVars, history
  <1> QED BY <1>1, <1>2, <1>3, <1>4, <1>5, <1>6, <1>7, <1>8 DEF LoadAuth

LEMMA UncacheSignsOut ==
    ASSUME Shapes, Agreement, SignedOut, NEW r \in Caller, Uncache(r)
    PROVE  SignedOut'
  <1> USE DEF TokenOf
  <1> DEFINE gone == TokenOf(r)
  <1>1. /\ OnlyCaller(r) /\ request'[r].pc = "free" /\ UNCHANGED <<sessions, granted>>
        /\ entries' = Delete(entries, gone)
    BY UncacheShapes
  <1>2. /\ withdrawn' = withdrawn \cup {gone}
        /\ late' = IF LookedUp(gone) THEN late \cup {gone} ELSE late \ {gone}
    BY DEF Uncache, Withdraw
  <1>3. request[r].pc = "uncache"
    BY DEF Uncache
  <1>4. gone \in DOMAIN granted /\ gone \notin DOMAIN sessions
    BY <1>3 DEF Agreement, CallerAgrees, SignedOut, Late
  <1>5. \A t : LookedUp(t)' => LookedUp(t)
    BY <1>1 DEF OnlyCaller, LookedUp
  <1>6. DOMAIN entries' = DOMAIN entries \ {gone}
    BY <1>1 DEF Delete
  <1>7. gone \in withdrawn \ late => ~LookedUp(gone)
    BY DEF SignedOut, Gone
  <1> HIDE DEF gone
  <1>8. ASSUME NEW t \in withdrawn' PROVE Gone(t)'
    BY <1>1, <1>2, <1>4, <1>5, <1>6, <1>8 DEF SignedOut, Gone
  <1>9. ASSUME NEW q \in Caller PROVE Late(q)'
    <2>1. CASE q = r
      BY <1>1, <2>1 DEF Late
    <2>2. CASE q # r
      <3>1. request'[q] = request[q] /\ call'[q] = call[q] /\ Late(q)
        BY <1>1, <2>2 DEF OnlyCaller, SignedOut
      <3>2. withdrawn \ late \subseteq withdrawn' \ late'
        BY <1>2, <1>7
      <3> QED BY <1>1, <3>1, <3>2 DEF Late
    <2> QED BY <2>1, <2>2
  <1> QED BY <1>8, <1>9 DEF SignedOut

LEMMA OthersSignOut ==
    ASSUME Shapes, Agreement, SignedOut, NEW r \in Caller, Step(r),
           ~LoadAuth(r), ~Uncache(r)
    PROVE  SignedOut'
  <1>1. UNCHANGED <<withdrawn, late>> /\ entries' = entries
    BY DEF Step, LogIn, LogOut, DatabaseFails, Authenticate, CreateSession, Logout,
        DeleteSession, history, cacheVars
  <1>2. ASSUME NEW t \in Key, Authenticate(r, t) PROVE request'[r].pc = "create"
    BY <1>2, AuthenticateShapes
  <1>3. ASSUME NEW t \in Key, Logout(r, t) PROVE request'[r].pc = "delete"
    BY <1>3, LogoutShapes
  <1>4. CreateSession(r) => request'[r].pc = "free"
    BY CreateShapes
  <1>5. DatabaseFails(r) => request'[r].pc \in {"free", "failed"}
    BY FailShapes
  <1>6. DeleteSession(r) =>
            /\ request'[r].pc = "uncache" /\ TokenOf(r)' = TokenOf(r)
            /\ TokenOf(r) \notin DOMAIN sessions'
    BY DeleteShapes DEF Delete, TokenOf
  <1>7. /\ request'[r].pc \in {"create", "delete", "free", "failed", "uncache"}
        /\ request'[r].pc = "uncache" => TokenOf(r)' \notin DOMAIN sessions'
    BY <1>2, <1>3, <1>4, <1>5, <1>6 DEF Step, LogIn, LogOut
  <1>8. Late(r)'
    BY <1>7 DEF Late
  <1> QED BY <1>1, <1>7, <1>8, SignedOutStep

LEMMA RestSignsOut ==
    ASSUME SignedOut, Restart \/ Pass \/ UNCHANGED vars
    PROVE  SignedOut'
  <1>1. CASE Restart
    BY <1>1 DEF Restart, SignedOut, Gone, Late, LookedUp, Free, EmptyTable
  <1>2. CASE Pass \/ UNCHANGED vars
    <2>1. UNCHANGED <<entries, call, sessions, request, granted, withdrawn, late>>
      BY <1>2 DEF Pass, Tick, vars, cacheVars, history
    <2> QED BY <2>1 DEF SignedOut, Gone, Late, LookedUp, TokenOf
  <1> QED BY <1>1, <1>2

\* A request that arrives after the logout of its session has returned is not
\* served, unless a request that had read the session before the logout caches it
\* afterwards (Logout).
THEOREM SignedOutForGood == Spec => []SignedOutStaysOut
  <1>1. Init => SignedOut
    BY DEF Init, SignedOut, Late, Free
  <1>2. Shapes /\ Agreement /\ SignedOut /\ [Next]_vars => SignedOut'
    <2> SUFFICES ASSUME Shapes, Agreement, SignedOut, [Next]_vars PROVE SignedOut'
      OBVIOUS
    <2>1. ASSUME NEW r \in Caller, Step(r) PROVE SignedOut'
      BY <2>1, LoadAuthSignsOut, UncacheSignsOut, OthersSignOut
    <2> QED BY <2>1, RestSignsOut DEF Next, Step
  <1>3. SignedOut => SignedOutStaysOut
    BY DEF SignedOut, Late, SignedOutStaysOut
  <1> QED BY <1>1, <1>2, <1>3, AgreementHolds, PTL DEF Spec
=============================================================================
