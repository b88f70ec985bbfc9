------------------------------ MODULE TTLCache ------------------------------
(***************************************************************************)
(* core/cache: a map of keys to values that expire, shared by goroutines.   *)
(* Get takes the read lock, lets go of it, compares the copy it has made    *)
(* with the time, and takes the write lock to remove an expired entry; in   *)
(* between, the other operations and the clock go on.                       *)
(***************************************************************************)
EXTENDS Naturals, Tables

CONSTANTS
    Key, Value,
    Caller,         \* goroutines that call Get
    TTLs,           \* the durations a cache may be made with
    MaxTime         \* bound: the last tick of the clock

ASSUME CacheAssumption == TTLs \subseteq Nat /\ MaxTime \in Nat

VARIABLES
    ttl,            \* of this cache; 0 means that entries never expire
    clock,          \* time.Now()
    entries,        \* the map
    call            \* the Get in progress of each caller

cacheVars == <<ttl, clock, entries, call>>

CacheEntry == [value : Value, expiresAt : Nat]

Expired(entry) == ttl > 0 /\ clock > entry.expiresAt

Idle == [at |-> "idle"]

CacheInit ==
    /\ ttl \in TTLs
    /\ clock = 0
    /\ entries = EmptyTable
    /\ call = [c \in Caller |-> Idle]

-----------------------------------------------------------------------------
(* Get *)

\* The lookup under the read lock.
Peek(c, k) ==
    /\ call[c] = Idle
    /\ call' = [call EXCEPT ![c] =
            IF k \in DOMAIN entries
            THEN [at |-> "peeked", key |-> k, entry |-> entries[k]]
            ELSE [at |-> "miss", key |-> k]]
    /\ UNCHANGED <<ttl, clock, entries>>

\* Mutant: the entry that was found is returned whatever its age.
JudgeFresh(c) ==
    /\ call[c].at = "peeked"
    /\ call' = [call EXCEPT ![c].at = "hit"]
    /\ UNCHANGED <<ttl, clock, entries>>

\* The copy is compared with the time, under no lock.
Judge(c) ==
    /\ call[c].at = "peeked"
    /\ call' = [call EXCEPT ![c].at = IF Expired(call[c].entry) THEN "expired" ELSE "hit"]
    /\ UNCHANGED <<ttl, clock, entries>>

\* Mutant: the entry is deleted without the check under the write lock.
EvictUnchecked(c) ==
    /\ call[c].at = "expired"
    /\ call' = [call EXCEPT ![c] = [at |-> "miss", key |-> call[c].key]]
    /\ entries' = Delete(entries, call[c].key)
    /\ UNCHANGED <<ttl, clock>>

\* The write lock: what is there now is deleted if it has expired too.
Evict(c) ==
    LET k == call[c].key IN
    /\ call[c].at = "expired"
    /\ call' = [call EXCEPT ![c] = [at |-> "miss", key |-> k]]
    /\ entries' = IF k \in DOMAIN entries /\ Expired(entries[k])
                  THEN Delete(entries, k) ELSE entries
    /\ UNCHANGED <<ttl, clock>>

Return(c) ==
    /\ call[c].at \in {"hit", "miss"}
    /\ call' = [call EXCEPT ![c] = Idle]
    /\ UNCHANGED <<ttl, clock, entries>>

-----------------------------------------------------------------------------
(* The operations under the write lock *)

\* Mutant: an entry that never expires has no expiry time.
SetBare(k, v) ==
    /\ entries' = Insert(entries, k,
                    IF ttl > 0 THEN [value |-> v, expiresAt |-> clock + ttl]
                    ELSE [value |-> v])
    /\ UNCHANGED <<ttl, clock, call>>

Set(k, v) ==
    /\ entries' = Insert(entries, k,
                    [value |-> v, expiresAt |-> IF ttl > 0 THEN clock + ttl ELSE 0])
    /\ UNCHANGED <<ttl, clock, call>>

Remove(k) ==
    /\ entries' = Delete(entries, k)
    /\ UNCHANGED <<ttl, clock, call>>

Purge ==
    /\ entries' = EmptyTable
    /\ UNCHANGED <<ttl, clock, call>>

Tick ==
    /\ clock < MaxTime
    /\ clock' = clock + 1
    /\ UNCHANGED <<ttl, entries, call>>

Get(c) ==
    \/ \E k \in Key : Peek(c, k)
    \/ Judge(c) \/ Evict(c) \/ Return(c)

CacheNext ==
    \/ \E c \in Caller : Get(c)
    \/ \E k \in Key, v \in Value : Set(k, v)
    \/ \E k \in Key : Remove(k)
    \/ Purge \/ Tick

CacheSpec == CacheInit /\ [][CacheNext]_cacheVars

-----------------------------------------------------------------------------
(* Properties *)

\* Every entry and every copy of one has a value and an expiry time.
CacheTypeOK ==
    /\ ttl \in Nat
    /\ clock \in Nat
    /\ IsTable(entries, Key, CacheEntry)
    /\ call \in [Caller ->
                    {Idle} \cup [at : {"miss"}, key : Key]
                    \cup [at : {"peeked", "expired", "hit"}, key : Key, entry : CacheEntry]]

\* What a caller may find: the keys whose entries have not expired.
Live == {k \in DOMAIN entries : ~Expired(entries[k])}

\* A Get never takes away an entry that has not expired: one that saw an expired
\* entry spares the fresh one that was set in the meantime (cache.go:50-54,
\* TestGet_ExpiredEntry_RacingWithSet_PreservesFreshEntry).
GetSparesFreshEntries ==
    [][call' # call =>
        \A k \in Live : k \in DOMAIN entries' /\ entries'[k] = entries[k]]_cacheVars
=============================================================================
