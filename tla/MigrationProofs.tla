--------------------------- MODULE MigrationProofs ---------------------------
(***************************************************************************)
(* Proofs about the migrations, for any processes and releases.            *)
(***************************************************************************)
EXTENDS Migrations, FiniteSetTheorems, TLAPS

-----------------------------------------------------------------------------
(* The inductive invariant *)

Sequences(entries) == {e.sequence : e \in entries}

\* How many migrations the transaction of p has run.
Run(p) == IF pc[p] = "apply" THEN Len(staged) ELSE 0

\* A process that has come past Boot has a well-formed directory.
ReleaseKept(p) ==
    /\ release[p] \in Releases \cup {{}}
    /\ pc[p] \in {"probe", "load", "begin", "apply", "serving"} =>
            WellFormed(release[p]) /\ release[p] \subseteq Entry

Recorded(e) == e.sequence \in DOMAIN applied /\ applied[e.sequence] = e.version

\* The first k migrations of the log are in the directory of p as recorded.
Shares(p, k) ==
    \A s \in 1 .. k : \E e \in Discovered(release[p]) : e.sequence = s /\ Recorded(e)

\* A plan was made to go from a prefix of the log that its directory shares to
\* some later n, and once one of its entries has been run that prefix is the
\* whole log.
PlanFollows(p) ==
    pc[p] \in {"begin", "apply"} =>
        /\ plan[p] \subseteq Discovered(release[p])
        /\ pc[p] = "apply" => Staged \subseteq Discovered(release[p])
        /\ \E k \in 0 .. Len(executed), n \in Nat :
            /\ k < n /\ Shares(p, k)
            /\ Sequences(plan[p]) = k + Run(p) + 1 .. n
            /\ Run(p) > 0 => k = Len(executed)

\* Every migration of a directory that passed Validate is planned, has run in
\* the transaction, or is recorded in the very version of its file.
Covered(p) ==
    \A e \in Discovered(release[p]) :
        /\ pc[p] = "begin" => e \in plan[p] \/ Recorded(e)
        /\ pc[p] = "apply" => e \in plan[p] \/ e \in Staged \/ Recorded(e)
        /\ pc[p] = "serving" => Recorded(e)

\* The transaction continues the log; only its owner is applying.
TransactionFollows ==
    /\ writer = NoProcess => staged = <<>>
    /\ \A i \in DOMAIN staged : staged[i].sequence = Len(executed) + i
    /\ \A p \in Process : pc[p] = "apply" <=> writer = p

MigrationInv ==
    /\ TypeOK /\ SchemaMatchesLog /\ TransactionFollows
    /\ \A p \in Process : ReleaseKept(p) /\ PlanFollows(p) /\ Covered(p)

-----------------------------------------------------------------------------
(* Directories *)

\* Every directory is a finite set of entries.
LEMMA ReleaseFinite ==
    ASSUME NEW r \in Releases \cup {{}}
    PROVE  /\ r \subseteq Entry
           /\ Cardinality(Discovered(r)) \in Nat
  <1>1. IsFiniteSet(r) /\ r \subseteq Entry
    BY MigrationAssumption, FS_EmptySet
  <1>2. Discovered(r) \subseteq r
    BY DEF Discovered
  <1> QED BY <1>1, <1>2, FS_Subset, FS_CardinalityType

\* What is pending begins where the log that was read ends, and that log is in
\* the directory.
LEMMA PendingFollows ==
    ASSUME NEW r \in Releases \cup {{}}, WellFormed(r), NEW known, Valid(r, known)
    PROVE  \E k, n \in Nat :
            /\ DOMAIN known = 1 .. k /\ Sequences(Pending(r, known)) = k + 1 .. n
            /\ Pending(r, known) # {} => k < n
            /\ \A s \in 1 .. k : \E e \in Discovered(r) :
                    e.sequence = s /\ e.version = known[s]
  <1>1. PICK k \in 0 .. Cardinality(DOMAIN known) : DOMAIN known = 1 .. k
    BY DEF Valid
  <1>2. k \in Nat
    BY <1>1
  <1> DEFINE n == Cardinality(Discovered(r))
  <1>3. Sequences(Discovered(r)) = 1 .. n /\ n \in Nat
    BY ReleaseFinite DEF WellFormed, Sequences
  <1>4. Sequences(Pending(r, known)) = {s \in 1 .. n : s \notin 1 .. k}
    BY <1>1, <1>3 DEF Sequences, Pending
  <1> HIDE DEF n
  <1>5. {s \in 1 .. n : s \notin 1 .. k} = k + 1 .. n
    BY <1>2, <1>3
  <1>6. Pending(r, known) # {} => k < n
    <2>1. Pending(r, known) # {} => \E s \in k + 1 .. n : TRUE
      BY <1>4, <1>5 DEF Sequences
    <2> QED BY <1>2, <1>3, <2>1
  <1>7. \A s \in 1 .. k : \E e \in Discovered(r) : e.sequence = s /\ e.version = known[s]
    BY <1>1 DEF Valid
  <1> QED BY <1>1, <1>2, <1>3, <1>4, <1>5, <1>6, <1>7

\* What is not pending is recorded in the version of the file.
LEMMA OthersRecorded ==
    ASSUME NEW r, WellFormed(r), NEW known, Valid(r, known),
           NEW e \in Discovered(r), e \notin Pending(r, known)
    PROVE  e.sequence \in DOMAIN known /\ known[e.sequence] = e.version
  <1>1. e.sequence \in DOMAIN known
    BY DEF Pending
  <1>2. PICK f \in Discovered(r) : f.sequence = e.sequence /\ f.version = known[e.sequence]
    BY <1>1 DEF Valid
  <1>3. f = e
    BY <1>2 DEF WellFormed
  <1> QED BY <1>1, <1>2, <1>3

-----------------------------------------------------------------------------
(* Steps of one process *)

LogGrows ==
    /\ Len(executed) <= Len(executed') /\ Len(executed') \in Nat
    /\ \A s \in DOMAIN applied : s \in DOMAIN applied' /\ applied'[s] = applied[s]

\* A shared prefix stays shared.
LEMMA StillShares ==
    ASSUME LogGrows, NEW p \in Process, release'[p] = release[p],
           NEW k, Shares(p, k)
    PROVE  Shares(p, k)'
  <1>1. \A e \in Discovered(release[p]) : Recorded(e) => Recorded(e)'
    BY DEF LogGrows, Recorded
  <1> QED BY <1>1 DEF Shares

OnlyProcess(p) ==
    /\ pc' \in [Process -> Pc]
    /\ release' \in [Process -> Releases \cup {{}}]
    /\ plan' \in [Process -> SUBSET Entry]
    /\ \A q \in Process \ {p} :
        pc'[q] = pc[q] /\ release'[q] = release[q] /\ plan'[q] = plan[q]

ProcessFits(p) == ReleaseKept(p) /\ PlanFollows(p) /\ Covered(p)

\* A process that takes no step is not disturbed, unless it owns the transaction.
LEMMA OthersFit ==
    ASSUME MigrationInv, NEW p \in Process, OnlyProcess(p), LogGrows,
           NEW q \in Process, q # p,
           pc[q] = "apply" => UNCHANGED <<executed, staged>>
    PROVE  ProcessFits(q)'
  <1>1. pc'[q] = pc[q] /\ release'[q] = release[q] /\ plan'[q] = plan[q]
    BY DEF OnlyProcess
  <1>2. ReleaseKept(q) /\ PlanFollows(q) /\ Covered(q)
    BY DEF MigrationInv
  <1>3. ReleaseKept(q)'
    BY <1>1, <1>2 DEF ReleaseKept
  <1>4. PlanFollows(q)'
    <2> SUFFICES ASSUME pc[q] \in {"begin", "apply"} PROVE PlanFollows(q)'
      BY <1>1 DEF PlanFollows
    <2>1. /\ plan[q] \subseteq Discovered(release[q])
          /\ pc[q] = "apply" => Staged \subseteq Discovered(release[q])
      BY <1>2 DEF PlanFollows
    <2>2. PICK k \in 0 .. Len(executed), n \in Nat :
            /\ k < n /\ Shares(q, k)
            /\ Sequences(plan[q]) = k + Run(q) + 1 .. n
            /\ Run(q) > 0 => k = Len(executed)
      BY <1>2 DEF PlanFollows
    <2>3. Shares(q, k)'
      BY <1>1, <2>2, StillShares
    <2>4. k \in 0 .. Len(executed') /\ Run(q)' = Run(q)
      BY <1>1 DEF LogGrows, MigrationInv, TypeOK, Run
    <2>5. Run(q) > 0 => k = Len(executed')
      BY <2>2 DEF Run
    <2>6. pc[q] = "apply" => Staged' = Staged
      BY DEF Staged
    <2> QED BY <1>1, <2>1, <2>2, <2>3, <2>4, <2>5, <2>6 DEF PlanFollows
  <1>5. Covered(q)'
    <2>1. \A e \in Discovered(release[q]) : Recorded(e) => Recorded(e)'
      BY DEF LogGrows, Recorded
    <2>2. pc[q] = "apply" => Staged' = Staged
      BY DEF Staged
    <2> QED BY <1>1, <1>2, <2>1, <2>2 DEF Covered
  <1> QED BY <1>3, <1>4, <1>5 DEF ProcessFits

\* A step that leaves the log and the transaction alone.
LEMMA QuietStep ==
    ASSUME MigrationInv, NEW p \in Process, OnlyProcess(p),
           UNCHANGED <<schema, transaction>>,
           pc[p] # "apply", pc'[p] # "apply", ProcessFits(p)'
    PROVE  MigrationInv'
  <1>1. TypeOK'
    BY DEF MigrationInv, TypeOK, OnlyProcess, schema, transaction
  <1>2. SchemaMatchesLog'
    BY DEF MigrationInv, SchemaMatchesLog, schema
  <1>3. TransactionFollows'
    BY DEF MigrationInv, TransactionFollows, OnlyProcess, schema, transaction
  <1>4. LogGrows
    BY DEF LogGrows, schema, MigrationInv, TypeOK
  <1>5. ASSUME NEW q \in Process PROVE ProcessFits(q)'
    BY <1>4, OthersFit DEF schema, transaction
  <1> QED BY <1>1, <1>2, <1>3, <1>5 DEF MigrationInv, ProcessFits

LEMMA BootKeeps ==
    ASSUME MigrationInv, NEW p \in Process, Boot(p)
    PROVE  MigrationInv'
  <1>1. PICK r \in Releases :
            /\ release' = [release EXCEPT ![p] = r]
            /\ pc' = [pc EXCEPT ![p] = IF WellFormed(r) THEN "probe" ELSE "failed"]
    BY DEF Boot
  <1>2. /\ OnlyProcess(p) /\ release'[p] = r
        /\ pc'[p] = IF WellFormed(r) THEN "probe" ELSE "failed"
    BY <1>1 DEF Boot, OnlyProcess, MigrationInv, TypeOK, Pc
  <1>3. ProcessFits(p)'
    BY <1>2, ReleaseFinite DEF ProcessFits, ReleaseKept, PlanFollows, Covered
  <1>4. UNCHANGED <<schema, transaction>> /\ pc[p] = "down"
    BY DEF Boot
  <1> QED BY <1>2, <1>3, <1>4, QuietStep

\* The decision of Validate over what it read, a part of the log by now.
LEMMA DecisionFits ==
    ASSUME MigrationInv, NEW p \in Process, pc[p] \in {"probe", "load"},
           NEW known, Decide(p, known),
           UNCHANGED <<schema, transaction, release>>,
           \A s \in DOMAIN known : s \in DOMAIN applied /\ applied[s] = known[s]
    PROVE  MigrationInv'
  <1>1. WellFormed(release[p]) /\ release[p] \in Releases \cup {{}}
    BY DEF MigrationInv, ReleaseKept
  <1>2. CASE ~Valid(release[p], known)
    <2>1. OnlyProcess(p) /\ pc'[p] = "failed"
      BY <1>2 DEF Decide, OnlyProcess, MigrationInv, TypeOK, Pc
    <2>2. ProcessFits(p)'
      BY <1>1, <2>1 DEF ProcessFits, ReleaseKept, PlanFollows, Covered
    <2> QED BY <2>1, <2>2, QuietStep
  <1>3. CASE Valid(release[p], known)
    <2> DEFINE pending == Pending(release[p], known)
    <2>1. pending \subseteq Discovered(release[p]) /\ Discovered(release[p]) \subseteq Entry
      BY <1>1, ReleaseFinite DEF Pending, Discovered
    <2>2. /\ OnlyProcess(p) /\ plan'[p] = pending
          /\ pc'[p] = IF pending = {} THEN "serving" ELSE "begin"
      BY <1>3, <2>1, ZenonT(20) DEF Decide, OnlyProcess, MigrationInv, TypeOK, Pc
    <2>3. \A e \in Discovered(release[p]) \ pending : Recorded(e)
      BY <1>1, <1>3, OthersRecorded DEF Recorded
    <2>4. PICK k, n \in Nat :
            /\ DOMAIN known = 1 .. k /\ Sequences(pending) = k + 1 .. n
            /\ pending # {} => k < n
            /\ \A s \in 1 .. k : \E e \in Discovered(release[p]) :
                    e.sequence = s /\ e.version = known[s]
      BY <1>1, <1>3, PendingFollows
    <2>5. k <= Len(executed)
      <3>1. 1 .. k \subseteq 1 .. Len(executed) /\ Len(executed) \in Nat
        BY <2>4 DEF MigrationInv, SchemaMatchesLog, TypeOK
      <3> QED BY <3>1
    <2> HIDE DEF pending
    <2>6. ReleaseKept(p)'
      BY <1>1, <2>2 DEF MigrationInv, ReleaseKept
    <2>7. PlanFollows(p)'
      <3>1. pc'[p] = "begin" => Run(p)' = 0
        BY DEF Run
      <3>2. Len(executed') = Len(executed) /\ k \in 0 .. Len(executed)
        BY <2>5 DEF schema, MigrationInv, TypeOK
      <3>3. Sequences(plan'[p]) = k + 0 + 1 .. n
        BY <2>2, <2>4
      <3>4. Shares(p, k)'
        BY <2>4 DEF Shares, Recorded, schema
      <3> QED BY <2>1, <2>2, <2>4, <3>1, <3>2, <3>3, <3>4 DEF PlanFollows
    <2>8. Covered(p)'
      BY <2>2, <2>3 DEF Covered, Recorded, schema
    <2> QED BY <2>2, <2>6, <2>7, <2>8, QuietStep DEF ProcessFits
  <1> QED BY <1>2, <1>3

LEMMA ValidateKeeps ==
    ASSUME MigrationInv, NEW p \in Process, Probe(p) \/ Load(p)
    PROVE  MigrationInv'
  <1>1. CASE Probe(p) /\ tracked
    <2>1. OnlyProcess(p) /\ pc'[p] = "load"
      BY <1>1 DEF Probe, OnlyProcess, MigrationInv, TypeOK, Pc
    <2>2. ProcessFits(p)'
      BY <1>1, <2>1 DEF Probe, ProcessFits, ReleaseKept, PlanFollows, Covered, MigrationInv
    <2> QED BY <1>1, <2>1, <2>2, QuietStep DEF Probe
  <1>2. CASE Probe(p) /\ ~tracked
    BY <1>2, DecisionFits DEF Probe
  <1>3. CASE Load(p)
    BY <1>3, DecisionFits DEF Load
  <1> QED BY <1>1, <1>2, <1>3

LEMMA BeginKeeps ==
    ASSUME MigrationInv, NEW p \in Process, Begin(p)
    PROVE  MigrationInv'
  <1> USE DEF Begin
  <1>1. OnlyProcess(p) /\ pc'[p] = "apply"
    BY DEF OnlyProcess, MigrationInv, TypeOK, Pc
  <1>2. staged' = <<>> /\ Len(staged') = 0 /\ staged' \in Seq(Entry)
    OBVIOUS
  <1>3. TypeOK'
    BY <1>1, <1>2 DEF MigrationInv, TypeOK, OnlyProcess, schema
  <1>4. SchemaMatchesLog'
    BY DEF MigrationInv, SchemaMatchesLog, schema
  <1>5. LogGrows
    BY DEF LogGrows, schema, MigrationInv, TypeOK
  <1>6. \A q \in Process : pc[q] # "apply"
    BY MigrationAssumption DEF MigrationInv, TransactionFollows
  <1>7. TransactionFollows'
    <2>1. \A q \in Process : pc'[q] = "apply" <=> writer' = q
      BY <1>1, <1>6 DEF OnlyProcess
    <2>2. writer' # NoProcess
      BY MigrationAssumption
    <2> QED BY <1>2, <2>1, <2>2 DEF TransactionFollows
  <1>8. ProcessFits(p)'
    <2>1. ReleaseKept(p)'
      BY <1>1 DEF MigrationInv, ReleaseKept
    <2>2. PlanFollows(p)'
      <3>1. Run(p) = 0 /\ Run(p)' = 0 /\ Staged' = {}
        BY <1>1, <1>2 DEF Run, Staged
      <3>2. \A k : Shares(p, k) => Shares(p, k)'
        BY <1>5, StillShares
      <3> QED BY <1>1, <3>1, <3>2 DEF MigrationInv, PlanFollows, schema
    <2>3. Covered(p)'
      BY <1>1 DEF MigrationInv, Covered, Recorded, schema
    <2> QED BY <2>1, <2>2, <2>3 DEF ProcessFits
  <1> QED BY <1>1, <1>3, <1>4, <1>5, <1>6, <1>7, <1>8, OthersFit DEF MigrationInv, ProcessFits

LEMMA ApplyKeeps ==
    ASSUME MigrationInv, NEW p \in Process, ApplyMigration(p)
    PROVE  MigrationInv'
  <1>1. PICK e \in plan[p] :
            /\ IsNext(p, e)
            /\ e.sequence \notin DOMAIN applied
            /\ staged' = Append(staged, e)
            /\ plan' = [plan EXCEPT ![p] = @ \ {e}]
    BY DEF ApplyMigration
  <1>2. pc[p] = "apply" /\ UNCHANGED <<schema, writer, pc, release>>
    BY DEF ApplyMigration
  <1> DEFINE L == Len(executed)
  <1> DEFINE m == Len(staged)
  <1>3. L \in Nat /\ m \in Nat /\ staged \in Seq(Entry) /\ DOMAIN applied = 1 .. L
    BY DEF MigrationInv, TypeOK, SchemaMatchesLog
  <1>4. /\ plan[p] \subseteq Entry /\ e \in Entry /\ WellFormed(release[p])
        /\ plan[p] \subseteq Discovered(release[p])
        /\ Staged \subseteq Discovered(release[p])
    BY <1>2 DEF MigrationInv, TypeOK, ReleaseKept, PlanFollows
  <1>5. PICK k \in 0 .. L, n \in Nat :
            /\ k < n /\ Shares(p, k)
            /\ Sequences(plan[p]) = k + m + 1 .. n /\ (m > 0 => k = L)
    BY <1>2 DEF MigrationInv, PlanFollows, Run
  <1>6. e.sequence = k + m + 1
    <2>1. e.sequence \in k + m + 1 .. n
      BY <1>5 DEF Sequences
    <2>2. k + m + 1 \in k + m + 1 .. n
      BY <1>3, <1>5, <2>1
    <2>3. PICK f \in plan[p] : f.sequence = k + m + 1
      BY <1>5, <2>2 DEF Sequences
    <2>4. e.sequence <= k + m + 1
      BY <1>1, <2>3 DEF IsNext
    <2> QED BY <1>3, <1>5, <2>1, <2>4
  <1>7. k = L
    BY <1>1, <1>3, <1>5, <1>6
  <1>8. Sequences(plan'[p]) = k + (m + 1) + 1 .. n
    <2>1. plan'[p] = plan[p] \ {e}
      BY <1>1 DEF MigrationInv, TypeOK
    <2>2. \A f \in plan[p] : f.sequence = e.sequence => f = e
      BY <1>4 DEF WellFormed
    <2>3. Sequences(plan'[p]) = Sequences(plan[p]) \ {e.sequence}
      BY <2>1, <2>2 DEF Sequences
    <2>4. (k + m + 1 .. n) \ {k + m + 1} = k + (m + 1) + 1 .. n
      BY <1>3, <1>5
    <2> QED BY <1>5, <1>6, <2>3, <2>4
  <1>9. /\ staged' \in Seq(Entry) /\ Len(staged') = m + 1
        /\ \A i \in DOMAIN staged : staged'[i] = staged[i]
        /\ staged'[m + 1] = e /\ DOMAIN staged' = 1 .. m + 1 /\ DOMAIN staged = 1 .. m
    BY <1>1, <1>3, <1>4
  <1> HIDE DEF L, m
  <1>10. OnlyProcess(p)
    BY <1>1, <1>2 DEF OnlyProcess, MigrationInv, TypeOK
  <1>11. TypeOK'
    BY <1>2, <1>9, <1>10 DEF MigrationInv, TypeOK, OnlyProcess, schema
  <1>12. SchemaMatchesLog' /\ LogGrows
    BY <1>2, <1>3 DEF MigrationInv, SchemaMatchesLog, schema, LogGrows, L
  <1>13. TransactionFollows'
    <2>1. \A i \in DOMAIN staged' : staged'[i].sequence = Len(executed') + i
      <3> SUFFICES ASSUME NEW i \in 1 .. m + 1 PROVE staged'[i].sequence = L + i
        BY <1>2, <1>9 DEF schema, L
      <3>1. CASE i \in 1 .. m
        BY <1>9, <3>1 DEF MigrationInv, TransactionFollows, L
      <3>2. CASE i = m + 1
        BY <1>3, <1>6, <1>7, <1>9, <3>2
      <3> QED BY <1>3, <3>1, <3>2
    <2>2. writer' # NoProcess
      BY <1>2, MigrationAssumption DEF MigrationInv, TransactionFollows
    <2> QED BY <1>2, <2>1, <2>2 DEF MigrationInv, TransactionFollows
  <1>14. ProcessFits(p)'
    <2>1. ReleaseKept(p)'
      BY <1>2 DEF MigrationInv, ReleaseKept
    <2>2. PlanFollows(p)'
      <3>1. Run(p)' = m + 1
        BY <1>2, <1>9 DEF Run
      <3>2. plan'[p] \subseteq Discovered(release[p])
        BY <1>1, <1>4 DEF MigrationInv, TypeOK
      <3>3. k \in 0 .. Len(executed') /\ k = Len(executed')
        BY <1>2, <1>3, <1>7 DEF schema, L
      <3>4. Staged' \subseteq Staged \cup {e}
        BY <1>3, <1>9 DEF Staged
      <3>5. Shares(p, k)'
        BY <1>2, <1>5, <1>12, StillShares
      <3> QED BY <1>2, <1>4, <1>5, <1>8, <3>1, <3>2, <3>3, <3>4, <3>5 DEF PlanFollows
    <2>3. Covered(p)'
      <3>1. Staged \subseteq Staged' /\ e \in Staged'
        <4>1. m + 1 \in DOMAIN staged' /\ DOMAIN staged \subseteq DOMAIN staged'
          BY <1>3, <1>9
        <4> QED BY <1>9, <4>1 DEF Staged
      <3>2. plan'[p] = plan[p] \ {e}
        BY <1>1 DEF MigrationInv, TypeOK
      <3> QED BY <1>2, <3>1, <3>2 DEF MigrationInv, Covered, Recorded, schema
    <2> QED BY <2>1, <2>2, <2>3 DEF ProcessFits
  <1>15. \A q \in Process \ {p} : pc[q] # "apply"
    BY <1>2 DEF MigrationInv, TransactionFollows
  <1> QED BY <1>10, <1>11, <1>12, <1>13, <1>14, <1>15, OthersFit DEF MigrationInv, ProcessFits

LEMMA CommitKeeps ==
    ASSUME MigrationInv, NEW p \in Process, Commit(p)
    PROVE  MigrationInv' /\ LogGrows
  <1> DEFINE L == Len(executed)
  <1> DEFINE m == Len(staged)
  <1>1. pc[p] = "apply" /\ plan[p] = {} /\ writer' = NoProcess /\ staged' = <<>>
    BY DEF Commit
  <1>2. /\ L \in Nat /\ m \in Nat /\ executed \in Seq(Entry) /\ staged \in Seq(Entry)
        /\ DOMAIN applied = 1 .. L /\ DOMAIN executed = 1 .. L /\ DOMAIN staged = 1 .. m
    BY DEF MigrationInv, TypeOK, SchemaMatchesLog
  <1>3. \A i \in 1 .. m : staged[i].sequence = L + i /\ staged[i] \in Entry
    BY <1>2 DEF MigrationInv, TransactionFollows
  <1>4. {e.sequence : e \in Staged} = L + 1 .. L + m
    <2>1. \A i \in 1 .. m : L + i \in L + 1 .. L + m
      BY <1>2
    <2>2. \A s \in L + 1 .. L + m : s - L \in 1 .. m /\ s = L + (s - L)
      BY <1>2
    <2>3. Staged = {staged[i] : i \in 1 .. m}
      BY <1>2 DEF Staged
    <2> HIDE DEF L, m
    <2>4. \A s \in L + 1 .. L + m : \E e \in Staged : e.sequence = s
      BY <1>3, <2>2, <2>3
    <2> QED BY <1>3, <2>1, <2>3, <2>4
  <1>5. \A i \in 1 .. m : (CHOOSE e \in Staged : e.sequence = L + i) = staged[i]
    <2> SUFFICES ASSUME NEW i \in 1 .. m
                 PROVE  (CHOOSE e \in Staged : e.sequence = L + i) = staged[i]
      OBVIOUS
    <2>1. staged[i] \in Staged /\ staged[i].sequence = L + i
      BY <1>2, <1>3 DEF Staged
    <2>2. ASSUME NEW e \in Staged, e.sequence = L + i PROVE e = staged[i]
      <3>1. PICK j \in 1 .. m : e = staged[j]
        BY <1>2 DEF Staged
      <3>2. j = i
        BY <1>2, <1>3, <2>2, <3>1
      <3> QED BY <3>1, <3>2
    <2> HIDE DEF L, m
    <2> QED BY <2>1, <2>2
  <1>6. /\ executed' \in Seq(Entry) /\ Len(executed') = L + m
        /\ DOMAIN executed' = 1 .. L + m
        /\ \A s \in 1 .. L : executed'[s] = executed[s]
        /\ \A i \in 1 .. m : executed'[L + i] = staged[i]
    BY <1>2 DEF Commit
  <1>7. /\ DOMAIN applied' = 1 .. L + m
        /\ \A s \in 1 .. L : applied'[s] = applied[s]
        /\ \A i \in 1 .. m : applied'[L + i] = staged[i].version
    <2>1. applied' = [s \in DOMAIN applied \cup {e.sequence : e \in Staged} |->
                        IF s \in DOMAIN applied THEN applied[s]
                        ELSE (CHOOSE e \in Staged : e.sequence = s).version]
      BY DEF Commit
    <2>2. DOMAIN applied \cup {e.sequence : e \in Staged} = 1 .. L + m
      <3>1. (1 .. L) \cup (L + 1 .. L + m) = 1 .. L + m
        BY <1>2
      <3> QED BY <1>2, <1>4, <3>1
    <2>3. \A i \in 1 .. m : L + i \in 1 .. L + m /\ L + i \notin DOMAIN applied
      BY <1>2
    <2>4. 1 .. L \subseteq 1 .. L + m
      BY <1>2
    <2> HIDE DEF L, m
    <2>5. \A i \in 1 .. m : applied'[L + i] = (CHOOSE e \in Staged : e.sequence = L + i).version
      BY <2>1, <2>2, <2>3
    <2>6. \A s \in 1 .. L : applied'[s] = applied[s]
      BY <1>2, <2>1, <2>2, <2>4
    <2> QED BY <1>5, <2>1, <2>2, <2>5, <2>6
  <1>8. \A s \in 1 .. L + m : s \in 1 .. L \/ \E i \in 1 .. m : s = L + i
    <2>1. ASSUME NEW s \in 1 .. L + m, s \notin 1 .. L
          PROVE  s - L \in 1 .. m /\ s = L + (s - L)
      BY <1>2, <2>1
    <2> QED BY <2>1
  <1>9. LogGrows
    BY <1>2, <1>6, <1>7 DEF LogGrows
  <1>10. SchemaMatchesLog'
    <2>1. \A s \in 1 .. L : executed[s].sequence = s /\ executed[s].version = applied[s]
      BY <1>2 DEF MigrationInv, SchemaMatchesLog
    <2> HIDE DEF L, m
    <2>2. ASSUME NEW s \in 1 .. L + m
          PROVE  executed'[s].sequence = s /\ executed'[s].version = applied'[s]
      BY <1>3, <1>6, <1>7, <1>8, <2>1
    <2> QED BY <1>6, <1>7, <2>2 DEF SchemaMatchesLog
  <1> HIDE DEF L, m
  <1>11. OnlyProcess(p) /\ pc'[p] = "serving" /\ release'[p] = release[p]
    BY DEF Commit, OnlyProcess, MigrationInv, TypeOK, Pc
  <1>12. TypeOK'
    <2>1. DOMAIN applied' \subseteq Nat \ {0}
      BY <1>2, <1>7
    <2>2. \A s \in 1 .. L : applied[s] \in Version
      BY <1>2 DEF MigrationInv, TypeOK
    <2>3. \A i \in 1 .. m : staged[i].version \in Version
      BY <1>3 DEF Entry
    <2>4. \A s \in DOMAIN applied' : applied'[s] \in Version
      BY <1>7, <1>8, <2>2, <2>3
    <2>5. applied' \in [DOMAIN applied' -> Version]
      <3>1. applied' = [s \in DOMAIN applied' |-> applied'[s]]
        BY DEF Commit
      <3> QED BY <2>4, <3>1
    <2>6. /\ tracked' \in BOOLEAN
          /\ writer' \in Process \cup {NoProcess} /\ staged' \in Seq(Entry)
      BY <1>1 DEF Commit
    <2> QED BY <1>6, <1>11, <2>1, <2>5, <2>6 DEF TypeOK, OnlyProcess
  <1>13. \A q \in Process \ {p} : pc[q] # "apply"
    BY <1>1 DEF MigrationInv, TransactionFollows
  <1>14. TransactionFollows'
    BY <1>1, <1>11, <1>13, MigrationAssumption DEF TransactionFollows, OnlyProcess
  <1>15. ProcessFits(p)'
    <2>1. ReleaseKept(p)'
      BY <1>1, <1>11 DEF MigrationInv, ReleaseKept
    <2>2. PlanFollows(p)'
      BY <1>11 DEF PlanFollows
    <2>3. ASSUME NEW e \in Discovered(release[p]) PROVE Recorded(e)'
      <3>1. CASE Recorded(e)
        BY <1>9, <3>1 DEF Recorded, LogGrows
      <3>2. CASE e \in Staged
        <4>1. PICK i \in 1 .. m : e = staged[i]
          BY <1>2, <3>2 DEF Staged
        <4>2. L + i \in 1 .. L + m
          BY <1>2
        <4> QED BY <1>3, <1>7, <4>1, <4>2 DEF Recorded
      <3> QED BY <1>1, <3>1, <3>2 DEF MigrationInv, Covered
    <2> QED BY <1>11, <2>1, <2>2, <2>3 DEF ProcessFits, Covered
  <1> QED BY <1>9, <1>10, <1>11, <1>12, <1>13, <1>14, <1>15, OthersFit
          DEF MigrationInv, ProcessFits

\* A commit finds the log in its directory and leaves the directory in the log.
LEMMA CommitLists ==
    ASSUME MigrationInv, NEW p \in Process, Commit(p)
    PROVE  Log \subseteq Listed(release[p]) /\ Log' = Listed(release[p])
  <1>1. pc[p] = "apply" /\ plan[p] = {} /\ pc'[p] = "serving" /\ release' = release
    BY DEF Commit, MigrationInv, TypeOK
  <1>2. MigrationInv' /\ LogGrows
    BY CommitKeeps
  <1>3. Len(executed) \in Nat /\ DOMAIN applied = 1 .. Len(executed)
    BY DEF MigrationInv, TypeOK, SchemaMatchesLog
  <1>4. Shares(p, Len(executed))
    <2>1. PICK k \in 0 .. Len(executed), n \in Nat :
            /\ k < n /\ Shares(p, k)
            /\ Sequences(plan[p]) = k + Run(p) + 1 .. n
            /\ Run(p) > 0 => k = Len(executed)
      BY <1>1 DEF MigrationInv, PlanFollows
    <2>2. Run(p) \in Nat
      BY DEF Run, MigrationInv, TypeOK
    <2>3. n \notin k + Run(p) + 1 .. n
      BY <1>1, <2>1 DEF Sequences
    <2>4. Run(p) > 0
      BY <1>3, <2>1, <2>2, <2>3
    <2> QED BY <2>1, <2>4
  <1>5. \A s \in DOMAIN applied : \E e \in Discovered(release[p]) :
            e.sequence = s /\ applied[s] = e.version
    BY <1>3, <1>4 DEF Shares, Recorded
  <1>6. Log \subseteq Listed(release[p])
    BY <1>5 DEF Log, Listed
  <1>7. Listed(release[p]) \subseteq Log'
    <2>1. \A e \in Discovered(release[p]) :
            e.sequence \in DOMAIN applied' /\ applied'[e.sequence] = e.version
      BY <1>1, <1>2 DEF MigrationInv, Covered, Recorded
    <2> QED BY <2>1 DEF Log, Listed
  <1>8. Log' \subseteq Listed(release[p])
    <2>1. ASSUME NEW s \in DOMAIN applied'
          PROVE  <<s, applied'[s]>> \in Listed(release[p])
      <3>1. CASE s \in DOMAIN applied
        BY <1>2, <1>5, <3>1 DEF LogGrows, Listed
      <3>2. CASE s \notin DOMAIN applied
        <4>1. /\ s \in {e.sequence : e \in Staged}
              /\ applied'[s] = (CHOOSE e \in Staged : e.sequence = s).version
          BY <3>2 DEF Commit
        <4>2. Staged \subseteq Discovered(release[p])
          BY <1>1 DEF MigrationInv, PlanFollows
        <4> QED BY <4>1, <4>2 DEF Listed
      <3> QED BY <3>1, <3>2
    <2> QED BY <2>1 DEF Log
  <1> QED BY <1>6, <1>7, <1>8

LEMMA EndKeeps ==
    ASSUME MigrationInv, NEW p \in Process, Fail(p) \/ Exit(p)
    PROVE  MigrationInv'
  <1>1. OnlyProcess(p) /\ pc'[p] \in {"failed", "down"} /\ UNCHANGED schema
    BY DEF Fail, Exit, OnlyProcess, MigrationInv, TypeOK, Pc
  <1>2. release'[p] \in Releases \cup {{}} /\ ProcessFits(p)'
    BY <1>1 DEF OnlyProcess, ProcessFits, ReleaseKept, PlanFollows, Covered
  <1>3. LogGrows
    BY <1>1 DEF LogGrows, schema, MigrationInv, TypeOK
  <1>4. CASE writer = p
    <2>1. writer' = NoProcess /\ staged' = <<>> /\ staged' \in Seq(Entry)
      <3>1. Rollback(p)
        BY DEF Fail, Exit
      <3>2. writer' = NoProcess /\ staged' = <<>>
        BY <1>4, <3>1 DEF Rollback
      <3> QED BY <3>2
    <2>2. \A q \in Process : pc[q] = "apply" => q = p
      BY <1>4 DEF MigrationInv, TransactionFollows
    <2>3. TypeOK' /\ SchemaMatchesLog'
      BY <1>1, <2>1 DEF MigrationInv, TypeOK, SchemaMatchesLog, OnlyProcess, schema
    <2>4. \A q \in Process : pc'[q] # "apply"
      BY <1>1, <2>2 DEF OnlyProcess
    <2>5. TransactionFollows'
      BY <2>1, <2>4, MigrationAssumption DEF TransactionFollows
    <2> QED BY <1>1, <1>2, <1>3, <2>2, <2>3, <2>5, OthersFit DEF MigrationInv, ProcessFits
  <1>5. CASE writer # p
    <2>1. UNCHANGED transaction
      BY <1>5 DEF Fail, Exit, Rollback
    <2>2. pc[p] # "apply"
      BY <1>5 DEF MigrationInv, TransactionFollows
    <2> QED BY <1>1, <1>2, <2>1, <2>2, QuietStep
  <1> QED BY <1>4, <1>5

LEMMA InitialInv == Init => MigrationInv
  <1> SUFFICES ASSUME Init PROVE MigrationInv
    OBVIOUS
  <1>1. TypeOK
    <2>1. applied = [s \in {} |-> 0]
      BY DEF Init
    <2>2. DOMAIN applied \subseteq Nat \ {0} /\ applied \in [DOMAIN applied -> Version]
      BY <2>1
    <2>3. executed = <<>> /\ staged = <<>> /\ writer = NoProcess /\ tracked \in BOOLEAN
      BY DEF Init
    <2>4. executed \in Seq(Entry) /\ staged \in Seq(Entry)
      BY <2>3
    <2>5. /\ pc \in [Process -> Pc] /\ release \in [Process -> Releases \cup {{}}]
          /\ plan \in [Process -> SUBSET Entry]
      BY DEF Init, Pc
    <2> QED BY <2>2, <2>3, <2>4, <2>5 DEF TypeOK
  <1>2. SchemaMatchesLog
    BY DEF Init, SchemaMatchesLog
  <1>3. TransactionFollows
    BY MigrationAssumption DEF Init, TransactionFollows
  <1>4. ASSUME NEW p \in Process PROVE ProcessFits(p)
    BY DEF Init, ProcessFits, ReleaseKept, PlanFollows, Covered
  <1> QED BY <1>1, <1>2, <1>3, <1>4 DEF MigrationInv, ProcessFits

LEMMA NextKeeps ==
    ASSUME MigrationInv, [Next]_vars
    PROVE  MigrationInv'
  <1>1. CASE UNCHANGED vars
    BY <1>1 DEF vars, schema, transaction, MigrationInv, TypeOK, SchemaMatchesLog,
        TransactionFollows, ReleaseKept, PlanFollows, Covered, Recorded, Shares, Run, Staged
  <1> QED BY <1>1, BootKeeps, ValidateKeeps, BeginKeeps, ApplyKeeps, CommitKeeps, EndKeeps
          DEF Next

LEMMA InvHolds == Spec => []MigrationInv
  BY InitialInv, NextKeeps, PTL DEF Spec

-----------------------------------------------------------------------------
(* Theorems *)

\* Rows, plans and the transaction are well-formed.
THEOREM MigrationsTyped == Spec => []TypeOK
  <1>1. MigrationInv => TypeOK
    BY DEF MigrationInv
  <1> QED BY <1>1, InvHolds, PTL

\* Every recorded migration was run exactly once, in order, and nothing else was,
\* however stale the plans are (ApplyPlan).
THEOREM SchemaMatches == Spec => []SchemaMatchesLog
  <1>1. MigrationInv => SchemaMatchesLog
    BY DEF MigrationInv
  <1> QED BY <1>1, InvHolds, PTL

\* A process that serves has the migrations of its release in the versions of its
\* files (Validate, ApplyPlan).
THEOREM ServingCurrent == Spec => []ServingIsCurrent
  <1>1. MigrationInv => ServingIsCurrent
    BY DEF MigrationInv, Covered, Recorded, ServingIsCurrent
  <1> QED BY <1>1, InvHolds, PTL

\* For a serving process the readiness check succeeds exactly when the database
\* has the migrations of its release and no later ones (checkMigrations).
THEOREM ReadinessExact == Spec => []ReadinessIsExact
  <1>1. MigrationInv => ReadinessIsExact
    <2> SUFFICES ASSUME MigrationInv, NEW p \in Process, pc[p] = "serving"
                 PROVE  HealthOk(p) <=> DOMAIN applied = Sequences(Discovered(release[p]))
      BY DEF ReadinessIsExact, Sequences
    <2>1. WellFormed(release[p])
      BY DEF MigrationInv, ReleaseKept
    <2>2. \A e \in Discovered(release[p]) : Recorded(e)
      BY DEF MigrationInv, Covered
    <2>3. \E n \in 0 .. Cardinality(DOMAIN applied) : DOMAIN applied = 1 .. n
      <3>1. Len(executed) \in Nat /\ DOMAIN applied = 1 .. Len(executed)
        BY DEF MigrationInv, TypeOK, SchemaMatchesLog
      <3>2. Cardinality(1 .. Len(executed)) = Len(executed)
        BY <3>1, FS_Interval
      <3> QED BY <3>1, <3>2
    <2>4. HealthOk(p) => DOMAIN applied = Sequences(Discovered(release[p]))
      BY <2>2 DEF HealthOk, Valid, Recorded, Sequences
    <2>5. DOMAIN applied = Sequences(Discovered(release[p])) => HealthOk(p)
      BY <2>1, <2>2, <2>3 DEF HealthOk, Valid, Recorded, Sequences
    <2> QED BY <2>4, <2>5
  <1> QED BY <1>1, InvHolds, PTL

\* The log moves only from what a release lists to all that it lists, so a release
\* that edited, lost or branched off a recorded migration adds nothing, even if it
\* was planned before that record (validateMigrations, ApplyPlan).
THEOREM SuccessorsMigrate == Spec => OnlySuccessorsMigrate
  <1>1. MigrationInv /\ [Next]_vars =>
            [applied' # applied => \E p \in Process :
                /\ writer = p
                /\ Log \subseteq Listed(release[p])
                /\ Log' = Listed(release[p])]_vars
    <2> SUFFICES ASSUME MigrationInv, Next, applied' # applied
                 PROVE  \E p \in Process :
                            /\ writer = p
                            /\ Log \subseteq Listed(release[p])
                            /\ Log' = Listed(release[p])
      OBVIOUS
    <2>1. PICK p \in Process : Commit(p)
      BY DEF Next, Boot, Probe, Load, Begin, ApplyMigration, Fail, Exit, schema
    <2>2. writer = p
      BY <2>1 DEF Commit, MigrationInv, TransactionFollows
    <2> QED BY <2>1, <2>2, CommitLists
  <1> QED BY <1>1, InvHolds, PTL DEF Spec, OnlySuccessorsMigrate
=============================================================================
