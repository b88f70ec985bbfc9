----------------------------- MODULE Migrations -----------------------------
(***************************************************************************)
(* core/db/migrate over one database: processes of several releases, each  *)
(* with its own directory of migration files, validate the directory        *)
(* against the tracking table and apply what is pending in one transaction. *)
(* Validation reads outside the transaction, so a plan can be stale when it *)
(* is applied; SQLite admits one writer, and a transaction that fails or    *)
(* whose process dies leaves nothing.                                       *)
(***************************************************************************)
EXTENDS Integers, Sequences, FiniteSets

CONSTANTS
    Process,        \* processes that share the database
    Version,        \* what a migration is: its file name and its checksum
    Releases,       \* the directories of the releases, sets of entries
    NoProcess       \* nobody holds the write lock

\* A directory entry.  Its sequence is that of its name, 0 if the name is not
\* NNNN_slug.sql with a positive number.
Entry == [kind : {"file", "dotfile", "directory"}, sequence : Nat, version : Version]

ASSUME MigrationAssumption ==
    /\ NoProcess \notin Process
    /\ \A release \in Releases : release \subseteq Entry /\ IsFiniteSet(release)

VARIABLES
    tracked,        \* schema_migrations exists
    applied,        \* its rows: sequence |-> version
    executed,       \* history: the migrations whose SQL is in the schema
    writer,         \* the process whose transaction holds the write lock
    staged,         \* migrations run in that transaction so far
    pc,             \* of a process: down, probe, load, begin, apply, serving, failed
    release,        \* the directory of a process
    plan            \* pending entries of its plan that have not been run

schema == <<tracked, applied, executed>>
transaction == <<writer, staged>>
vars == <<schema, transaction, pc, release, plan>>

-----------------------------------------------------------------------------
(* Validation *)

\* readMigrationFiles skips dotfiles.
Discovered(directory) == {e \in directory : e.kind # "dotfile"}

\* Mutant: the sequences may start anywhere.
WellFormedFromAny(directory) ==
    \A e, f \in Discovered(directory) :
        e.kind = "file" /\ (e.sequence = f.sequence => e = f)

\* Names parse, sequences are unique and without holes from 1 on.
WellFormed(directory) ==
    LET found == Discovered(directory) IN
    /\ \A e \in found : e.kind = "file" /\ e.sequence > 0
    /\ \A e, f \in found : e.sequence = f.sequence => e = f
    /\ {e.sequence : e \in found} = 1 .. Cardinality(found)

\* Mutant: the checksum of an applied migration is not compared.
ValidIgnoringVersion(directory, known) ==
    /\ \E n \in 0 .. Cardinality(DOMAIN known) : DOMAIN known = 1 .. n
    /\ \A s \in DOMAIN known : \E e \in Discovered(directory) : e.sequence = s

\* Mutant: applied migrations without a file are ignored.
ValidIgnoringMissing(directory, known) ==
    \A e \in Discovered(directory) :
        e.sequence \in DOMAIN known => known[e.sequence] = e.version

\* validateMigrations: applied migrations have no hole and each of them is
\* still a file of the directory, with the same name and checksum.
Valid(directory, known) ==
    /\ \E n \in 0 .. Cardinality(DOMAIN known) : DOMAIN known = 1 .. n
    /\ \A s \in DOMAIN known : \E e \in Discovered(directory) :
            e.sequence = s /\ e.version = known[s]

Pending(directory, known) ==
    {e \in Discovered(directory) : e.sequence \notin DOMAIN known}

\* checkMigrations of the readiness endpoint: Validate succeeds.
HealthOk(p) == WellFormed(release[p]) /\ Valid(release[p], applied)

-----------------------------------------------------------------------------
(* A process *)

Init ==
    /\ tracked = FALSE
    /\ applied = [s \in {} |-> 0]
    /\ executed = <<>>
    /\ writer = NoProcess
    /\ staged = <<>>
    /\ pc = [p \in Process |-> "down"]
    /\ release = [p \in Process |-> {}]
    /\ plan = [p \in Process |-> {}]

Boot(p) ==
    /\ pc[p] = "down"
    /\ \E r \in Releases :
        /\ release' = [release EXCEPT ![p] = r]
        /\ pc' = [pc EXCEPT ![p] = IF WellFormed(r) THEN "probe" ELSE "failed"]
    /\ UNCHANGED <<schema, transaction, plan>>

\* The rest of Validate, given what it has read of the tracking table.
Decide(p, known) ==
    LET pending == Pending(release[p], known) IN
    IF ~Valid(release[p], known)
    THEN pc' = [pc EXCEPT ![p] = "failed"] /\ UNCHANGED plan
    ELSE /\ pc' = [pc EXCEPT ![p] = IF pending = {} THEN "serving" ELSE "begin"]
         /\ plan' = [plan EXCEPT ![p] = pending]

\* trackingTableExists; without the table nothing is applied.
Probe(p) ==
    /\ pc[p] = "probe"
    /\ IF tracked
       THEN pc' = [pc EXCEPT ![p] = "load"] /\ UNCHANGED plan
       ELSE Decide(p, [s \in {} |-> 0])
    /\ UNCHANGED <<schema, transaction, release>>

\* loadAppliedMigrations and validateMigrations.
Load(p) ==
    /\ pc[p] = "load"
    /\ Decide(p, applied)
    /\ UNCHANGED <<schema, transaction, release>>

Begin(p) ==
    /\ pc[p] = "begin"
    /\ writer = NoProcess
    /\ writer' = p
    /\ staged' = <<>>
    /\ pc' = [pc EXCEPT ![p] = "apply"]
    /\ UNCHANGED <<schema, release, plan>>

\* The entry of the plan that is next in order.
IsNext(p, e) ==
    /\ e \in plan[p]
    /\ \A f \in plan[p] : e.sequence <= f.sequence

\* Mutant: a migration that is recorded already is run again.
ApplyMigrationAgain(p) ==
    /\ pc[p] = "apply"
    /\ \E e \in plan[p] :
        /\ IsNext(p, e)
        /\ staged' = Append(staged, e)
        /\ plan' = [plan EXCEPT ![p] = @ \ {e}]
    /\ UNCHANGED <<schema, writer, pc, release>>

\* Mutant: a migration that is recorded by now is skipped, as INSERT OR IGNORE
\* or a second look at the tracking table would do.
ApplyMigrationSkippingRecorded(p) ==
    /\ pc[p] = "apply"
    /\ \E e \in plan[p] :
        /\ IsNext(p, e)
        /\ staged' = IF e.sequence \in DOMAIN applied THEN staged ELSE Append(staged, e)
        /\ plan' = [plan EXCEPT ![p] = @ \ {e}]
    /\ UNCHANGED <<schema, writer, pc, release>>

\* applyMigration: run the SQL and record it; the primary key of the tracking
\* table refuses a sequence that is recorded already.
ApplyMigration(p) ==
    /\ pc[p] = "apply"
    /\ \E e \in plan[p] :
        /\ IsNext(p, e)
        /\ e.sequence \notin DOMAIN applied
        /\ staged' = Append(staged, e)
        /\ plan' = [plan EXCEPT ![p] = @ \ {e}]
    /\ UNCHANGED <<schema, writer, pc, release>>

Staged == {staged[i] : i \in DOMAIN staged}

Commit(p) ==
    /\ pc[p] = "apply"
    /\ plan[p] = {}
    /\ tracked' = TRUE
    /\ applied' = [s \in DOMAIN applied \cup {e.sequence : e \in Staged} |->
                        IF s \in DOMAIN applied THEN applied[s]
                        ELSE (CHOOSE e \in Staged : e.sequence = s).version]
    /\ executed' = executed \o staged
    /\ writer' = NoProcess
    /\ staged' = <<>>
    /\ pc' = [pc EXCEPT ![p] = "serving"]
    /\ UNCHANGED <<release, plan>>

\* The transaction of p, if it has one, is rolled back.
Rollback(p) ==
    IF writer = p THEN writer' = NoProcess /\ staged' = <<>> ELSE UNCHANGED transaction

\* A statement fails (the SQL of a migration, a busy database, a recorded
\* sequence) and Initialize returns the error.
Fail(p) ==
    /\ pc[p] \in {"probe", "load", "begin", "apply"}
    /\ pc' = [pc EXCEPT ![p] = "failed"]
    /\ Rollback(p)
    /\ UNCHANGED <<schema, release, plan>>

\* The process ends or is killed.
Exit(p) ==
    /\ pc[p] # "down"
    /\ pc' = [pc EXCEPT ![p] = "down"]
    /\ release' = [release EXCEPT ![p] = {}]
    /\ plan' = [plan EXCEPT ![p] = {}]
    /\ Rollback(p)
    /\ UNCHANGED schema

Next ==
    \E p \in Process :
        \/ Boot(p) \/ Probe(p) \/ Load(p)
        \/ Begin(p) \/ ApplyMigration(p) \/ Commit(p)
        \/ Fail(p) \/ Exit(p)

Spec == Init /\ [][Next]_vars

-----------------------------------------------------------------------------
(* Properties *)

Pc == {"down", "probe", "load", "begin", "apply", "serving", "failed"}

\* Rows have positive sequences and versions; the transaction and the plans hold
\* files of a release.
TypeOK ==
    /\ tracked \in BOOLEAN
    /\ DOMAIN applied \subseteq Nat \ {0}
    /\ applied \in [DOMAIN applied -> Version]
    /\ executed \in Seq(Entry)
    /\ writer \in Process \cup {NoProcess}
    /\ staged \in Seq(Entry)
    /\ pc \in [Process -> Pc]
    /\ release \in [Process -> Releases \cup {{}}]
    /\ plan \in [Process -> SUBSET Entry]

\* The schema is what the tracking table says: every recorded migration was run
\* exactly once, in order, and nothing else was, however processes with stale
\* plans race and whatever crashes or fails in the middle (ApplyPlan).
SchemaMatchesLog ==
    /\ DOMAIN applied = 1 .. Len(executed)
    /\ \A s \in DOMAIN executed :
        executed[s].sequence = s /\ executed[s].version = applied[s]

\* A process that serves has all the migrations of its release in the database,
\* in the very versions of its files, also while other releases come and go.
ServingIsCurrent ==
    \A p \in Process : pc[p] = "serving" =>
        \A e \in Discovered(release[p]) :
            e.sequence \in DOMAIN applied /\ applied[e.sequence] = e.version

\* The readiness check ignores how many migrations are pending, and is right
\* to: for a serving process it succeeds exactly when the database has the
\* migrations of the release and no later ones (checkMigrations).
ReadinessIsExact ==
    \A p \in Process : pc[p] = "serving" =>
        (HealthOk(p) <=> DOMAIN applied = {e.sequence : e \in Discovered(release[p])})

\* The rows of the tracking table, and those that a directory asks for.
Log == {<<s, applied[s]>> : s \in DOMAIN applied}
Listed(directory) == {<<e.sequence, e.version>> : e \in Discovered(directory)}

\* The log moves only from what a release lists to all that it lists: a release
\* that has edited, lost or branched off a migration recorded by the time of the
\* commit adds nothing, even if its plan is older than that record, and what it
\* adds is never a part of the release (validateMigrations, ApplyPlan).
OnlySuccessorsMigrate ==
    [][applied' # applied => \E p \in Process :
            /\ writer = p
            /\ Log \subseteq Listed(release[p])
            /\ Log' = Listed(release[p])]_vars
=============================================================================
