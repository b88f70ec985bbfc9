------------------------------ MODULE Backups ------------------------------
(***************************************************************************)
(* app/jobs/backup: the directory of backups, which the daily and the      *)
(* weekly job fill and prune by age and the cleanup job prunes by count.   *)
(* Each job is one goroutine of the process and runs one call at a time;   *)
(* the three interleave, fail at any operation of the file system and are  *)
(* cut off when the process crashes.  All start with the process and at    *)
(* the ticks of their intervals; here a job may start at any moment at     *)
(* which it is not running, which covers every sequence of restarts and    *)
(* late ticks.                                                             *)
(***************************************************************************)
EXTENDS Integers, FiniteSets, Sequences, Functions, Tables

CONSTANTS
    Databases,      \* those a backup snapshots, in order: <<"app", "worker">>
    Suffixes,       \* in the order of the cleanup: <<"daily", "weekly">>
    Period,         \* days between the backups of a suffix
    Retained,       \* maxRetainedPerSuffix
    TicksPerDay,    \* of the clock
    MaxRun,         \* bound: a call of Run takes fewer ticks than this
    MaxTime,        \* bound: the last tick of the clock
    MaxCrashes,     \* bound
    MaxInterrupted  \* bound: partial files of a suffix that fail to be removed

Suffix == Range(Suffixes)

ASSUME BackupsAssumption ==
    /\ Databases \in Seq(STRING) /\ Suffixes \in Seq(STRING)
    /\ Period \in [Suffix -> Nat \ {0}]
    /\ {Retained, TicksPerDay, MaxRun} \subseteq Nat \ {0}
    /\ {MaxTime, MaxCrashes, MaxInterrupted} \subseteq Nat
    /\ "stray" \notin Suffix

MaxAge(s) == (Retained + 1) * Period[s] * TicksPerDay

\* A Run takes less than the retention, which is days.
ASSUME RunAssumption == \A s \in Suffix : MaxRun + TicksPerDay <= MaxAge(s)

VARIABLES
    clock,          \* time.Now() in UTC; the ticks of a day start at midnight
    dir,            \* backupDir: the files by name, each whole or partial
    temp,           \* the snapshots in the directory of temporary files
    run,            \* the call of Run in progress for each suffix
    cleanup,        \* the call of Cleanup in progress
    crashes,        \* crashes of the process so far
    interrupted,    \* partial files of each suffix left by a crash or by a
                    \* failing removal so far
    unpruned        \* suffixes of which an expired backup was not removed

history == <<interrupted, unpruned>>
vars == <<clock, dir, temp, run, cleanup, crashes, history>>

Day(time) == time \div TicksPerDay

\* backup_YYYYMMDD_<suffix>.zip.
Backup(s, day) == [suffix |-> s, day |-> day]

\* A file whose name is not that of a backup.
Stray == [suffix |-> "stray", day |-> 0]

FileName == [suffix : Suffix, day : 0 .. Day(MaxTime)] \cup {Stray}

\* The files in the directory that backupFilenamePattern matches with the
\* suffix.
BackupsOf(s) == {f \in DOMAIN dir : f.suffix = s}

Partial(s) == {f \in DOMAIN dir : f.suffix = s /\ dir[f] = "partial"}

Whole(s) == {f \in DOMAIN dir : f.suffix = s /\ dir[f] = "whole"}

\* The time a backup's name stands for is the midnight its day starts with.
BackupDate(f) == f.day * TicksPerDay

Snapshot(s, db) == [of |-> s, database |-> db, boot |-> crashes]

Idle == [at |-> "idle"]

Init ==
    /\ clock = 0
    /\ dir = EmptyTable
    /\ temp = {}
    /\ run = [s \in Suffix |-> Idle]
    /\ cleanup = Idle
    /\ crashes = 0
    /\ interrupted = [s \in Suffix |-> 0]
    /\ unpruned = {}

-----------------------------------------------------------------------------
(* Run and createBackup *)

Running(s, at) == run[s].at = at

\* The deferred removals of the snapshots when createBackup returns.
DropSnapshots(s) == temp' = {t \in temp : t.of # s \/ t.boot # crashes}

\* Mutant: the name of the backup has the time of the day.
BeginByTime(s) ==
    /\ run[s] = Idle
    /\ run' = [run EXCEPT ![s] = [at |-> "snapshot", began |-> clock, taken |-> 0,
                                  name |-> Backup(s, clock), expired |-> {}]]
    /\ UNCHANGED <<clock, dir, temp, cleanup, crashes, history>>

\* createBackup reads the time, which names the backup.
Begin(s) ==
    /\ run[s] = Idle
    /\ run' = [run EXCEPT ![s] = [at |-> "snapshot", began |-> clock, taken |-> 0,
                                  name |-> Backup(s, Day(clock)), expired |-> {}]]
    /\ UNCHANGED <<clock, dir, temp, cleanup, crashes, history>>

\* The next database to snapshot: the temporary file is created.
OpenSnapshot(s) ==
    /\ Running(s, "snapshot")
    /\ run[s].taken < Len(Databases)
    /\ run' = [run EXCEPT ![s].at = "copying"]
    /\ temp' = temp \cup {Snapshot(s, Databases[run[s].taken + 1])}
    /\ UNCHANGED <<clock, dir, cleanup, crashes, history>>

\* sqlite.BackupTo copies the database.
CopyDatabase(s) ==
    /\ Running(s, "copying")
    /\ run' = [run EXCEPT ![s] = [@ EXCEPT !.at = "snapshot",
                                          !.taken = run[s].taken + 1]]
    /\ UNCHANGED <<clock, dir, temp, cleanup, crashes, history>>

\* Mutant: the file of the failing snapshot is removed, the earlier is not.
SnapshotFailsUndeferred(s) ==
    /\ run[s].at \in {"snapshot", "copying"}
    /\ temp' = IF Running(s, "copying")
               THEN temp \ {Snapshot(s, Databases[run[s].taken + 1])} ELSE temp
    /\ run' = [run EXCEPT ![s] = Idle]
    /\ UNCHANGED <<clock, dir, cleanup, crashes, history>>

\* Creating the temporary file, copying a database or creating the zip file
\* fails; snapshotDatabase and the deferred calls remove the snapshots.
SnapshotFails(s) ==
    /\ run[s].at \in {"snapshot", "copying"}
    /\ DropSnapshots(s)
    /\ run' = [run EXCEPT ![s] = Idle]
    /\ UNCHANGED <<clock, dir, cleanup, crashes, history>>

\* os.Create truncates a backup of the same day.
CreateZip(s) ==
    /\ Running(s, "snapshot")
    /\ run[s].taken = Len(Databases)
    /\ dir' = Insert(dir, run[s].name, "partial")
    /\ run' = [run EXCEPT ![s].at = "writing"]
    /\ UNCHANGED <<clock, temp, cleanup, crashes, history>>

\* The snapshots and the data directory are archived and the file is closed. A
\* file that was unlinked meanwhile does not come back.
WriteZip(s) ==
    /\ Running(s, "writing")
    /\ dir' = [f \in DOMAIN dir |-> IF f = run[s].name THEN "whole" ELSE dir[f]]
    /\ DropSnapshots(s)
    /\ run' = [run EXCEPT ![s].at = "created"]
    /\ UNCHANGED <<clock, cleanup, crashes, history>>

\* Mutant: the file that could not be written stays.
WriteFailsLeaving(s) ==
    /\ Running(s, "writing")
    /\ DropSnapshots(s)
    /\ run' = [run EXCEPT ![s] = Idle]
    /\ UNCHANGED <<clock, dir, cleanup, crashes, history>>

\* Writing or closing fails and the file is removed.
WriteFails(s) ==
    /\ Running(s, "writing")
    /\ dir' = Delete(dir, run[s].name)
    /\ DropSnapshots(s)
    /\ run' = [run EXCEPT ![s] = Idle]
    /\ UNCHANGED <<clock, cleanup, crashes, history>>

\* As WriteFails, and the removal fails as well.
WriteAndRemoveFail(s) ==
    /\ Running(s, "writing")
    /\ run[s].name \in DOMAIN dir
    /\ interrupted[s] < MaxInterrupted
    /\ DropSnapshots(s)
    /\ run' = [run EXCEPT ![s] = Idle]
    /\ interrupted' = [interrupted EXCEPT ![s] = @ + 1]
    /\ UNCHANGED <<clock, dir, cleanup, crashes, unpruned>>

-----------------------------------------------------------------------------
(* pruneByDate *)

\* Mutant: the backups are pruned also when no new one could be created.
ListExpiredAnyhow(s) ==
    /\ Running(s, "created") \/ Running(s, "snapshot")
    /\ run' = [run EXCEPT ![s] = [@ EXCEPT !.at = "pruning",
            !.expired = {f \in BackupsOf(s) : BackupDate(f) < clock - MaxAge(s)}]]
    /\ DropSnapshots(s)
    /\ UNCHANGED <<clock, dir, cleanup, crashes, history>>

\* The cutoff is computed and the directory read.
ListExpired(s) ==
    /\ Running(s, "created")
    /\ run' = [run EXCEPT ![s] = [@ EXCEPT !.at = "pruning",
            !.expired = {f \in BackupsOf(s) : BackupDate(f) < clock - MaxAge(s)}]]
    /\ UNCHANGED <<clock, dir, temp, cleanup, crashes, history>>

Oldest(files) == {f \in files : \A g \in files : f.day <= g.day}

\* The next expired backup, in the order of their names: it is removed, or the
\* removal fails and the loop goes on.
RemoveExpired(s) ==
    /\ Running(s, "pruning")
    /\ \E f \in Oldest(run[s].expired) :
       /\ run' = [run EXCEPT ![s].expired = @ \ {f}]
       /\ dir' \in {dir, Delete(dir, f)}
       /\ unpruned' = IF f \in DOMAIN dir' THEN unpruned \cup {s} ELSE unpruned
    /\ UNCHANGED <<clock, temp, cleanup, crashes, interrupted>>

\* Run returns: nothing is left to prune, or the directory could not be read.
RunReturns(s) ==
    /\ Running(s, "created") \/ (Running(s, "pruning") /\ run[s].expired = {})
    /\ run' = [run EXCEPT ![s] = Idle]
    /\ UNCHANGED <<clock, dir, temp, cleanup, crashes, history>>

Run(s) ==
    \/ Begin(s) \/ OpenSnapshot(s) \/ CopyDatabase(s) \/ SnapshotFails(s)
    \/ CreateZip(s) \/ WriteZip(s) \/ WriteFails(s) \/ WriteAndRemoveFail(s)
    \/ ListExpired(s) \/ RemoveExpired(s) \/ RunReturns(s)

-----------------------------------------------------------------------------
(* Cleanup *)

\* deleteStrayFiles lists the files that are no backups.
ListStrays ==
    /\ cleanup = Idle
    /\ cleanup' = [at |-> "strays", todo |-> Suffixes,
                   doomed |-> {f \in DOMAIN dir : f.suffix \notin Suffix}]
    /\ UNCHANGED <<clock, dir, temp, run, crashes, history>>

\* Mutant: the newest of the listed backups are in excess.
ExcessNewest(s) ==
    {f \in BackupsOf(s) :
        Cardinality({g \in BackupsOf(s) : g.day < f.day}) >= Retained}

\* pruneByCount: of the backups sorted oldest first, all but the last Retained.
Excess(s) ==
    {f \in BackupsOf(s) :
        Cardinality({g \in BackupsOf(s) : g.day > f.day}) >= Retained}

\* pruneByCount lists the backups of the next suffix.
ListExcess ==
    /\ cleanup # Idle
    /\ cleanup.doomed = {}
    /\ cleanup.todo # <<>>
    /\ cleanup' = [at |-> "excess", todo |-> Tail(cleanup.todo),
                   doomed |-> Excess(Head(cleanup.todo))]
    /\ UNCHANGED <<clock, dir, temp, run, crashes, history>>

\* The next file of the list, the oldest first: it is removed, or the removal
\* fails (it may be gone already) and the loop goes on.
RemoveDoomed ==
    /\ cleanup # Idle
    /\ \E f \in Oldest(cleanup.doomed) :
       /\ cleanup' = [cleanup EXCEPT !.doomed = @ \ {f}]
       /\ dir' \in {dir, Delete(dir, f)}
    /\ UNCHANGED <<clock, temp, run, crashes, history>>

\* Cleanup returns: all is pruned, or the directory could not be read.
CleanupReturns ==
    /\ cleanup # Idle
    /\ cleanup.doomed = {}
    /\ cleanup' = Idle
    /\ UNCHANGED <<clock, dir, temp, run, crashes, history>>

Cleanup == ListStrays \/ ListExcess \/ RemoveDoomed \/ CleanupReturns

-----------------------------------------------------------------------------
(* The environment *)

\* Somebody puts a file into the directory.
DropStray ==
    /\ Stray \notin DOMAIN dir
    /\ dir' = Insert(dir, Stray, "whole")
    /\ UNCHANGED <<clock, temp, run, cleanup, crashes, history>>

Tick ==
    /\ clock < MaxTime
    /\ \A s \in Suffix : run[s] # Idle => clock + 1 < run[s].began + MaxRun
    /\ clock' = clock + 1
    /\ UNCHANGED <<dir, temp, run, cleanup, crashes, history>>

\* The process crashes, and with it all calls; it is started again.
Crash ==
    /\ crashes < MaxCrashes
    /\ crashes' = crashes + 1
    /\ interrupted' = [s \in Suffix |->
            interrupted[s] + IF Running(s, "writing") THEN 1 ELSE 0]
    /\ run' = [s \in Suffix |-> Idle]
    /\ cleanup' = Idle
    /\ UNCHANGED <<clock, dir, temp, unpruned>>

Next ==
    \/ \E s \in Suffix : Run(s)
    \/ Cleanup \/ DropStray \/ Tick \/ Crash

Spec == Init /\ [][Next]_vars

-----------------------------------------------------------------------------
(* Properties *)

BackupsTypeOK ==
    /\ clock \in 0 .. MaxTime
    /\ IsTable(dir, FileName, {"partial", "whole"})
    /\ temp \subseteq [of : Suffix, database : Range(Databases), boot : 0 .. crashes]
    /\ run \in [Suffix -> {Idle} \cup
            [at : {"snapshot", "copying", "writing", "created", "pruning"},
             began : 0 .. clock, taken : 0 .. Len(Databases),
             name : FileName, expired : SUBSET FileName]]
    /\ \/ cleanup = Idle
       \/ cleanup \in [at : {"strays", "excess"}, todo : Seq(Suffix),
                       doomed : SUBSET FileName]
    /\ crashes \in 0 .. MaxCrashes
    /\ interrupted \in [Suffix -> Nat]
    /\ unpruned \subseteq Suffix

\* Snapshots do not pile up: on every path out of createBackup the snapshots it
\* took are removed, so that the temporary files of this process are those of
\* calls that are still copying or archiving.
SnapshotsRemoved ==
    \A t \in temp :
        t.boot = crashes => run[t.of].at \in {"snapshot", "copying", "writing"}

\* Neither the cleanup, whose list may be old, nor the pruning by age unlinks
\* the file that a Run is writing, and the backup that Run reports as created
\* is there, whole, when it returns.
WrittenBackupStands ==
    \A s \in Suffix :
        /\ Running(s, "writing") => run[s].name \in Partial(s)
        /\ run[s].at \in {"created", "pruning"} => run[s].name \in Whole(s)

\* A partial file is one being written or one that was left by a crash or by a
\* failing removal; a Run that fails leaves none. Partial files pass for backups
\* in the retention by count, so this bounds how far they displace good ones.
PartialsAccounted ==
    \A s \in Suffix :
        Cardinality({f \in Partial(s) : ~ (Running(s, "writing") /\ run[s].name = f)})
            <= interrupted[s]

\* The last whole backup of a suffix is never pruned, neither by age, which comes
\* after a successful backup only, nor by a cleanup that read the directory
\* earlier, unless as many as Retained - 1 backups were interrupted, whose remains
\* the cleanup counts. A Run on the day of that backup does truncate it. (A
\* backup that could not be removed when it expired may be the last.)
LastGoodIsSpared ==
    [][\A s \in Suffix \ unpruned :
        (Whole(s) # {} /\ Whole(s)' = {}) =>
            \/ interrupted[s] >= Retained - 1
            \/ Running(s, "writing")' /\ Whole(s) = {run[s].name}]_vars
=============================================================================
