--------------------------- MODULE BackupsProofs ---------------------------
(***************************************************************************)
(* Theorems about the backup jobs, for any databases, suffixes, periods,   *)
(* retention and bounds.                                                   *)
(***************************************************************************)
EXTENDS Backups, FiniteSetTheorems, TLAPS

-----------------------------------------------------------------------------
(* The inductive invariant *)

Stage == {"snapshot", "copying", "writing", "created", "pruning"}

\* The record of a call of Run in progress.
Call == [at : Stage, began : 0 .. clock, taken : 0 .. Len(Databases),
         name : FileName, expired : SUBSET FileName]

\* A call names its backup after the day it began on, and is not long past it.
NameIsOfBegin ==
    \A s \in Suffix : run[s] # Idle =>
        /\ run[s].name = Backup(s, Day(run[s].began))
        /\ clock < run[s].began + MaxRun

\* No backup is newer than today, nor than the one its suffix is making.
NothingNewer ==
    \A f \in DOMAIN dir : f.suffix \in Suffix =>
        /\ f.day <= Day(clock)
        /\ run[f.suffix] # Idle => f.day <= run[f.suffix].name.day

\* What the cleanup is about to remove is older than that.
DoomedIsOlder ==
    cleanup # Idle =>
        \A f \in cleanup.doomed : f.suffix \in Suffix =>
            /\ f.day < Day(clock)
            /\ run[f.suffix] # Idle => f.day < run[f.suffix].name.day

\* Pruning by age never lists the new backup.
ExpiredIsOther ==
    \A s \in Suffix : run[s] # Idle =>
        \A f \in run[s].expired : f.suffix = s /\ f # run[s].name

\* The snapshot that is being copied is of one of the databases.
CopyHasDatabase ==
    \A s \in Suffix : Running(s, "copying") => run[s].taken < Len(Databases)

Inv ==
    /\ BackupsTypeOK /\ SnapshotsRemoved
    /\ NameIsOfBegin /\ NothingNewer /\ DoomedIsOlder /\ ExpiredIsOther
    /\ WrittenBackupStands /\ CopyHasDatabase

-----------------------------------------------------------------------------
(* Lemmas about days and files *)

\* A time lies in the day it is divided into.
LEMMA Quotient ==
    ASSUME NEW a \in Nat, NEW t \in Nat \ {0}
    PROVE  /\ a \div t \in Nat
           /\ (a \div t) * t <= a
           /\ a < (a \div t) * t + t
  OBVIOUS

\* Days follow each other.
LEMMA DayMonotone ==
    ASSUME NEW a \in Nat, NEW b \in Nat, a <= b
    PROVE  Day(a) \in Nat /\ Day(b) \in Nat /\ Day(a) <= Day(b)
  <1> DEFINE p == a \div TicksPerDay
             q == b \div TicksPerDay
             t == TicksPerDay
  <1>1. t \in Nat \ {0}
    BY BackupsAssumption
  <1>2. p \in Nat /\ q \in Nat /\ p * t <= a /\ b < q * t + t
    BY <1>1, Quotient
  <1> HIDE DEF p, q, t
  <1>3. p * t < (q + 1) * t
    BY <1>1, <1>2
  <1>4. p < q + 1
    BY <1>1, <1>2, <1>3
  <1> QED BY <1>2, <1>4 DEF p, q, t, Day

\* An insertion adds its key and keeps every other file.
LEMMA InsertFile ==
    ASSUME NEW f, NEW v
    PROVE  /\ DOMAIN Insert(dir, f, v) = DOMAIN dir \cup {f}
           /\ Insert(dir, f, v)[f] = v
           /\ \A g \in DOMAIN dir \ {f} : Insert(dir, f, v)[g] = dir[g]
  BY DEF Insert

\* A removal takes its key away and keeps every other file.
LEMMA DeleteFile ==
    ASSUME NEW f
    PROVE  /\ DOMAIN Delete(dir, f) = DOMAIN dir \ {f}
           /\ \A g \in DOMAIN dir \ {f} : Delete(dir, f)[g] = dir[g]
  BY DEF Delete

\* The other files stay.
Spared(x) == \A f \in DOMAIN dir : f # x => f \in DOMAIN dir' /\ dir'[f] = dir[f]

\* Deleting a file, or failing to, leaves the others.
LEMMA OthersStay ==
    ASSUME NEW x, dir' \in {dir, Delete(dir, x)}
    PROVE  /\ DOMAIN dir' \subseteq DOMAIN dir
           /\ Spared(x)
  <1> USE DEF Spared
  <1>1. CASE dir' = dir
    BY <1>1
  <1>2. CASE dir' = Delete(dir, x)
    <2>1. DOMAIN dir' = DOMAIN dir \ {x} /\ \A g \in DOMAIN dir \ {x} : dir'[g] = dir[g]
      BY <1>2, DeleteFile
    <2> QED BY <2>1
  <1> QED BY <1>1, <1>2

\* Tables of files stay so.
LEMMA FilesTyped ==
    ASSUME NEW K, NEW R, IsTable(dir, K, R), NEW f \in K, NEW v \in R
    PROVE  IsTable(Insert(dir, f, v), K, R) /\ IsTable(Delete(dir, f), K, R)
  BY DEF IsTable, Insert, Delete

\* Of the backups in excess each has a newer one beside it.
LEMMA ExcessHasNewer ==
    ASSUME NEW s, NEW f \in Excess(s)
    PROVE  f \in BackupsOf(s) /\ \E g \in BackupsOf(s) : g.day > f.day
  <1> DEFINE newer == {g \in BackupsOf(s) : g.day > f.day}
  <1>1. f \in BackupsOf(s) /\ Cardinality(newer) >= Retained
    BY DEF Excess
  <1>2. Retained \in Nat \ {0}
    BY BackupsAssumption
  <1> HIDE DEF newer
  <1>3. newer # {}
    BY <1>1, <1>2, FS_EmptySet
  <1> QED BY <1>1, <1>3 DEF newer

\* What a file name tells.
LEMMA Names ==
    /\ \A f \in FileName : f.day \in Nat
    /\ Stray.suffix \notin Suffix
  <1>1. Day(MaxTime) \in Nat
    BY BackupsAssumption, Quotient DEF Day
  <1> QED BY <1>1, BackupsAssumption DEF FileName, Stray

\* The backup of a day within the bounds has a name.
LEMMA BackupNamed ==
    ASSUME NEW s \in Suffix, NEW t \in 0 .. MaxTime
    PROVE  Backup(s, Day(t)) \in FileName
  <1>1. Day(t) \in 0 .. Day(MaxTime)
    BY DayMonotone, BackupsAssumption
  <1> QED BY <1>1 DEF Backup, FileName

-----------------------------------------------------------------------------
(* The initial states *)

LEMMA InitInv == Init => Inv
  <1> SUFFICES ASSUME Init PROVE Inv
    OBVIOUS
  <1>1. BackupsTypeOK
    BY BackupsAssumption DEF Init, BackupsTypeOK, IsTable, EmptyTable
  <1>2. /\ SnapshotsRemoved /\ NameIsOfBegin /\ NothingNewer /\ DoomedIsOlder
        /\ ExpiredIsOther /\ WrittenBackupStands /\ CopyHasDatabase
    BY DEF Init, CopyHasDatabase, SnapshotsRemoved, NameIsOfBegin, NothingNewer, DoomedIsOlder,
           ExpiredIsOther, WrittenBackupStands, Idle, Running, EmptyTable
  <1> QED BY <1>1, <1>2 DEF Inv

\* A call in progress has a record and the name of a backup of its suffix.
LEMMA CallTyped ==
    ASSUME Inv, NEW s \in Suffix, run[s] # Idle
    PROVE  run[s] \in Call /\ run[s].name \in FileName /\ run[s].name.suffix = s
  <1>1. run[s] \in Call
    BY DEF Inv, BackupsTypeOK, Call, Stage
  <1>2. run[s].name.suffix = s
    <2>1. run[s].name = Backup(s, Day(run[s].began))
      BY DEF Inv, NameIsOfBegin
    <2> QED BY <2>1 DEF Backup
  <1> QED BY <1>1, <1>2 DEF Call

\* The types are kept by a step that changes the call of one suffix only.
LEMMA StepTyped ==
    ASSUME Inv, NEW s \in Suffix, NEW c \in {Idle} \cup Call,
           run' = [run EXCEPT ![s] = c],
           UNCHANGED <<clock, cleanup, crashes>>,
           IsTable(dir', FileName, {"partial", "whole"}),
           temp' \subseteq [of : Suffix, database : Range(Databases), boot : 0 .. crashes],
           interrupted' \in [Suffix -> Nat], unpruned' \subseteq Suffix
    PROVE  BackupsTypeOK'
  <1>1. run' \in [Suffix -> {Idle} \cup Call]
    BY DEF Inv, BackupsTypeOK, Call, Stage
  <1> QED BY <1>1 DEF Inv, BackupsTypeOK, Call, Stage

\* The calls that are copying are so still, or have a database left to copy.
LEMMA StepCopies ==
    ASSUME Inv, NEW s \in Suffix, NEW c, run' = [run EXCEPT ![s] = c],
           c.at = "copying" => c.taken < Len(Databases)
    PROVE  CopyHasDatabase'
  <1>1. \A u \in Suffix : run'[u] = IF u = s THEN c ELSE run[u]
    BY DEF Inv, BackupsTypeOK
  <1> QED BY <1>1 DEF Inv, CopyHasDatabase, Running

\* A step that does not list anew expires no new backup.
LEMMA StepExpires ==
    ASSUME Inv, NEW s \in Suffix, NEW c, run' = [run EXCEPT ![s] = c], run[s] # Idle,
           c.name = run[s].name, c.expired \subseteq run[s].expired
    PROVE  ExpiredIsOther'
  <1>1. \A u \in Suffix : run'[u] = IF u = s THEN c ELSE run[u]
    BY DEF Inv, BackupsTypeOK
  <1> QED BY <1>1 DEF Inv, ExpiredIsOther

\* A call that is not long past its beginning does not find its backup expired.
LEMMA NewNotExpired ==
    ASSUME Inv, NEW s \in Suffix, run[s] # Idle
    PROVE  ~ (BackupDate(run[s].name) < clock - MaxAge(s))
  <1> DEFINE b == run[s].began
             d == Day(b)
             t == TicksPerDay
  <1>1. b \in Nat /\ clock \in Nat /\ t \in Nat \ {0} /\ MaxRun \in Nat
    BY CallTyped, BackupsAssumption DEF Inv, BackupsTypeOK, Call
  <1>2. d \in Nat /\ b < d * t + t
    <2>1. d = b \div t
      BY DEF Day
    <2> HIDE DEF b, d, t
    <2> QED BY <1>1, <2>1, Quotient
  <1>3. run[s].name.day = d /\ clock < b + MaxRun
    <2>1. run[s].name = Backup(s, d) /\ clock < b + MaxRun
      BY DEF Inv, NameIsOfBegin
    <2> QED BY <2>1 DEF Backup
  <1>4. MaxAge(s) \in Int /\ MaxRun + t <= MaxAge(s)
    <2>1. Period[s] \in Nat /\ Retained \in Nat
      BY BackupsAssumption
    <2>2. (Retained + 1) * Period[s] \in Nat
      BY <2>1
    <2>3. (Retained + 1) * Period[s] * t \in Nat
      BY <2>2, <1>1
    <2> QED BY <2>3, RunAssumption DEF MaxAge
  <1>5. BackupDate(run[s].name) = d * t
    BY <1>3 DEF BackupDate
  <1> HIDE DEF b, d, t
  <1>6. d * t \in Nat
    BY <1>1, <1>2
  <1> QED BY <1>1, <1>2, <1>3, <1>4, <1>5, <1>6

-----------------------------------------------------------------------------
(* The steps of Run *)

\* A call begins, named after today.
LEMMA BeginInv ==
    ASSUME Inv, NEW s \in Suffix, Begin(s)
    PROVE  Inv'
  <1>1. BackupsTypeOK'
    BY BackupNamed DEF Inv, Begin, BackupsTypeOK, Idle, history
  <1>2. SnapshotsRemoved'
    BY DEF Inv, Begin, SnapshotsRemoved, BackupsTypeOK, Idle, history
  <1>3. NameIsOfBegin'
    BY BackupsAssumption, SMTT(20) DEF Inv, Begin, NameIsOfBegin, BackupsTypeOK, Idle,
       history
  <1>4. NothingNewer'
    BY DEF Inv, Begin, NothingNewer, BackupsTypeOK, Idle, history, Backup
  <1>5. DoomedIsOlder'
    BY DEF Inv, Begin, DoomedIsOlder, BackupsTypeOK, Idle, history, Backup
  <1>6. ExpiredIsOther'
    BY DEF Inv, Begin, ExpiredIsOther, BackupsTypeOK, Idle, history
  <1>7. WrittenBackupStands'
    BY DEF Inv, Begin, WrittenBackupStands, BackupsTypeOK, Idle, history,
       Running, Partial, Whole
  <1>8. CopyHasDatabase'
    BY CallTyped, BackupsAssumption DEF Inv, Begin, BackupsTypeOK, CopyHasDatabase, Running, Idle, Call,
       Oldest
  <1> QED BY <1>1, <1>2, <1>3, <1>4, <1>5, <1>6, <1>7, <1>8 DEF Inv

\* A temporary file is created.
LEMMA OpenSnapshotInv ==
    ASSUME Inv, NEW s \in Suffix, OpenSnapshot(s)
    PROVE  Inv'
  <1>1. BackupsTypeOK'
    <2>1. run[s] # Idle /\ run[s] \in Call
      BY CallTyped DEF OpenSnapshot, Running, Idle
    <2>2. Databases[run[s].taken + 1] \in Range(Databases)
      BY <2>1, BackupsAssumption DEF OpenSnapshot, Call, Range
    <2>3. temp' \subseteq [of : Suffix, database : Range(Databases), boot : 0 .. crashes]
      BY <2>2 DEF Inv, BackupsTypeOK, OpenSnapshot, Snapshot
    <2>4. [run[s] EXCEPT !.at = "copying"] \in Call
      BY <2>1 DEF Call, Stage
    <2> QED BY <2>3, <2>4, StepTyped DEF Inv, BackupsTypeOK, OpenSnapshot, history
  <1>2. SnapshotsRemoved'
    BY DEF Inv, OpenSnapshot, SnapshotsRemoved, BackupsTypeOK, Idle, Running,
       history, Snapshot
  <1>3. NameIsOfBegin'
    BY DEF Inv, OpenSnapshot, NameIsOfBegin, BackupsTypeOK, Idle, Running,
       history
  <1>4. NothingNewer'
    BY DEF Inv, OpenSnapshot, NothingNewer, BackupsTypeOK, Idle, Running,
       history
  <1>5. DoomedIsOlder'
    BY DEF Inv, OpenSnapshot, DoomedIsOlder, BackupsTypeOK, Idle, Running,
       history
  <1>6. ExpiredIsOther'
    <2>1. run[s] # Idle /\ run[s] \in Call
      BY CallTyped DEF OpenSnapshot, Running, Idle
    <2> DEFINE c == [run[s] EXCEPT !.at = "copying"]
    <2>2. c.name = run[s].name /\ c.expired = run[s].expired
      BY <2>1 DEF Call
    <2>3. run' = [run EXCEPT ![s] = c]
      BY DEF OpenSnapshot
    <2> QED BY <2>1, <2>2, <2>3, StepExpires
  <1>7. WrittenBackupStands'
    BY DEF Inv, OpenSnapshot, WrittenBackupStands, BackupsTypeOK, Idle,
       Running, history, Partial, Whole
  <1>8. CopyHasDatabase'
    BY CallTyped, BackupsAssumption DEF Inv, OpenSnapshot, BackupsTypeOK, CopyHasDatabase, Running, Idle, Call,
       Oldest
  <1> QED BY <1>1, <1>2, <1>3, <1>4, <1>5, <1>6, <1>7, <1>8 DEF Inv

\* A snapshot is complete.
LEMMA CopyDatabaseInv ==
    ASSUME Inv, NEW s \in Suffix, CopyDatabase(s)
    PROVE  Inv'
  <1>1. BackupsTypeOK'
    <2>1. run[s] # Idle /\ run[s] \in Call /\ run[s].name \in FileName
      BY CallTyped DEF CopyDatabase, Running, Idle
    <2> DEFINE c == [run[s] EXCEPT !.at = "snapshot", !.taken = run[s].taken + 1]
    <2>2. c \in {Idle} \cup Call
      <3>1. run[s].taken < Len(Databases) /\ Len(Databases) \in Nat
        BY BackupsAssumption DEF Inv, CopyHasDatabase, CopyDatabase
      <3>2. run[s].taken + 1 \in 0 .. Len(Databases)
        BY <2>1, <3>1 DEF Call
      <3> QED BY <2>1, <3>2 DEF Call, Stage
    <2>3. IsTable(dir', FileName, {"partial", "whole"})
      BY DEF Inv, BackupsTypeOK, CopyDatabase
    <2>4. run' = [run EXCEPT ![s] = c]
      BY DEF CopyDatabase
    <2> HIDE DEF c
    <2> QED BY <2>2, <2>3, <2>4, StepTyped DEF Inv, BackupsTypeOK, CopyDatabase, history
  <1>2. SnapshotsRemoved'
    BY DEF Inv, CopyDatabase, SnapshotsRemoved, BackupsTypeOK, Idle, Running,
       history
  <1>3. NameIsOfBegin'
    BY DEF Inv, CopyDatabase, NameIsOfBegin, BackupsTypeOK, Idle, Running,
       history
  <1>4. NothingNewer'
    BY DEF Inv, CopyDatabase, NothingNewer, BackupsTypeOK, Idle, Running,
       history
  <1>5. DoomedIsOlder'
    BY DEF Inv, CopyDatabase, DoomedIsOlder, BackupsTypeOK, Idle, Running,
       history
  <1>6. ExpiredIsOther'
    BY DEF Inv, CopyDatabase, ExpiredIsOther, BackupsTypeOK, Idle, Running,
       history
  <1>7. WrittenBackupStands'
    BY DEF Inv, CopyDatabase, WrittenBackupStands, BackupsTypeOK, Idle,
       Running, history, Partial, Whole
  <1>8. CopyHasDatabase'
    BY CallTyped, BackupsAssumption DEF Inv, CopyDatabase, BackupsTypeOK, CopyHasDatabase, Running, Idle, Call,
       Oldest
  <1> QED BY <1>1, <1>2, <1>3, <1>4, <1>5, <1>6, <1>7, <1>8 DEF Inv

\* A snapshot fails.
LEMMA SnapshotFailsInv ==
    ASSUME Inv, NEW s \in Suffix, SnapshotFails(s)
    PROVE  Inv'
  <1>1. BackupsTypeOK'
    BY DEF Inv, SnapshotFails, BackupsTypeOK, Idle, Running, history,
       DropSnapshots
  <1>2. SnapshotsRemoved'
    BY DEF Inv, SnapshotFails, SnapshotsRemoved, BackupsTypeOK, Idle, Running,
       history, DropSnapshots
  <1>3. NameIsOfBegin'
    BY DEF Inv, SnapshotFails, NameIsOfBegin, BackupsTypeOK, Idle, Running,
       history, DropSnapshots
  <1>4. NothingNewer'
    BY DEF Inv, SnapshotFails, NothingNewer, BackupsTypeOK, Idle, Running,
       history, DropSnapshots
  <1>5. DoomedIsOlder'
    BY DEF Inv, SnapshotFails, DoomedIsOlder, BackupsTypeOK, Idle, Running,
       history, DropSnapshots
  <1>6. ExpiredIsOther'
    BY DEF Inv, SnapshotFails, ExpiredIsOther, BackupsTypeOK, Idle, Running,
       history, DropSnapshots
  <1>7. WrittenBackupStands'
    BY DEF Inv, SnapshotFails, WrittenBackupStands, BackupsTypeOK, Idle,
       Running, history, DropSnapshots, Partial, Whole
  <1>8. CopyHasDatabase'
    BY CallTyped, BackupsAssumption DEF Inv, SnapshotFails, BackupsTypeOK, CopyHasDatabase, Running, Idle, Call,
       Oldest
  <1> QED BY <1>1, <1>2, <1>3, <1>4, <1>5, <1>6, <1>7, <1>8 DEF Inv

\* The zip file is created, or a backup of the day truncated.
LEMMA CreateZipInv ==
    ASSUME Inv, NEW s \in Suffix, CreateZip(s)
    PROVE  Inv'
  <1>1. BackupsTypeOK'
    <2>1. run[s] # Idle /\ run[s] \in Call /\ run[s].name \in FileName
      BY CallTyped DEF CreateZip, Running, Idle
    <2> DEFINE c == [run[s] EXCEPT !.at = "writing"]
    <2>2. c \in {Idle} \cup Call
      BY <2>1 DEF CreateZip, Call, Stage, Running
    <2>3. IsTable(dir', FileName, {"partial", "whole"})
      BY <2>1, FilesTyped DEF Inv, BackupsTypeOK, CreateZip
    <2> QED BY <2>2, <2>3, StepTyped DEF Inv, BackupsTypeOK, CreateZip, DropSnapshots, history
  <1>2. SnapshotsRemoved'
    BY DEF Inv, CreateZip, SnapshotsRemoved, BackupsTypeOK, Idle, Running,
       history
  <1>3. NameIsOfBegin'
    BY DEF Inv, CreateZip, NameIsOfBegin, BackupsTypeOK, Idle, Running, history
  <1>4. NothingNewer'
    <2>1. run[s] # Idle /\ run[s] \in Call /\ run[s].name = Backup(s, Day(run[s].began))
      BY CallTyped DEF Inv, NameIsOfBegin, CreateZip, Running, Idle
    <2>2. run[s].name.day <= Day(clock) /\ run[s].name.day \in Nat
      <3>1. run[s].began \in Nat /\ clock \in Nat /\ run[s].began <= clock
        BY <2>1 DEF Inv, BackupsTypeOK, Call
      <3>2. run[s].name.day = Day(run[s].began)
        BY <2>1 DEF Backup
      <3> QED BY <3>1, <3>2, DayMonotone
    <2>3. DOMAIN dir' = DOMAIN dir \cup {run[s].name}
      BY InsertFile DEF CreateZip
    <2> QED BY <2>1, <2>2, <2>3 DEF Inv, NothingNewer, BackupsTypeOK, CreateZip, Idle,
               Running, Backup, history
  <1>5. DoomedIsOlder'
    BY DEF Inv, CreateZip, DoomedIsOlder, BackupsTypeOK, Idle, Running, history
  <1>6. ExpiredIsOther'
    <2>1. run[s] # Idle /\ run[s] \in Call
      BY CallTyped DEF CreateZip, Running, Idle
    <2> DEFINE c == [run[s] EXCEPT !.at = "writing"]
    <2>2. c.name = run[s].name /\ c.expired = run[s].expired
      BY <2>1 DEF Call
    <2>3. run' = [run EXCEPT ![s] = c]
      BY DEF CreateZip
    <2> QED BY <2>1, <2>2, <2>3, StepExpires
  <1>7. WrittenBackupStands'
    <2>1. \A u \in Suffix : run[u] # Idle => run[u].name.suffix = u
      BY CallTyped
    <2>2. run[s] # Idle /\ run[s].name.suffix = s
      BY CallTyped DEF CreateZip, Running, Idle
    <2>3. /\ run[s].name \in DOMAIN dir' /\ dir'[run[s].name] = "partial"
          /\ \A f \in DOMAIN dir : f # run[s].name => f \in DOMAIN dir' /\ dir'[f] = dir[f]
      <3>1. dir' = Insert(dir, run[s].name, "partial")
        BY DEF CreateZip
      <3>2. DOMAIN dir' = DOMAIN dir \cup {run[s].name}
        BY <3>1, InsertFile
      <3>3. \A f \in DOMAIN dir' :
               dir'[f] = IF f = run[s].name THEN "partial" ELSE dir[f]
        BY <3>1 DEF Insert
      <3> QED BY <3>2, <3>3
    <2>4. run'[s].at = "writing" /\ run'[s].name = run[s].name
      BY <2>2, CallTyped DEF CreateZip, Inv, BackupsTypeOK, Call, Idle
    <2>5. \A u \in Suffix \ {s} : run'[u] = run[u]
      BY DEF CreateZip, Inv, BackupsTypeOK
    <2>6. \A u \in Suffix : run[u].at # "idle" => run[u] # Idle
      BY DEF Idle
    <2>7. \A u \in Suffix \ {s} :
            (Running(u, "writing") => run[u].name \in Partial(u))' /\
            (run[u].at \in {"created", "pruning"} => run[u].name \in Whole(u))'
      BY <2>1, <2>2, <2>3, <2>5, <2>6 DEF Inv, WrittenBackupStands, Running, Partial, Whole
    <2>8. (Running(s, "writing") => run[s].name \in Partial(s))' /\
          (run[s].at \in {"created", "pruning"} => run[s].name \in Whole(s))'
      BY <2>2, <2>3, <2>4 DEF Running, Partial, Whole
    <2> QED BY <2>7, <2>8 DEF WrittenBackupStands
  <1>8. CopyHasDatabase'
    BY CallTyped, BackupsAssumption DEF Inv, CreateZip, BackupsTypeOK, CopyHasDatabase, Running, Idle, Call,
       Oldest
  <1> QED BY <1>1, <1>2, <1>3, <1>4, <1>5, <1>6, <1>7, <1>8 DEF Inv

\* The backup is complete.
LEMMA WriteZipInv ==
    ASSUME Inv, NEW s \in Suffix, WriteZip(s)
    PROVE  Inv'
  <1>1. BackupsTypeOK'
    <2>1. run[s] # Idle /\ run[s] \in Call /\ run[s].name \in FileName
      BY CallTyped DEF WriteZip, Running, Idle
    <2> DEFINE c == [run[s] EXCEPT !.at = "created"]
    <2>2. c \in {Idle} \cup Call
      BY <2>1 DEF WriteZip, Call, Stage, Running
    <2>3. IsTable(dir', FileName, {"partial", "whole"})
      BY <2>1 DEF Inv, BackupsTypeOK, IsTable, WriteZip
    <2> QED BY <2>2, <2>3, StepTyped DEF Inv, BackupsTypeOK, WriteZip, DropSnapshots, history
  <1>2. SnapshotsRemoved'
    BY DEF Inv, WriteZip, SnapshotsRemoved, BackupsTypeOK, Idle, Running,
       history, DropSnapshots
  <1>3. NameIsOfBegin'
    BY DEF Inv, WriteZip, NameIsOfBegin, BackupsTypeOK, Idle, Running, history,
       DropSnapshots
  <1>4. NothingNewer'
    BY DEF Inv, WriteZip, NothingNewer, BackupsTypeOK, Idle, Running, history,
       DropSnapshots
  <1>5. DoomedIsOlder'
    BY DEF Inv, WriteZip, DoomedIsOlder, BackupsTypeOK, Idle, Running, history,
       DropSnapshots
  <1>6. ExpiredIsOther'
    <2>1. run[s] # Idle /\ run[s] \in Call
      BY CallTyped DEF WriteZip, Running, Idle
    <2> DEFINE c == [run[s] EXCEPT !.at = "created"]
    <2>2. c.name = run[s].name /\ c.expired = run[s].expired
      BY <2>1 DEF Call
    <2>3. run' = [run EXCEPT ![s] = c]
      BY DEF WriteZip
    <2> QED BY <2>1, <2>2, <2>3, StepExpires
  <1>7. WrittenBackupStands'
    <2>1. \A u \in Suffix : run[u] # Idle => run[u].name.suffix = u
      BY CallTyped
    <2>2. run[s] # Idle /\ run[s].name.suffix = s
      BY CallTyped DEF WriteZip, Running, Idle
    <2>3. /\ run[s].name \in DOMAIN dir'
          /\ dir'[run[s].name] = "whole"
          /\ \A f \in DOMAIN dir : f # run[s].name => f \in DOMAIN dir' /\ dir'[f] = dir[f]
      BY DEF WriteZip, Inv, WrittenBackupStands, Running, Partial
    <2>4. run'[s].at = "created" /\ run'[s].name = run[s].name
      BY <2>2, CallTyped DEF WriteZip, Inv, BackupsTypeOK, Call, Idle
    <2>5. \A u \in Suffix \ {s} : run'[u] = run[u]
      BY DEF WriteZip, Inv, BackupsTypeOK
    <2>6. \A u \in Suffix : run[u].at # "idle" => run[u] # Idle
      BY DEF Idle
    <2>7. \A u \in Suffix \ {s} :
            (Running(u, "writing") => run[u].name \in Partial(u))' /\
            (run[u].at \in {"created", "pruning"} => run[u].name \in Whole(u))'
      BY <2>1, <2>2, <2>3, <2>5, <2>6 DEF Inv, WrittenBackupStands, Running, Partial, Whole
    <2>8. (Running(s, "writing") => run[s].name \in Partial(s))' /\
          (run[s].at \in {"created", "pruning"} => run[s].name \in Whole(s))'
      BY <2>2, <2>3, <2>4 DEF Running, Partial, Whole
    <2> QED BY <2>7, <2>8 DEF WrittenBackupStands
  <1>8. CopyHasDatabase'
    BY CallTyped, BackupsAssumption DEF Inv, WriteZip, BackupsTypeOK, CopyHasDatabase, Running, Idle, Call,
       Oldest
  <1> QED BY <1>1, <1>2, <1>3, <1>4, <1>5, <1>6, <1>7, <1>8 DEF Inv

\* Writing fails and the file is removed.
LEMMA WriteFailsInv ==
    ASSUME Inv, NEW s \in Suffix, WriteFails(s)
    PROVE  Inv'
  <1>1. BackupsTypeOK'
    <2>1. run[s] # Idle /\ run[s] \in Call /\ run[s].name \in FileName
      BY CallTyped DEF WriteFails, Running, Idle
    <2>2. IsTable(dir', FileName, {"partial", "whole"})
      BY <2>1, FilesTyped DEF Inv, BackupsTypeOK, WriteFails
    <2> QED BY <2>1, <2>2 DEF Inv, BackupsTypeOK, WriteFails, DropSnapshots, history, Idle
  <1>2. SnapshotsRemoved'
    BY DEF Inv, WriteFails, SnapshotsRemoved, BackupsTypeOK, Idle, Running,
       history, DropSnapshots
  <1>3. NameIsOfBegin'
    BY DEF Inv, WriteFails, NameIsOfBegin, BackupsTypeOK, Idle, Running,
       history, DropSnapshots
  <1>4. NothingNewer'
    <2>1. DOMAIN dir' \subseteq DOMAIN dir
      BY DeleteFile DEF WriteFails
    <2> QED BY <2>1 DEF Inv, NothingNewer, BackupsTypeOK, WriteFails, Idle, Running, history
  <1>5. DoomedIsOlder'
    BY DEF Inv, WriteFails, DoomedIsOlder, BackupsTypeOK, Idle, Running,
       history, DropSnapshots
  <1>6. ExpiredIsOther'
    BY DEF Inv, WriteFails, ExpiredIsOther, BackupsTypeOK, Idle, Running,
       history, DropSnapshots
  <1>7. WrittenBackupStands'
    <2>1. \A u \in Suffix : run[u] # Idle => run[u].name.suffix = u
      BY CallTyped
    <2>2. run[s] # Idle /\ run[s].name.suffix = s
      BY CallTyped DEF WriteFails, Running, Idle
    <2>3. \A f \in DOMAIN dir : f # run[s].name => f \in DOMAIN dir' /\ dir'[f] = dir[f]
      BY DeleteFile DEF WriteFails
    <2>4. run'[s].at = "idle"
      BY <2>2, CallTyped DEF WriteFails, Inv, BackupsTypeOK, Call, Idle
    <2>5. \A u \in Suffix \ {s} : run'[u] = run[u]
      BY DEF WriteFails, Inv, BackupsTypeOK
    <2>6. \A u \in Suffix : run[u].at # "idle" => run[u] # Idle
      BY DEF Idle
    <2>7. \A u \in Suffix \ {s} :
            (Running(u, "writing") => run[u].name \in Partial(u))' /\
            (run[u].at \in {"created", "pruning"} => run[u].name \in Whole(u))'
      BY <2>1, <2>2, <2>3, <2>5, <2>6 DEF Inv, WrittenBackupStands, Running, Partial, Whole
    <2>8. (Running(s, "writing") => run[s].name \in Partial(s))' /\
          (run[s].at \in {"created", "pruning"} => run[s].name \in Whole(s))'
      BY <2>2, <2>3, <2>4 DEF Running, Partial, Whole
    <2> QED BY <2>7, <2>8 DEF WrittenBackupStands
  <1>8. CopyHasDatabase'
    BY CallTyped, BackupsAssumption DEF Inv, WriteFails, BackupsTypeOK, CopyHasDatabase, Running, Idle, Call,
       Oldest
  <1> QED BY <1>1, <1>2, <1>3, <1>4, <1>5, <1>6, <1>7, <1>8 DEF Inv

\* Writing and removing fail.
LEMMA WriteAndRemoveFailInv ==
    ASSUME Inv, NEW s \in Suffix, WriteAndRemoveFail(s)
    PROVE  Inv'
  <1>1. BackupsTypeOK'
    BY DEF Inv, WriteAndRemoveFail, BackupsTypeOK, Idle, Running, history,
       DropSnapshots
  <1>2. SnapshotsRemoved'
    BY DEF Inv, WriteAndRemoveFail, SnapshotsRemoved, BackupsTypeOK, Idle,
       Running, history, DropSnapshots
  <1>3. NameIsOfBegin'
    BY DEF Inv, WriteAndRemoveFail, NameIsOfBegin, BackupsTypeOK, Idle,
       Running, history, DropSnapshots
  <1>4. NothingNewer'
    BY DEF Inv, WriteAndRemoveFail, NothingNewer, BackupsTypeOK, Idle, Running,
       history, DropSnapshots
  <1>5. DoomedIsOlder'
    BY DEF Inv, WriteAndRemoveFail, DoomedIsOlder, BackupsTypeOK, Idle,
       Running, history, DropSnapshots
  <1>6. ExpiredIsOther'
    BY DEF Inv, WriteAndRemoveFail, ExpiredIsOther, BackupsTypeOK, Idle,
       Running, history, DropSnapshots
  <1>7. WrittenBackupStands'
    BY DEF Inv, WriteAndRemoveFail, WrittenBackupStands, BackupsTypeOK, Idle,
       Running, history, DropSnapshots, Partial, Whole
  <1>8. CopyHasDatabase'
    BY CallTyped, BackupsAssumption DEF Inv, WriteAndRemoveFail, BackupsTypeOK, CopyHasDatabase, Running, Idle, Call,
       Oldest
  <1> QED BY <1>1, <1>2, <1>3, <1>4, <1>5, <1>6, <1>7, <1>8 DEF Inv

\* The expired backups are listed.
LEMMA ListExpiredInv ==
    ASSUME Inv, NEW s \in Suffix, ListExpired(s)
    PROVE  Inv'
  <1>1. BackupsTypeOK'
    <2>1. run[s] # Idle /\ run[s] \in Call
      BY CallTyped DEF ListExpired, Running, Idle
    <2>2. BackupsOf(s) \subseteq FileName
      BY DEF Inv, BackupsTypeOK, IsTable, BackupsOf
    <2> DEFINE old == {f \in BackupsOf(s) : BackupDate(f) < clock - MaxAge(s)}
               c == [run[s] EXCEPT !.at = "pruning", !.expired = old]
    <2>3. c \in {Idle} \cup Call
      BY <2>1, <2>2 DEF Call, Stage
    <2> QED BY <2>3, StepTyped DEF Inv, BackupsTypeOK, ListExpired, history
  <1>2. SnapshotsRemoved'
    BY DEF Inv, ListExpired, SnapshotsRemoved, BackupsTypeOK, Idle, Running,
       history, BackupsOf
  <1>3. NameIsOfBegin'
    BY DEF Inv, ListExpired, NameIsOfBegin, BackupsTypeOK, Idle, Running,
       history, BackupsOf
  <1>4. NothingNewer'
    BY DEF Inv, ListExpired, NothingNewer, BackupsTypeOK, Idle, Running,
       history, BackupsOf
  <1>5. DoomedIsOlder'
    BY DEF Inv, ListExpired, DoomedIsOlder, BackupsTypeOK, Idle, Running,
       history, BackupsOf
  <1>6. ExpiredIsOther'
    <2>1. run[s] # Idle /\ run[s] \in Call
      BY CallTyped DEF ListExpired, Running, Idle
    <2> DEFINE old == {f \in BackupsOf(s) : BackupDate(f) < clock - MaxAge(s)}
               c == [run[s] EXCEPT !.at = "pruning", !.expired = old]
    <2>2. c.name = run[s].name /\ c.expired = old
      BY <2>1 DEF Call
    <2>3. \A f \in old : f.suffix = s /\ f # run[s].name
      BY <2>1, NewNotExpired DEF BackupsOf
    <2>4. run' = [run EXCEPT ![s] = c]
      BY DEF ListExpired
    <2> HIDE DEF c, old
    <2>5. \A u \in Suffix : run'[u] = IF u = s THEN c ELSE run[u]
      BY <2>4 DEF Inv, BackupsTypeOK
    <2> QED BY <2>1, <2>2, <2>3, <2>5 DEF Inv, ExpiredIsOther
  <1>7. WrittenBackupStands'
    BY DEF Inv, ListExpired, WrittenBackupStands, BackupsTypeOK, Idle, Running,
       history, BackupsOf, Partial, Whole
  <1>8. CopyHasDatabase'
    BY CallTyped, BackupsAssumption DEF Inv, ListExpired, BackupsTypeOK, CopyHasDatabase, Running, Idle, Call,
       Oldest
  <1> QED BY <1>1, <1>2, <1>3, <1>4, <1>5, <1>6, <1>7, <1>8 DEF Inv

\* An expired backup is removed or not.
LEMMA RemoveExpiredInv ==
    ASSUME Inv, NEW s \in Suffix, RemoveExpired(s)
    PROVE  Inv'
  <1>1. BackupsTypeOK'
    <2>1. run[s] # Idle /\ run[s] \in Call
      BY CallTyped DEF RemoveExpired, Running, Idle
    <2>2. PICK x \in run[s].expired :
            /\ run' = [run EXCEPT ![s].expired = @ \ {x}]
            /\ dir' \in {dir, Delete(dir, x)}
            /\ unpruned' \subseteq unpruned \cup {s}
      BY DEF RemoveExpired, Oldest
    <2>3. [run[s] EXCEPT !.expired = @ \ {x}] \in Call
      BY <2>1 DEF Call
    <2>4. IsTable(dir', FileName, {"partial", "whole"})
      <3>1. x \in FileName
        BY <2>1 DEF Call
      <3>2. IsTable(dir, FileName, {"partial", "whole"})
        BY DEF Inv, BackupsTypeOK
      <3>3. IsTable(Delete(dir, x), FileName, {"partial", "whole"})
        BY <3>1, <3>2, FilesTyped
      <3> QED BY <2>2, <3>2, <3>3
    <2> QED BY <2>2, <2>3, <2>4, StepTyped DEF Inv, BackupsTypeOK, RemoveExpired
  <1>2. SnapshotsRemoved'
    BY DEF Inv, RemoveExpired, SnapshotsRemoved, BackupsTypeOK, Idle, Running,
       history, Oldest
  <1>3. NameIsOfBegin'
    BY DEF Inv, RemoveExpired, NameIsOfBegin, BackupsTypeOK, Idle, Running,
       history, Oldest
  <1>4. NothingNewer'
    <2>1. DOMAIN dir' \subseteq DOMAIN dir
      BY DeleteFile DEF RemoveExpired
    <2> QED BY <2>1 DEF Inv, NothingNewer, BackupsTypeOK, RemoveExpired, Idle, Running, history
  <1>5. DoomedIsOlder'
    BY DEF Inv, RemoveExpired, DoomedIsOlder, BackupsTypeOK, Idle, Running,
       history, Oldest
  <1>6. ExpiredIsOther'
    BY SMTT(20) DEF Inv, RemoveExpired, ExpiredIsOther, BackupsTypeOK, Idle, Running,
       history, Oldest
  <1>7. WrittenBackupStands'
    <2>1. \A u \in Suffix : run[u] # Idle => run[u].name.suffix = u
      BY CallTyped
    <2>2. PICK x \in run[s].expired : dir' \in {dir, Delete(dir, x)}
      BY DEF RemoveExpired, Oldest
    <2>3. run[s] # Idle /\ x.suffix = s /\ x # run[s].name
      BY <2>2 DEF Inv, ExpiredIsOther, RemoveExpired, Running, Idle
    <2>4. \A f \in DOMAIN dir : f # x => f \in DOMAIN dir' /\ dir'[f] = dir[f]
      <3>1. Spared(x)
        BY <2>2, OthersStay
      <3> QED BY <3>1 DEF Spared
    <2>5. \A u \in Suffix : run[u] # Idle => x # run[u].name
      BY <2>1, <2>3
    <2>6. \A u \in Suffix : run'[u].at = run[u].at
            /\ (run[u] # Idle => run'[u].name = run[u].name)
      BY <2>3, CallTyped DEF RemoveExpired, Inv, BackupsTypeOK, Call
    <2>7. \A u \in Suffix : run[u].at # "idle" => run[u] # Idle
      BY DEF Idle
    <2> QED BY <2>1, <2>4, <2>5, <2>6, <2>7 DEF Inv, WrittenBackupStands, Running,
               Partial, Whole
  <1>8. CopyHasDatabase'
    BY CallTyped, BackupsAssumption DEF Inv, RemoveExpired, BackupsTypeOK, CopyHasDatabase, Running, Idle, Call,
       Oldest
  <1> QED BY <1>1, <1>2, <1>3, <1>4, <1>5, <1>6, <1>7, <1>8 DEF Inv

\* A call returns.
LEMMA RunReturnsInv ==
    ASSUME Inv, NEW s \in Suffix, RunReturns(s)
    PROVE  Inv'
  <1>1. BackupsTypeOK'
    BY DEF Inv, RunReturns, BackupsTypeOK, Idle, Running, history
  <1>2. SnapshotsRemoved'
    BY DEF Inv, RunReturns, SnapshotsRemoved, BackupsTypeOK, Idle, Running,
       history
  <1>3. NameIsOfBegin'
    BY DEF Inv, RunReturns, NameIsOfBegin, BackupsTypeOK, Idle, Running,
       history
  <1>4. NothingNewer'
    BY DEF Inv, RunReturns, NothingNewer, BackupsTypeOK, Idle, Running, history
  <1>5. DoomedIsOlder'
    BY DEF Inv, RunReturns, DoomedIsOlder, BackupsTypeOK, Idle, Running,
       history
  <1>6. ExpiredIsOther'
    BY SMTT(20) DEF Inv, RunReturns, ExpiredIsOther, BackupsTypeOK, Idle, Running,
       history
  <1>7. WrittenBackupStands'
    BY DEF Inv, RunReturns, WrittenBackupStands, BackupsTypeOK, Idle, Running,
       history, Partial, Whole
  <1>8. CopyHasDatabase'
    BY CallTyped, BackupsAssumption DEF Inv, RunReturns, BackupsTypeOK, CopyHasDatabase, Running, Idle, Call,
       Oldest
  <1> QED BY <1>1, <1>2, <1>3, <1>4, <1>5, <1>6, <1>7, <1>8 DEF Inv

-----------------------------------------------------------------------------
(* The steps of Cleanup and of the environment *)

\* The strays are listed.
LEMMA ListStraysInv ==
    ASSUME Inv, ListStrays
    PROVE  Inv'
  <1>1. Suffixes \in Seq(Suffix)
    BY BackupsAssumption DEF Suffix, Range
  <1>2. BackupsTypeOK'
    BY <1>1 DEF Inv, BackupsTypeOK, IsTable, ListStrays, history
  <1>3. DoomedIsOlder'
    BY DEF Inv, DoomedIsOlder, ListStrays
  <1>4. /\ SnapshotsRemoved' /\ NameIsOfBegin' /\ NothingNewer' /\ ExpiredIsOther'
        /\ WrittenBackupStands' /\ CopyHasDatabase'
    BY DEF Inv, ListStrays, history, SnapshotsRemoved, NameIsOfBegin, NothingNewer,
           ExpiredIsOther, WrittenBackupStands, CopyHasDatabase, Running, Partial, Whole
  <1> QED BY <1>2, <1>3, <1>4 DEF Inv

\* The backups in excess are listed.
LEMMA ListExcessInv ==
    ASSUME Inv, ListExcess
    PROVE  Inv'
  <1> DEFINE s == Head(cleanup.todo)
  <1>1. cleanup.todo \in Seq(Suffix) /\ cleanup.todo # <<>>
    BY DEF Inv, BackupsTypeOK, ListExcess, Idle
  <1>2. s \in Suffix /\ Tail(cleanup.todo) \in Seq(Suffix)
    BY <1>1
  <1>3. Excess(s) \subseteq FileName /\ \A f \in Excess(s) : f.suffix = s
    BY DEF Excess, BackupsOf, Inv, BackupsTypeOK, IsTable
  <1>4. cleanup' = [at |-> "excess", todo |-> Tail(cleanup.todo), doomed |-> Excess(s)]
    BY DEF ListExcess
  <1> HIDE DEF s
  <1>5. BackupsTypeOK'
    BY <1>2, <1>3, <1>4 DEF Inv, BackupsTypeOK, IsTable, ListExcess, history
  <1>6. DoomedIsOlder'
    <2>1. ASSUME NEW f \in Excess(s)
          PROVE  /\ f.day < Day(clock)
                 /\ run[s] # Idle => f.day < run[s].name.day
      <3>1. PICK g \in BackupsOf(s) : g.day > f.day
        BY ExcessHasNewer
      <3>2. /\ g.day <= Day(clock)
            /\ run[s] # Idle => g.day <= run[s].name.day
        BY <1>2, <3>1 DEF Inv, NothingNewer, BackupsOf
      <3>3. f.day \in Nat /\ g.day \in Nat
        BY <1>3, <3>1, Names DEF Inv, BackupsTypeOK, IsTable, BackupsOf
      <3>4. Day(clock) \in Nat
        BY DayMonotone DEF Inv, BackupsTypeOK
      <3>5. run[s] # Idle => run[s].name.day \in Nat
        BY <1>2, CallTyped, Names
      <3> QED BY <3>1, <3>2, <3>3, <3>4, <3>5
    <2> QED BY <1>3, <1>4, <2>1 DEF DoomedIsOlder, ListExcess
  <1>7. /\ SnapshotsRemoved' /\ NameIsOfBegin' /\ NothingNewer' /\ ExpiredIsOther'
        /\ WrittenBackupStands' /\ CopyHasDatabase'
    BY DEF Inv, ListExcess, history, SnapshotsRemoved, NameIsOfBegin, NothingNewer,
           ExpiredIsOther, WrittenBackupStands, CopyHasDatabase, Running, Partial, Whole
  <1> QED BY <1>5, <1>6, <1>7 DEF Inv

\* A listed file is removed or not.
LEMMA RemoveDoomedInv ==
    ASSUME Inv, RemoveDoomed
    PROVE  Inv'
  <1>1. PICK x \in cleanup.doomed :
          /\ cleanup' = [cleanup EXCEPT !.doomed = @ \ {x}]
          /\ dir' \in {dir, Delete(dir, x)}
    BY DEF RemoveDoomed, Oldest
  <1>2. cleanup # Idle /\ x \in FileName /\ cleanup'.doomed \subseteq cleanup.doomed
    BY <1>1 DEF RemoveDoomed, Inv, BackupsTypeOK, Idle
  <1>3. BackupsTypeOK'
    <2>1. IsTable(dir, FileName, {"partial", "whole"})
      BY DEF Inv, BackupsTypeOK
    <2>2. IsTable(Delete(dir, x), FileName, {"partial", "whole"})
      BY <1>2, <2>1, FilesTyped
    <2> QED BY <1>1, <1>2, <2>1, <2>2 DEF Inv, BackupsTypeOK, RemoveDoomed, history
  <1>4. DOMAIN dir' \subseteq DOMAIN dir
          /\ \A f \in DOMAIN dir : f # x => f \in DOMAIN dir' /\ dir'[f] = dir[f]
    <2>1. DOMAIN dir' \subseteq DOMAIN dir /\ Spared(x)
      BY <1>1, OthersStay
    <2> QED BY <2>1 DEF Spared
  <1>5. \A s \in Suffix : run[s] # Idle => x # run[s].name
    <2> SUFFICES ASSUME NEW s \in Suffix, run[s] # Idle, x = run[s].name
                 PROVE  FALSE
      OBVIOUS
    <2>1. x.suffix = s /\ x.day \in Nat
      BY CallTyped, Names
    <2>2. x.day < run[s].name.day
      BY <1>1, <1>2, <2>1 DEF Inv, DoomedIsOlder
    <2> QED BY <2>1, <2>2
  <1>6. DoomedIsOlder'
    BY <1>2 DEF Inv, DoomedIsOlder, RemoveDoomed
  <1>7. NothingNewer'
    BY <1>4 DEF Inv, NothingNewer, RemoveDoomed
  <1>8. WrittenBackupStands'
    BY <1>4, <1>5 DEF Inv, WrittenBackupStands, RemoveDoomed, Running, Partial, Whole, Idle
  <1>9. /\ SnapshotsRemoved' /\ NameIsOfBegin' /\ ExpiredIsOther' /\ CopyHasDatabase'
    BY DEF Inv, RemoveDoomed, SnapshotsRemoved, NameIsOfBegin, ExpiredIsOther,
           CopyHasDatabase, Running
  <1> QED BY <1>3, <1>6, <1>7, <1>8, <1>9 DEF Inv

\* Cleanup returns.
LEMMA CleanupReturnsInv ==
    ASSUME Inv, CleanupReturns
    PROVE  Inv'
  <1>1. BackupsTypeOK' /\ DoomedIsOlder'
    BY DEF Inv, BackupsTypeOK, DoomedIsOlder, IsTable, CleanupReturns, history
  <1>2. /\ SnapshotsRemoved' /\ NameIsOfBegin' /\ NothingNewer' /\ ExpiredIsOther'
        /\ WrittenBackupStands' /\ CopyHasDatabase'
    BY DEF Inv, CleanupReturns, history, SnapshotsRemoved, NameIsOfBegin, NothingNewer,
           ExpiredIsOther, WrittenBackupStands, CopyHasDatabase, Running, Partial, Whole
  <1> QED BY <1>1, <1>2 DEF Inv

\* A stray file appears.
LEMMA DropStrayInv ==
    ASSUME Inv, DropStray
    PROVE  Inv'
  <1>1. DOMAIN dir' = DOMAIN dir \cup {Stray}
          /\ \A f \in DOMAIN dir : f # Stray => dir'[f] = dir[f]
    <2>1. dir' = Insert(dir, Stray, "whole")
      BY DEF DropStray
    <2>2. DOMAIN Insert(dir, Stray, "whole") = DOMAIN dir \cup {Stray}
            /\ \A f \in DOMAIN dir \ {Stray} : Insert(dir, Stray, "whole")[f] = dir[f]
      BY InsertFile
    <2> QED BY <2>1, <2>2
  <1>2. BackupsTypeOK'
    <2>1. Stray \in FileName
      BY DEF FileName
    <2>2. IsTable(dir', FileName, {"partial", "whole"})
      BY <2>1, FilesTyped DEF Inv, BackupsTypeOK, DropStray
    <2> QED BY <2>2 DEF Inv, BackupsTypeOK, DropStray, history
  <1>3. NothingNewer'
    BY <1>1, Names DEF Inv, NothingNewer, DropStray
  <1>4. \A s \in Suffix : run[s] # Idle => Stray # run[s].name
    BY CallTyped, Names
  <1>5. WrittenBackupStands'
    BY <1>1, <1>4 DEF Inv, WrittenBackupStands, DropStray, Running, Partial, Whole, Idle
  <1>6. /\ SnapshotsRemoved' /\ NameIsOfBegin' /\ DoomedIsOlder' /\ ExpiredIsOther'
        /\ CopyHasDatabase'
    BY DEF Inv, DropStray, SnapshotsRemoved, NameIsOfBegin, DoomedIsOlder, ExpiredIsOther,
           CopyHasDatabase, Running
  <1> QED BY <1>2, <1>3, <1>5, <1>6 DEF Inv

\* Time passes.
LEMMA TickInv ==
    ASSUME Inv, Tick
    PROVE  Inv'
  <1>1. clock \in Nat /\ clock' = clock + 1 /\ clock' \in 0 .. MaxTime
    BY BackupsAssumption DEF Inv, BackupsTypeOK, Tick
  <1>2. Day(clock) \in Nat /\ Day(clock') \in Nat /\ Day(clock) <= Day(clock')
    BY <1>1, DayMonotone
  <1>3. BackupsTypeOK'
    BY <1>1 DEF Inv, BackupsTypeOK, IsTable, Tick, history
  <1>4. NameIsOfBegin'
    BY <1>1 DEF Inv, NameIsOfBegin, Tick
  <1>5. Day(clock)' = Day(clock')
    BY DEF Day
  <1>6. NothingNewer'
    <2>1. \A f \in DOMAIN dir : f.day \in Nat
      BY Names DEF Inv, BackupsTypeOK, IsTable
    <2> QED BY <1>2, <1>5, <2>1 DEF Inv, NothingNewer, Tick
  <1>7. DoomedIsOlder'
    <2>1. cleanup # Idle => \A f \in cleanup.doomed : f.day \in Nat
      BY Names DEF Inv, BackupsTypeOK
    <2> QED BY <1>2, <1>5, <2>1 DEF Inv, DoomedIsOlder, Tick
  <1>8. /\ SnapshotsRemoved' /\ ExpiredIsOther' /\ WrittenBackupStands' /\ CopyHasDatabase'
    BY DEF Inv, Tick, SnapshotsRemoved, ExpiredIsOther, WrittenBackupStands,
           CopyHasDatabase, Running, Partial, Whole
  <1> QED BY <1>3, <1>4, <1>6, <1>7, <1>8 DEF Inv

\* The process crashes and is started again.
LEMMA CrashInv ==
    ASSUME Inv, Crash
    PROVE  Inv'
  <1>1. crashes \in Nat /\ crashes' = crashes + 1 /\ crashes' \in 0 .. MaxCrashes
    BY BackupsAssumption DEF Inv, BackupsTypeOK, Crash
  <1>2. temp \subseteq [of : Suffix, database : Range(Databases), boot : 0 .. crashes']
    BY <1>1 DEF Inv, BackupsTypeOK
  <1>3. BackupsTypeOK'
    BY <1>1, <1>2 DEF Inv, BackupsTypeOK, IsTable, Crash
  <1>4. SnapshotsRemoved'
    <2>1. \A t \in temp : t.boot \in 0 .. crashes
      BY DEF Inv, BackupsTypeOK
    <2> QED BY <1>1, <2>1 DEF SnapshotsRemoved, Crash
  <1>5. /\ NameIsOfBegin' /\ NothingNewer' /\ DoomedIsOlder' /\ ExpiredIsOther'
        /\ WrittenBackupStands' /\ CopyHasDatabase'
    BY DEF Inv, Crash, NameIsOfBegin, NothingNewer, DoomedIsOlder, ExpiredIsOther,
           WrittenBackupStands, CopyHasDatabase, Running, Idle
  <1> QED BY <1>3, <1>4, <1>5 DEF Inv

\* Nothing happens.
LEMMA StutterInv ==
    ASSUME Inv, UNCHANGED vars
    PROVE  Inv'
  BY DEF Inv, vars, history, BackupsTypeOK, SnapshotsRemoved, NameIsOfBegin, NothingNewer,
         DoomedIsOlder, ExpiredIsOther, WrittenBackupStands, CopyHasDatabase, IsTable,
         Running, Partial, Whole

-----------------------------------------------------------------------------
(* The theorems *)

\* Every step keeps the invariant.
LEMMA StepInv == Inv /\ [Next]_vars => Inv'
  <1> SUFFICES ASSUME Inv, [Next]_vars PROVE Inv'
    OBVIOUS
  <1>1. ASSUME NEW s \in Suffix, Run(s) PROVE Inv'
    BY <1>1, BeginInv, OpenSnapshotInv, CopyDatabaseInv, SnapshotFailsInv, CreateZipInv,
       WriteZipInv, WriteFailsInv, WriteAndRemoveFailInv, ListExpiredInv, RemoveExpiredInv,
       RunReturnsInv DEF Run
  <1>2. CASE Cleanup
    BY <1>2, ListStraysInv, ListExcessInv, RemoveDoomedInv, CleanupReturnsInv DEF Cleanup
  <1>3. CASE DropStray \/ Tick \/ Crash
    BY <1>3, DropStrayInv, TickInv, CrashInv
  <1>4. CASE UNCHANGED vars
    BY <1>4, StutterInv
  <1> QED BY <1>1, <1>2, <1>3, <1>4 DEF Next

\* The invariant holds of every behaviour of the backup jobs.
LEMMA InvHolds == Spec => []Inv
  BY InitInv, StepInv, PTL DEF Spec

\* The directory, the calls and the lists keep their types (the whole of
\* app/jobs/backup).
THEOREM BackupsTyped == Spec => []BackupsTypeOK
  <1>1. Inv => BackupsTypeOK
    BY DEF Inv
  <1> QED BY <1>1, InvHolds, PTL

\* createBackup leaves no snapshot behind on any path (the deferred removals of
\* service.go).
THEOREM NoSnapshotLeaks == Spec => []SnapshotsRemoved
  <1>1. Inv => SnapshotsRemoved
    BY DEF Inv
  <1> QED BY <1>1, InvHolds, PTL

\* Neither pruneByCount nor pruneByDate takes the backup that is being written or
\* was just created, whatever the cleanup read before.
THEOREM NewBackupStands == Spec => []WrittenBackupStands
  <1>1. Inv => WrittenBackupStands
    BY DEF Inv
  <1> QED BY <1>1, InvHolds, PTL

-----------------------------------------------------------------------------
(* Counting: what interrupted calls left, and what the cleanup spares *)

FilesFinite == IsFiniteSet(DOMAIN dir)

\* The partial files of a suffix that no call is writing.
Leftover(s) == {f \in Partial(s) : ~ (Running(s, "writing") /\ run[s].name = f)}

\* The backups newer than f that no call of Run can touch any more: they are older
\* than today and than the one that is being made.
Shield(f) ==
    {g \in BackupsOf(f.suffix) :
        /\ f.day < g.day /\ g.day < Day(clock)
        /\ run[f.suffix] # Idle => g.day < run[f.suffix].name.day}

\* Unless a removal failed, pruning by age has taken every backup that is older
\* than one it still has to take.
PrunedInOrder ==
    \A s \in Suffix \ unpruned : Running(s, "pruning") =>
        \A f \in BackupsOf(s), g \in run[s].expired :
            f.day < g.day => f \in run[s].expired

\* What the cleanup is about to remove has had Retained newer backups, of which
\* a call of Run on the day of the last may have lost that one.
DoomedIsShielded ==
    cleanup # Idle =>
        \A f \in cleanup.doomed \cap DOMAIN dir :
            f.suffix \in Suffix \ unpruned => Cardinality(Shield(f)) >= Retained - 1

Counts == FilesFinite /\ PartialsAccounted /\ PrunedInOrder /\ DoomedIsShielded

\* The files of a suffix are as they were.
SameFiles(u) ==
    /\ BackupsOf(u)' = BackupsOf(u)
    /\ \A f \in BackupsOf(u) : dir'[f] = dir[f]

\* What a call of Run does to the files is confined to its suffix.
LEMMA OtherSuffix ==
    ASSUME Inv, NEW s \in Suffix, Run(s), NEW u \in Suffix, u # s
    PROVE  run'[u] = run[u] /\ SameFiles(u) /\ interrupted'[u] = interrupted[u]
           /\ (u \in unpruned' <=> u \in unpruned)
  <1>1. run'[u] = run[u]
    BY DEF Inv, BackupsTypeOK, Run, Begin, OpenSnapshot, CopyDatabase, SnapshotFails,
       CreateZip, WriteZip, WriteFails, WriteAndRemoveFail, ListExpired, RemoveExpired,
       RunReturns
  <1>2. interrupted'[u] = interrupted[u] /\ (u \in unpruned' <=> u \in unpruned)
    BY DEF Inv, BackupsTypeOK, Run, Begin, OpenSnapshot, CopyDatabase, SnapshotFails,
       CreateZip, WriteZip, WriteFails, WriteAndRemoveFail, ListExpired, RemoveExpired,
       RunReturns, history
  <1>3. \A f : f.suffix = u =>
            /\ f \in DOMAIN dir' <=> f \in DOMAIN dir
            /\ f \in DOMAIN dir => dir'[f] = dir[f]
    <2>1. CASE UNCHANGED dir
      BY <2>1
    <2>2. run[s] # Idle => run[s].name.suffix = s
      BY CallTyped
    <2>3. CASE CreateZip(s)
      BY <2>2, <2>3 DEF CreateZip, Insert, Running, Idle
    <2>4. CASE WriteZip(s)
      BY <2>2, <2>4 DEF WriteZip, Running, Idle
    <2>5. CASE WriteFails(s)
      BY <2>2, <2>5 DEF WriteFails, Delete, Running, Idle
    <2>6. CASE RemoveExpired(s)
      <3>1. PICK x \in run[s].expired : dir' \in {dir, Delete(dir, x)}
        BY <2>6 DEF RemoveExpired, Oldest
      <3>2. x.suffix = s
        BY <2>6, <3>1 DEF Inv, ExpiredIsOther, RemoveExpired, Running, Idle
      <3> QED BY <3>1, <3>2 DEF Delete
    <2> QED BY <2>1, <2>3, <2>4, <2>5, <2>6 DEF Run, Begin, OpenSnapshot, CopyDatabase,
           SnapshotFails, WriteAndRemoveFail, ListExpired, RunReturns
  <1> QED BY <1>1, <1>2, <1>3 DEF SameFiles, BackupsOf

\* A name that starts a call of Run is of today, and kept.
LEMMA NamesKept ==
    ASSUME Inv, Next, NEW u \in Suffix
    PROVE  \/ run'[u] = Idle
           \/ run[u] = Idle /\ run'[u].name.day = Day(clock)
           \/ run[u] # Idle /\ run'[u].name = run[u].name
  <1>1. CASE UNCHANGED run
    BY <1>1
  <1>2. CASE Crash
    BY <1>2 DEF Crash
  <1>3. ASSUME NEW s \in Suffix, Run(s)
        PROVE  \/ run'[u] = Idle
               \/ run[u] = Idle /\ run'[u].name.day = Day(clock)
               \/ run[u] # Idle /\ run'[u].name = run[u].name
    <2>1. CASE u # s
      BY <1>3, <2>1, OtherSuffix
    <2>2. CASE u = s
      <3>1. CASE Begin(s)
        BY <2>2, <3>1 DEF Begin, Inv, BackupsTypeOK, Backup
      <3>2. CASE SnapshotFails(s) \/ WriteFails(s) \/ WriteAndRemoveFail(s) \/ RunReturns(s)
        BY <2>2, <3>2 DEF SnapshotFails, WriteFails, WriteAndRemoveFail, RunReturns,
           Inv, BackupsTypeOK
      <3>3. CASE OpenSnapshot(s) \/ CopyDatabase(s) \/ CreateZip(s) \/ WriteZip(s)
                 \/ ListExpired(s) \/ RemoveExpired(s)
        <4>1. run[s] # Idle
          BY <3>3 DEF OpenSnapshot, CopyDatabase, CreateZip, WriteZip, ListExpired,
             RemoveExpired, Running, Idle
        <4>2. run[s] \in Call
          BY <4>1, CallTyped
        <4>3. run'[s].name = run[s].name
          <5>1. CASE OpenSnapshot(s) \/ CreateZip(s) \/ WriteZip(s)
            BY <4>2, <5>1 DEF OpenSnapshot, CreateZip, WriteZip, Inv, BackupsTypeOK, Call
          <5>2. CASE CopyDatabase(s)
            BY <4>2, <5>2 DEF CopyDatabase, Inv, BackupsTypeOK, Call
          <5>3. CASE ListExpired(s)
            BY <4>2, <5>3 DEF ListExpired, Inv, BackupsTypeOK, Call
          <5>4. CASE RemoveExpired(s)
            BY <4>2, <5>4 DEF RemoveExpired, Inv, BackupsTypeOK, Call
          <5> QED BY <3>3, <5>1, <5>2, <5>3, <5>4
        <4> QED BY <2>2, <4>1, <4>3
      <3> QED BY <1>3, <3>1, <3>2, <3>3 DEF Run
    <2> QED BY <2>1, <2>2
  <1> QED BY <1>1, <1>2, <1>3 DEF Next, Cleanup, ListStrays, ListExcess, RemoveDoomed,
         CleanupReturns, DropStray, Tick

-----------------------------------------------------------------------------
(* Partial files *)

\* A step leaves at most as many more partial files of a suffix as it counts.
LeftoverStep(u) ==
    \/ Leftover(u)' \subseteq Leftover(u) /\ interrupted'[u] = interrupted[u]
    \/ /\ \E x : Leftover(u)' \subseteq Leftover(u) \cup {x}
       /\ interrupted'[u] = interrupted[u] + 1

\* A step that keeps or removes files of a suffix and lets its call alone, or
\* where it is not writing.
LEMMA FewerLeftovers ==
    ASSUME NEW u \in Suffix, Partial(u)' \subseteq Partial(u),
           interrupted'[u] = interrupted[u],
           ~Running(u, "writing")
           \/ run'[u] = run[u]
           \/ Partial(u)' \subseteq Partial(u) \ {run[u].name}
    PROVE  LeftoverStep(u)
  BY DEF LeftoverStep, Leftover, Running

\* A call of Run leaves a partial file only where it is cut off and counted.
LEMMA OwnLeftovers ==
    ASSUME Inv, NEW s \in Suffix, Run(s)
    PROVE  LeftoverStep(s)
  <1>1. CASE Begin(s) \/ OpenSnapshot(s) \/ CopyDatabase(s) \/ SnapshotFails(s)
             \/ ListExpired(s) \/ RunReturns(s)
    <2>1. UNCHANGED <<dir, interrupted>> /\ ~Running(s, "writing")
      BY <1>1 DEF Begin, OpenSnapshot, CopyDatabase, SnapshotFails, ListExpired,
         RunReturns, history, Running, Idle
    <2> QED BY <2>1, FewerLeftovers DEF Partial
  <1>2. CASE CreateZip(s)
    <2>1. run[s] # Idle /\ run[s] \in Call
      BY <1>2, CallTyped DEF CreateZip, Running, Idle
    <2>2. run'[s].at = "writing" /\ run'[s].name = run[s].name /\ ~Running(s, "writing")
      BY <1>2, <2>1 DEF CreateZip, Inv, BackupsTypeOK, Call, Running
    <2>3. Partial(s)' \subseteq Partial(s) \cup {run[s].name}
      BY <1>2 DEF CreateZip, Partial, Insert
    <2> QED BY <1>2, <2>2, <2>3 DEF LeftoverStep, Leftover, Running, CreateZip, history
  <1>3. CASE WriteZip(s)
    <2>1. Partial(s)' \subseteq Partial(s) \ {run[s].name}
      BY <1>3 DEF WriteZip, Partial
    <2> QED BY <1>3, <2>1, FewerLeftovers DEF WriteZip, history
  <1>4. CASE WriteFails(s)
    <2>1. Partial(s)' \subseteq Partial(s) \ {run[s].name}
      BY <1>4 DEF WriteFails, Partial, Delete
    <2> QED BY <1>4, <2>1, FewerLeftovers DEF WriteFails, history
  <1>5. CASE WriteAndRemoveFail(s)
    <2>1. Leftover(s)' \subseteq Leftover(s) \cup {run[s].name}
      BY <1>5 DEF WriteAndRemoveFail, Leftover, Partial
    <2>2. interrupted'[s] = interrupted[s] + 1
      BY <1>5 DEF WriteAndRemoveFail, Inv, BackupsTypeOK
    <2> QED BY <2>1, <2>2 DEF LeftoverStep
  <1>6. CASE RemoveExpired(s)
    <2>1. Partial(s)' \subseteq Partial(s) /\ ~Running(s, "writing")
      BY <1>6 DEF RemoveExpired, Partial, Delete, Running
    <2> QED BY <1>6, <2>1, FewerLeftovers DEF RemoveExpired
  <1> QED BY <1>1, <1>2, <1>3, <1>4, <1>5, <1>6 DEF Run

\* So does every other step.
LEMMA AllLeftovers ==
    ASSUME Inv, Next, NEW u \in Suffix
    PROVE  LeftoverStep(u)
  <1>1. ASSUME NEW s \in Suffix, Run(s) PROVE LeftoverStep(u)
    <2>1. CASE u = s
      BY <1>1, <2>1, OwnLeftovers
    <2>2. CASE u # s
      <3>1. run'[u] = run[u] /\ SameFiles(u) /\ interrupted'[u] = interrupted[u]
        BY <1>1, <2>2, OtherSuffix
      <3>2. Partial(u)' \subseteq Partial(u)
        BY <3>1 DEF SameFiles, BackupsOf, Partial
      <3> QED BY <3>1, <3>2, FewerLeftovers
    <2> QED BY <2>1, <2>2
  <1>2. CASE ListStrays \/ ListExcess \/ CleanupReturns \/ Tick
    BY <1>2, FewerLeftovers DEF ListStrays, ListExcess, CleanupReturns, Tick, history, Partial
  <1>3. CASE RemoveDoomed
    <2>1. Partial(u)' \subseteq Partial(u)
      BY <1>3 DEF RemoveDoomed, Partial, Delete
    <2> QED BY <1>3, <2>1, FewerLeftovers DEF RemoveDoomed, history
  <1>4. CASE DropStray
    <2>1. Partial(u)' \subseteq Partial(u)
      BY <1>4, Names DEF DropStray, Partial, Insert
    <2> QED BY <1>4, <2>1, FewerLeftovers DEF DropStray, history
  <1>5. CASE Crash
    <2>1. interrupted'[u] = interrupted[u] + IF Running(u, "writing") THEN 1 ELSE 0
      BY <1>5 DEF Crash
    <2>2. CASE Running(u, "writing")
      <3>1. Leftover(u)' \subseteq Leftover(u) \cup {run[u].name}
        BY <1>5 DEF Crash, Leftover, Partial
      <3> QED BY <2>1, <2>2, <3>1 DEF LeftoverStep
    <2>3. CASE ~Running(u, "writing")
      <3>1. Partial(u)' \subseteq Partial(u) /\ interrupted'[u] = interrupted[u]
        BY <1>5, <2>1, <2>3 DEF Crash, Partial, Inv, BackupsTypeOK
      <3> QED BY <2>3, <3>1, FewerLeftovers
    <2> QED BY <2>2, <2>3
  <1> QED BY <1>1, <1>2, <1>3, <1>4, <1>5 DEF Next, Cleanup

\* At most one file comes with a step.
LEMMA FinitelyMore ==
    ASSUME FilesFinite, Next
    PROVE  FilesFinite'
  <1> DEFINE grows == \E x : DOMAIN dir' \subseteq DOMAIN dir \cup {x}
  <1>1. ASSUME NEW s \in Suffix, Run(s) PROVE grows
    BY <1>1 DEF Run, Begin, OpenSnapshot, CopyDatabase, SnapshotFails, CreateZip, WriteZip,
       WriteFails, WriteAndRemoveFail, ListExpired, RemoveExpired, RunReturns, Insert, Delete
  <1>2. grows
    BY <1>1 DEF Next, Cleanup, ListStrays, ListExcess, RemoveDoomed, CleanupReturns,
       DropStray, Tick, Crash, Insert, Delete
  <1>3. PICK x : DOMAIN dir' \subseteq DOMAIN dir \cup {x}
    BY <1>2
  <1>4. IsFiniteSet(DOMAIN dir \cup {x})
    BY FS_AddElement DEF FilesFinite
  <1> QED BY <1>3, <1>4, FS_Subset DEF FilesFinite

\* One more element makes a finite set at most one larger.
LEMMA OneMore ==
    ASSUME NEW S, IsFiniteSet(S), NEW x
    PROVE  /\ IsFiniteSet(S \cup {x})
           /\ Cardinality(S \cup {x}) <= Cardinality(S) + 1
           /\ Cardinality(S \cup {x}) \in Nat
  <1> DEFINE T == S \cup {x}
  <1>1. Cardinality(S) \in Nat
    BY FS_CardinalityType
  <1>2. x \in S => T = S
    OBVIOUS
  <1>3. x \notin S => IsFiniteSet(T) /\ Cardinality(T) = Cardinality(S) + 1
    BY FS_AddElement
  <1> HIDE DEF T
  <1>4. IsFiniteSet(T) /\ Cardinality(T) <= Cardinality(S) + 1 /\ Cardinality(T) \in Nat
    BY <1>1, <1>2, <1>3
  <1> QED BY <1>4 DEF T

\* The partial files that nobody writes are accounted for.
LEMMA PartialsStep ==
    ASSUME Inv, FilesFinite, PartialsAccounted, Next
    PROVE  PartialsAccounted'
  <1> SUFFICES ASSUME NEW u \in Suffix
               PROVE  Cardinality(Leftover(u)') <= interrupted'[u]
    BY DEF PartialsAccounted, Leftover
  <1>1. IsFiniteSet(Leftover(u))
    <2>1. Leftover(u) \subseteq DOMAIN dir
      BY DEF Leftover, Partial
    <2> QED BY <2>1, FS_Subset DEF FilesFinite
  <1>2. Cardinality(Leftover(u)) <= interrupted[u]
    BY DEF PartialsAccounted, Leftover
  <1>3. Cardinality(Leftover(u)) \in Nat /\ interrupted[u] \in Nat
    BY <1>1, FS_CardinalityType DEF Inv, BackupsTypeOK
  <1>4. CASE Leftover(u)' \subseteq Leftover(u) /\ interrupted'[u] = interrupted[u]
    <2>1. Cardinality(Leftover(u)') <= Cardinality(Leftover(u)) /\ IsFiniteSet(Leftover(u)')
      BY <1>1, <1>4, FS_Subset
    <2>2. Cardinality(Leftover(u)') \in Nat
      BY <2>1, FS_CardinalityType
    <2> QED BY <1>2, <1>3, <1>4, <2>1, <2>2
  <1>5. ASSUME NEW x, Leftover(u)' \subseteq Leftover(u) \cup {x},
               interrupted'[u] = interrupted[u] + 1
        PROVE  Cardinality(Leftover(u)') <= interrupted'[u]
    <2>1. /\ IsFiniteSet(Leftover(u) \cup {x})
          /\ Cardinality(Leftover(u) \cup {x}) <= Cardinality(Leftover(u)) + 1
          /\ Cardinality(Leftover(u) \cup {x}) \in Nat
      BY <1>1, OneMore
    <2>2. Cardinality(Leftover(u)') <= Cardinality(Leftover(u) \cup {x})
          /\ IsFiniteSet(Leftover(u)')
      BY <1>5, <2>1, FS_Subset
    <2>3. Cardinality(Leftover(u)') \in Nat
      BY <2>2, FS_CardinalityType
    <2> QED BY <1>2, <1>3, <1>5, <2>1, <2>2, <2>3
  <1> QED BY <1>4, <1>5, AllLeftovers DEF LeftoverStep

-----------------------------------------------------------------------------
(* The order of pruning *)

\* While a call prunes, its suffix gets no new file.
LEMMA PruningAddsNone ==
    ASSUME Inv, Next, NEW u \in Suffix, Running(u, "pruning")'
    PROVE  BackupsOf(u)' \subseteq BackupsOf(u)
  <1>1. ASSUME NEW s \in Suffix, Run(s) PROVE BackupsOf(u)' \subseteq BackupsOf(u)
    <2>1. CASE u # s
      BY <1>1, <2>1, OtherSuffix DEF SameFiles
    <2>2. CASE u = s
      <3>1. ~CreateZip(s)
        BY <2>2 DEF CreateZip, Running, Inv, BackupsTypeOK, Idle
      <3> QED BY <1>1, <2>2, <3>1 DEF Run, Begin, OpenSnapshot, CopyDatabase, SnapshotFails,
             WriteZip, WriteFails, WriteAndRemoveFail, ListExpired, RemoveExpired,
             RunReturns, BackupsOf, Delete
    <2> QED BY <2>1, <2>2
  <1>2. CASE ~ \E s \in Suffix : Run(s)
    BY <1>2, Names DEF Next, Cleanup, ListStrays, ListExcess, RemoveDoomed, CleanupReturns,
       DropStray, Tick, Crash, BackupsOf, Insert, Delete
  <1> QED BY <1>1, <1>2

\* Pruning by age goes on in its order.
LEMMA PrunedStep ==
    ASSUME Inv, PrunedInOrder, Next
    PROVE  PrunedInOrder'
  <1> SUFFICES ASSUME NEW u \in Suffix, u \notin unpruned', Running(u, "pruning")',
                      NEW f \in BackupsOf(u)', NEW g \in run'[u].expired, f.day < g.day
               PROVE  f \in run'[u].expired
    BY DEF PrunedInOrder
  <1>1. f \in BackupsOf(u)
    BY PruningAddsNone
  <1>2. CASE run'[u] = run[u] /\ u \notin unpruned
    BY <1>1, <1>2 DEF PrunedInOrder, Running
  <1>3. ASSUME Run(u) PROVE f \in run'[u].expired
    <2>1. CASE ListExpired(u)
      <3>1. run[u] # Idle /\ run[u] \in Call
        BY <2>1, CallTyped DEF ListExpired, Running, Idle
      <3>2. run'[u].expired = {h \in BackupsOf(u) : BackupDate(h) < clock - MaxAge(u)}
        BY <2>1, <3>1 DEF ListExpired, Inv, BackupsTypeOK, Call
      <3>3. BackupDate(g) < clock - MaxAge(u)
        BY <3>2
      <3>4. f.day \in Nat /\ g.day \in Nat
        BY <1>1, <3>2, Names DEF BackupsOf, Inv, BackupsTypeOK, IsTable
      <3>5. TicksPerDay \in Nat \ {0}
        BY BackupsAssumption
      <3>6. BackupDate(f) <= BackupDate(g) /\ BackupDate(f) \in Int /\ BackupDate(g) \in Int
        BY <3>4, <3>5 DEF BackupDate
      <3>7. clock - MaxAge(u) \in Int
        <4>1. Period[u] \in Nat /\ Retained \in Nat /\ clock \in Nat
          BY BackupsAssumption DEF Inv, BackupsTypeOK
        <4>2. (Retained + 1) * Period[u] \in Nat
          BY <4>1
        <4>3. (Retained + 1) * Period[u] * TicksPerDay \in Nat
          BY <4>2, <3>5
        <4> QED BY <4>1, <4>3 DEF MaxAge
      <3>8. BackupDate(f) < clock - MaxAge(u)
        BY <3>3, <3>6, <3>7
      <3> QED BY <1>1, <3>2, <3>8
    <2>2. CASE RemoveExpired(u)
      <3>1. PICK x \in Oldest(run[u].expired) :
                /\ run' = [run EXCEPT ![u].expired = @ \ {x}]
                /\ unpruned' = IF x \in DOMAIN dir' THEN unpruned \cup {u} ELSE unpruned
        BY <2>2 DEF RemoveExpired
      <3>2. run[u] # Idle /\ run[u] \in Call
        BY <2>2, CallTyped DEF RemoveExpired, Running, Idle
      <3>3. run'[u].expired = run[u].expired \ {x}
        BY <3>1, <3>2 DEF Inv, BackupsTypeOK, Call
      <3>4. x \notin DOMAIN dir' /\ u \notin unpruned
        BY <3>1
      <3>5. f \in run[u].expired
        BY <1>1, <2>2, <3>3, <3>4 DEF PrunedInOrder, RemoveExpired
      <3>6. f # x
        BY <3>4 DEF BackupsOf
      <3> QED BY <3>3, <3>5, <3>6
    <2>3. CASE ~ListExpired(u) /\ ~RemoveExpired(u)
      <3>1. run[u] # Idle => run[u] \in Call
        BY CallTyped
      <3>2. run'[u].at # "pruning"
        <4>1. CASE Begin(u)
          BY <4>1 DEF Begin, Inv, BackupsTypeOK
        <4>2. CASE OpenSnapshot(u) \/ CreateZip(u) \/ WriteZip(u)
          BY <3>1, <4>2 DEF OpenSnapshot, CreateZip, WriteZip, Inv, BackupsTypeOK, Call,
             Running, Idle
        <4>3. CASE CopyDatabase(u)
          BY <3>1, <4>3 DEF CopyDatabase, Inv, BackupsTypeOK, Call, Running, Idle
        <4>4. CASE SnapshotFails(u) \/ WriteFails(u) \/ WriteAndRemoveFail(u)
                   \/ RunReturns(u)
          BY <4>4 DEF SnapshotFails, WriteFails, WriteAndRemoveFail, RunReturns, Inv,
             BackupsTypeOK, Idle
        <4> QED BY <1>3, <2>3, <4>1, <4>2, <4>3, <4>4 DEF Run
      <3> QED BY <3>2 DEF Running
    <2> QED BY <2>1, <2>2, <2>3
  <1>4. CASE ~Run(u)
    <2>1. ASSUME NEW s \in Suffix, Run(s) PROVE run'[u] = run[u] /\ u \notin unpruned
      BY <1>4, <2>1, OtherSuffix
    <2>2. ~Crash
      BY DEF Crash, Running, Idle
    <2>3. run'[u] = run[u] /\ u \notin unpruned
      BY <2>1, <2>2 DEF Next, Cleanup, ListStrays, ListExcess, RemoveDoomed, CleanupReturns,
         DropStray, Tick, history
    <2> QED BY <1>2, <2>3
  <1> QED BY <1>3, <1>4


-----------------------------------------------------------------------------
(* What the cleanup spares *)

\* Time does not go back, nor does a backup that failed to be removed count as removed.
LEMMA TimeGoesOn ==
    ASSUME Inv, Next
    PROVE  /\ Day(clock) \in Nat /\ Day(clock)' \in Nat /\ Day(clock) <= Day(clock)'
           /\ unpruned \subseteq unpruned'
  <1>1. clock \in Nat /\ clock' \in Nat /\ clock <= clock'
    <2>1. clock \in Nat
      BY DEF Inv, BackupsTypeOK
    <2>2. clock' = clock \/ clock' = clock + 1
      BY DEF Next, Run, Begin, OpenSnapshot, CopyDatabase, SnapshotFails, CreateZip, WriteZip,
         WriteFails, WriteAndRemoveFail, ListExpired, RemoveExpired, RunReturns, Cleanup,
         ListStrays, ListExcess, RemoveDoomed, CleanupReturns, DropStray, Tick, Crash
    <2> QED BY <2>1, <2>2
  <1>2. Day(clock)' = Day(clock')
    BY DEF Day
  <1>3. unpruned \subseteq unpruned'
    BY DEF Next, Run, Begin, OpenSnapshot, CopyDatabase, SnapshotFails, CreateZip, WriteZip,
       WriteFails, WriteAndRemoveFail, ListExpired, RemoveExpired, RunReturns, Cleanup,
       ListStrays, ListExcess, RemoveDoomed, CleanupReturns, DropStray, Tick, Crash, history
  <1> QED BY <1>1, <1>2, <1>3, DayMonotone

\* A file that shields another does so until it is removed.
LEMMA ShieldGrows ==
    ASSUME Inv, FilesFinite, Next, NEW f \in FileName, f.suffix \in Suffix,
           Shield(f) \subseteq DOMAIN dir', Cardinality(Shield(f)) >= Retained - 1
    PROVE  Cardinality(Shield(f)') >= Retained - 1
  <1>1. Shield(f) \subseteq Shield(f)'
    <2> SUFFICES ASSUME NEW g \in Shield(f) PROVE g \in Shield(f)'
      OBVIOUS
    <2>1. g \in DOMAIN dir /\ g \in DOMAIN dir' /\ g.suffix = f.suffix /\ f.day < g.day
      BY DEF Shield, BackupsOf
    <2>2. g.day \in Nat /\ g.day < Day(clock)
      BY <2>1, Names DEF Shield, Inv, BackupsTypeOK, IsTable
    <2>3. g.day < Day(clock)'
      BY <2>2, TimeGoesOn
    <2>4. run'[f.suffix] # Idle => g.day < run'[f.suffix].name.day
      BY <2>2, NamesKept DEF Shield
    <2> QED BY <2>1, <2>3, <2>4 DEF Shield, BackupsOf
  <1>2. Shield(f)' \subseteq DOMAIN dir'
    BY DEF Shield, BackupsOf
  <1>3. IsFiniteSet(Shield(f)')
    BY <1>2, FinitelyMore, FS_Subset DEF FilesFinite
  <1>4. Cardinality(Shield(f)) <= Cardinality(Shield(f)') /\ IsFiniteSet(Shield(f))
    BY <1>1, <1>3, FS_Subset
  <1>5. Cardinality(Shield(f)) \in Nat /\ Cardinality(Shield(f)') \in Nat
    BY <1>3, <1>4, FS_CardinalityType
  <1> QED BY <1>4, <1>5, BackupsAssumption

\* Of the backups in excess each has Retained - 1 newer ones that stay: of those
\* newer than it only one may be of today or the one that is being made.
LEMMA ExcessShielded ==
    ASSUME Inv, FilesFinite, NEW s \in Suffix, NEW f \in Excess(s)
    PROVE  Cardinality(Shield(f)) >= Retained - 1
  <1> DEFINE newer == {g \in BackupsOf(s) : g.day > f.day}
  <1>1. f \in BackupsOf(s) /\ f.suffix = s /\ Cardinality(newer) >= Retained
    BY DEF Excess, BackupsOf
  <1>2. Shield(f) \subseteq newer /\ newer \subseteq DOMAIN dir
    <2>1. \A g \in BackupsOf(s) \cup {f} : g.day \in Nat
      BY <1>1, Names DEF BackupsOf, Inv, BackupsTypeOK, IsTable
    <2> QED BY <1>1, <2>1 DEF Shield, BackupsOf
  <1>3. ASSUME NEW g \in newer \ Shield(f), NEW h \in newer \ Shield(f) PROVE g = h
    <2>1. /\ g \in FileName /\ h \in FileName /\ f \in FileName
          /\ g.suffix = s /\ h.suffix = s /\ g # Stray /\ h # Stray
      BY <1>1, Names DEF BackupsOf, Inv, BackupsTypeOK, IsTable
    <2>2. g.day \in Nat /\ h.day \in Nat /\ f.day \in Nat /\ Day(clock) \in Nat
          /\ (run[s] # Idle => run[s].name.day \in Nat)
      BY <2>1, Names, CallTyped, DayMonotone DEF Inv, BackupsTypeOK
    <2>3. /\ g.day <= Day(clock) /\ h.day <= Day(clock)
          /\ run[s] # Idle => g.day <= run[s].name.day /\ h.day <= run[s].name.day
      BY <2>1 DEF Inv, NothingNewer, BackupsOf
    <2>4. /\ g.day = Day(clock) \/ (run[s] # Idle /\ g.day = run[s].name.day)
          /\ h.day = Day(clock) \/ (run[s] # Idle /\ h.day = run[s].name.day)
      BY <1>1, <2>2, <2>3 DEF Shield
    <2>5. g.day = h.day
      BY <2>2, <2>3, <2>4
    <2>6. g \in [suffix : Suffix, day : 0 .. Day(MaxTime)]
          /\ h \in [suffix : Suffix, day : 0 .. Day(MaxTime)]
      BY <2>1 DEF FileName
    <2> QED BY <2>1, <2>5, <2>6
  <1>4. PICK x : newer \subseteq Shield(f) \cup {x}
    <2>1. CASE newer \subseteq Shield(f)
      BY <2>1
    <2>2. CASE ~(newer \subseteq Shield(f))
      BY <1>3, <2>2
    <2> QED BY <2>1, <2>2
  <1>5. IsFiniteSet(Shield(f)) /\ IsFiniteSet(newer)
    BY <1>2, FS_Subset DEF FilesFinite
  <1> HIDE DEF newer
  <1>6. /\ IsFiniteSet(Shield(f) \cup {x})
        /\ Cardinality(Shield(f) \cup {x}) <= Cardinality(Shield(f)) + 1
        /\ Cardinality(Shield(f) \cup {x}) \in Nat
    BY <1>5, OneMore
  <1>7. Cardinality(newer) <= Cardinality(Shield(f) \cup {x})
    BY <1>4, <1>6, FS_Subset
  <1>8. Cardinality(newer) \in Nat /\ Cardinality(Shield(f)) \in Nat
    BY <1>5, FS_CardinalityType
  <1> QED BY <1>1, <1>6, <1>7, <1>8, BackupsAssumption

\* What is doomed and there was there before: the file that a call creates is newer.
LEMMA DoomedIsOld ==
    ASSUME Inv, Next, cleanup # Idle, NEW f \in cleanup.doomed, f.suffix \in Suffix,
           f \in DOMAIN dir'
    PROVE  f \in DOMAIN dir
  <1>1. ASSUME NEW s \in Suffix, CreateZip(s) PROVE f \in DOMAIN dir
    <2>1. run[s] # Idle
      BY <1>1 DEF CreateZip, Running, Idle
    <2>2. run[s].name.suffix = s /\ run[s].name.day \in Nat
      BY <2>1, CallTyped, Names
    <2>3. f # run[s].name
      BY <2>1, <2>2 DEF Inv, DoomedIsOlder
    <2> QED BY <1>1, <2>3 DEF CreateZip, Insert
  <1>2. CASE DropStray
    BY <1>2, Names DEF DropStray, Insert
  <1> QED BY <1>1, <1>2 DEF Next, Run, Begin, OpenSnapshot, CopyDatabase, SnapshotFails,
         WriteZip, WriteFails, WriteAndRemoveFail, ListExpired, RemoveExpired, RunReturns,
         Cleanup, ListStrays, ListExcess, RemoveDoomed, CleanupReturns, Tick, Crash, Delete

\* A step that leaves f doomed removes no file that shields it: the cleanup takes
\* the oldest first, and pruning by age comes to f first.
LEMMA ShieldStands ==
    ASSUME Inv, PrunedInOrder, Next, cleanup # Idle,
           NEW f \in cleanup.doomed \cap DOMAIN dir, f.suffix \in Suffix \ unpruned',
           cleanup' # Idle, f \in cleanup'.doomed
    PROVE  Shield(f) \subseteq DOMAIN dir'
  <1> SUFFICES ASSUME NEW g \in Shield(f), g \notin DOMAIN dir' PROVE FALSE
    OBVIOUS
  <1>1. g \in DOMAIN dir /\ g.suffix = f.suffix /\ f.day < g.day
    BY DEF Shield, BackupsOf
  <1>2. f.day \in Nat /\ g.day \in Nat
    BY <1>1, Names DEF Inv, BackupsTypeOK, IsTable
  <1>3. ASSUME NEW s \in Suffix, Run(s) PROVE FALSE
    <2>1. s = f.suffix
      BY <1>1, <1>3, OtherSuffix DEF SameFiles, BackupsOf
    <2>2. CASE WriteFails(s)
      <3>1. g = run[s].name /\ run[s] # Idle
        BY <1>1, <2>2 DEF WriteFails, Delete, Running, Idle
      <3> QED BY <1>2, <2>1, <3>1 DEF Shield
    <2>3. CASE RemoveExpired(s)
      <3>1. g \in Oldest(run[s].expired)
        BY <1>1, <2>3 DEF RemoveExpired, Delete
      <3>2. s \notin unpruned
        BY <2>1, TimeGoesOn
      <3>3. f \in run[s].expired
        BY <1>1, <2>1, <2>3, <3>1, <3>2 DEF PrunedInOrder, RemoveExpired, Oldest, BackupsOf
      <3> QED BY <1>1, <1>2, <3>1, <3>3 DEF Oldest
    <2> QED BY <1>1, <1>3, <2>2, <2>3 DEF Run, Begin, OpenSnapshot, CopyDatabase,
           SnapshotFails, CreateZip, WriteZip, WriteAndRemoveFail, ListExpired, RunReturns,
           Insert
  <1>4. CASE RemoveDoomed
    <2>1. g \in Oldest(cleanup.doomed)
      BY <1>1, <1>4 DEF RemoveDoomed, Delete
    <2> QED BY <1>1, <1>2, <2>1 DEF Oldest
  <1> QED BY <1>1, <1>3, <1>4 DEF Next, Cleanup, ListStrays, ListExcess, CleanupReturns,
         DropStray, Tick, Crash, Insert

\* The cleanup dooms only what is shielded, and takes nothing that shields it.
LEMMA DoomedStep ==
    ASSUME Inv, FilesFinite, PrunedInOrder, DoomedIsShielded, Next
    PROVE  DoomedIsShielded'
  <1> SUFFICES ASSUME cleanup' # Idle, NEW f \in cleanup'.doomed, f \in DOMAIN dir',
                      f.suffix \in Suffix \ unpruned'
               PROVE  Cardinality(Shield(f)') >= Retained - 1
    BY DEF DoomedIsShielded
  <1>1. ~ListStrays
    BY DEF ListStrays
  <1>2. CASE ListExcess
    <2> DEFINE s == Head(cleanup.todo)
    <2>1. cleanup.todo \in Seq(Suffix) /\ cleanup.todo # <<>>
      BY <1>2 DEF Inv, BackupsTypeOK, ListExcess, Idle
    <2>2. s \in Suffix /\ f \in Excess(s)
      BY <1>2, <2>1 DEF ListExcess
    <2>3. Cardinality(Shield(f)) >= Retained - 1
      BY <2>2, ExcessShielded
    <2>4. Shield(f)' = Shield(f)
      BY <1>2 DEF ListExcess, Shield, BackupsOf, Day
    <2> QED BY <2>3, <2>4
  <1>3. CASE ~ListExcess
    <2>1. cleanup # Idle /\ f \in cleanup.doomed
      <3>1. CASE RemoveDoomed
        BY <3>1 DEF RemoveDoomed, Inv, BackupsTypeOK, Idle
      <3> QED BY <1>1, <1>3, <3>1 DEF Next, Run, Begin, OpenSnapshot, CopyDatabase,
             SnapshotFails, CreateZip, WriteZip, WriteFails, WriteAndRemoveFail, ListExpired,
             RemoveExpired, RunReturns, Cleanup, CleanupReturns, DropStray, Tick, Crash
    <2>2. f \in DOMAIN dir /\ f \in FileName
      BY <2>1, DoomedIsOld DEF Inv, BackupsTypeOK, IsTable
    <2>3. Cardinality(Shield(f)) >= Retained - 1
      BY <2>1, <2>2, TimeGoesOn DEF DoomedIsShielded
    <2>4. Shield(f) \subseteq DOMAIN dir'
      BY <2>1, <2>2, ShieldStands
    <2> QED BY <2>2, <2>3, <2>4, ShieldGrows
  <1> QED BY <1>2, <1>3

-----------------------------------------------------------------------------
(* The theorems on pruning *)

\* The directory is empty at first.
LEMMA InitCounts == Init => Counts
  <1> SUFFICES ASSUME Init PROVE Counts
    OBVIOUS
  <1>1. DOMAIN dir = {}
    BY DEF Init, EmptyTable
  <1>2. \A s \in Suffix : Leftover(s) = {}
    BY <1>1 DEF Leftover, Partial
  <1>3. FilesFinite
    BY <1>1, FS_EmptySet DEF FilesFinite
  <1>4. PartialsAccounted
    BY <1>2, FS_EmptySet DEF PartialsAccounted, Leftover, Init
  <1> QED BY <1>3, <1>4 DEF Counts, Init, PrunedInOrder, DoomedIsShielded, Running, Idle

\* Every step keeps the counts.
LEMMA StepCounts == Inv /\ Counts /\ [Next]_vars => Counts'
  <1> SUFFICES ASSUME Inv, Counts, [Next]_vars PROVE Counts'
    OBVIOUS
  <1>1. CASE Next
    BY <1>1, FinitelyMore, PartialsStep, PrunedStep, DoomedStep DEF Counts
  <1>2. CASE UNCHANGED vars
    <2>1. UNCHANGED <<clock, dir, run, cleanup, interrupted, unpruned>>
      BY <1>2 DEF vars, history
    <2>2. FilesFinite'
      BY <2>1 DEF Counts, FilesFinite
    <2>3. PartialsAccounted'
      BY <2>1 DEF Counts, PartialsAccounted, Partial, Running
    <2>4. PrunedInOrder'
      BY <2>1 DEF Counts, PrunedInOrder, BackupsOf, Running
    <2>5. DoomedIsShielded'
      <3>1. \A f : Shield(f)' = Shield(f)
        BY <2>1 DEF Shield, BackupsOf, Day
      <3> QED BY <2>1, <3>1 DEF Counts, DoomedIsShielded
    <2> QED BY <2>2, <2>3, <2>4, <2>5 DEF Counts
  <1> QED BY <1>1, <1>2

\* The counts hold of every behaviour of the backup jobs.
LEMMA CountsHold == Spec => [](Inv /\ Counts)
  <1>1. Inv /\ Counts /\ [Next]_vars => (Inv /\ Counts)'
    BY StepInv, StepCounts
  <1> QED BY InitInv, InitCounts, <1>1, PTL DEF Spec

\* The backups that are left partial are no more than the calls that were cut off or
\* could not remove what they had written (createBackup in service.go).
THEOREM PartialsCounted == Spec => []PartialsAccounted
  <1>1. Counts => PartialsAccounted
    BY DEF Counts
  <1> QED BY <1>1, CountsHold, PTL

\* A whole backup that a step takes from its suffix, when it is the last.
LEMMA SparesStep ==
    ASSUME Inv, Counts, Next, NEW s \in Suffix \ unpruned, Whole(s) # {}, Whole(s)' = {}
    PROVE  \/ interrupted[s] >= Retained - 1
           \/ Running(s, "writing")' /\ Whole(s) = {run[s].name}
  <1>1. ASSUME NEW u \in Suffix, Run(u)
        PROVE  Running(s, "writing")' /\ Whole(s) = {run[s].name}
    <2>1. u = s
      BY <1>1, OtherSuffix DEF SameFiles, BackupsOf, Whole
    <2>2. CASE CreateZip(s)
      <3>1. \A f \in Whole(s) : f = run[s].name
        BY <2>2 DEF CreateZip, Whole, Insert
      <3>2. Running(s, "writing")'
        <4>1. run[s] \in Call
          BY <2>2, CallTyped DEF CreateZip, Running, Idle
        <4> QED BY <2>2, <4>1 DEF CreateZip, Running, Inv, BackupsTypeOK, Call
      <3> QED BY <3>1, <3>2
    <2>3. CASE WriteZip(s)
      BY <2>3 DEF WriteZip, Whole
    <2>4. CASE WriteFails(s)
      <3>1. run[s].name \in Partial(s)
        BY <2>4 DEF WriteFails, Inv, WrittenBackupStands
      <3> QED BY <2>4, <3>1 DEF WriteFails, Whole, Partial, Delete
    <2>5. CASE RemoveExpired(s)
      <3>1. run[s].name \in Whole(s) /\ run[s] # Idle
        BY <2>5 DEF RemoveExpired, Inv, WrittenBackupStands, Running, Idle
      <3>2. \A f \in run[s].expired : f # run[s].name
        BY <3>1 DEF Inv, ExpiredIsOther
      <3> QED BY <2>5, <3>1, <3>2 DEF RemoveExpired, Oldest, Whole, Delete
    <2> QED BY <1>1, <2>1, <2>2, <2>3, <2>4, <2>5 DEF Run, Begin, OpenSnapshot, CopyDatabase,
           SnapshotFails, WriteAndRemoveFail, ListExpired, RunReturns, Whole
  <1>2. CASE RemoveDoomed
    <2>1. PICK x \in cleanup.doomed : dir' \in {dir, Delete(dir, x)}
      BY <1>2 DEF RemoveDoomed, Oldest
    <2>2. x \in Whole(s) /\ \A f \in Whole(s) : f = x
      BY <2>1 DEF Whole, Delete
    <2>3. x \in DOMAIN dir /\ x.suffix = s
      BY <2>2 DEF Whole
    <2>4. Cardinality(Shield(x)) >= Retained - 1
      BY <1>2, <2>1, <2>3 DEF RemoveDoomed, Counts, DoomedIsShielded
    <2>5. Shield(x) \subseteq Leftover(s)
      <3> SUFFICES ASSUME NEW g \in Shield(x) PROVE g \in Leftover(s)
        OBVIOUS
      <3>1. g \in DOMAIN dir /\ g.suffix = s /\ x.day < g.day
        BY <2>3 DEF Shield, BackupsOf
      <3>2. x.day \in Nat /\ g.day \in Nat
        BY <2>3, <3>1, Names DEF Inv, BackupsTypeOK, IsTable
      <3>3. g # x
        BY <3>1, <3>2
      <3>4. g \in Partial(s)
        BY <2>2, <3>1, <3>3 DEF Whole, Partial, Inv, BackupsTypeOK, IsTable
      <3>5. ~ (Running(s, "writing") /\ run[s].name = g)
        BY <2>3, <3>2 DEF Shield, Running, Idle
      <3> QED BY <3>4, <3>5 DEF Leftover
    <2>6. IsFiniteSet(Leftover(s))
      <3>1. Leftover(s) \subseteq DOMAIN dir
        BY DEF Leftover, Partial
      <3> QED BY <3>1, FS_Subset DEF Counts, FilesFinite
    <2>7. Cardinality(Shield(x)) <= Cardinality(Leftover(s)) /\ IsFiniteSet(Shield(x))
      BY <2>5, <2>6, FS_Subset
    <2>8. Cardinality(Leftover(s)) <= interrupted[s]
      BY DEF Counts, PartialsAccounted, Leftover
    <2>9. Cardinality(Shield(x)) \in Nat /\ Cardinality(Leftover(s)) \in Nat
          /\ interrupted[s] \in Nat /\ Retained \in Nat
      BY <2>6, <2>7, FS_CardinalityType, BackupsAssumption DEF Inv, BackupsTypeOK
    <2> QED BY <2>4, <2>7, <2>8, <2>9
  <1>3. CASE DropStray
    BY <1>3 DEF DropStray, Whole, Insert
  <1>4. CASE ListStrays \/ ListExcess \/ CleanupReturns \/ Tick \/ Crash
    BY <1>4 DEF ListStrays, ListExcess, CleanupReturns, Tick, Crash, Whole
  <1> QED BY <1>1, <1>2, <1>3, <1>4 DEF Next, Cleanup

\* pruneByDate and pruneByCount leave the last whole backup of a suffix, unless the
\* remains of interrupted calls, which pruneByCount counts, have displaced it.
THEOREM LastGoodSpared == Spec => LastGoodIsSpared
  <1>1. Inv /\ Counts /\ [Next]_vars =>
            [\A s \in Suffix \ unpruned :
                (Whole(s) # {} /\ Whole(s)' = {}) =>
                    \/ interrupted[s] >= Retained - 1
                    \/ Running(s, "writing")' /\ Whole(s) = {run[s].name}]_vars
    BY SparesStep
  <1> QED BY <1>1, CountsHold, PTL DEF Spec, LastGoodIsSpared
=============================================================================
