\* The daily backups with the retention of the code, six days of two ticks, a
\* crash and a partial file that cannot be removed.
CONSTANTS
    Databases <- BothDatabases
    Suffixes <- DailyOnly
    Period <- DailyPeriod
    Retained = 3
    TicksPerDay = 2
    MaxRun = 2
    MaxTime = 11
    MaxCrashes = 1
    MaxInterrupted = 1
SPECIFICATION Spec
INVARIANTS
    BackupsTypeOK
    SnapshotsRemoved
    WrittenBackupStands
    PartialsAccounted
PROPERTIES
    LastGoodIsSpared
