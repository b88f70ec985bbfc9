# Verification of kumacore

TLA+ models of kumacore, the TLC runs that check them on small instances, and
theorems that TLAPS proves for every instance. Paths are relative to the
repository; `PROJECT.json` maps every definition to the lines it models.

## The system

kumacore is a Go web framework and a generator of applications built on it. A
generated server is one process over two SQLite files: the application
database (users, sessions, roles) and the worker database (job queue). What it
is made of, and the state, operations and hard parts of each component:

| component | state | operations | what is hard | what makes it correct |
|---|---|---|---|---|
| `core/worker` | tables `job_queue`, `job_history`, `job_graveyard`; in memory the registered jobs, a wait group, a poll goroutine, one goroutine per claimed job and per scheduled job | Initialize, Register, Start, Close, Enqueue, TriggerJob; claim, run, complete, retry, bury, reset | goroutines that use copies of rows, failing and cancelled writes, crashes, restarts by another release, shutdown, two processes | every accepted job is run at most a bounded number of times, is settled exactly once and eventually, and nothing is lost |
| `core/db/migrate` | `schema_migrations`, the schema; in memory a plan | Validate, Apply, ApplyPlan | plans made outside the transaction that applies them; racing releases; crashes | each migration runs once, in order, and a server serves only on a schema that fits |
| `app/modules/health` | none | Live, Ready | its migration check ignores the plan | ready says what it means |
| `core/cache` | a map with expiry times under a read-write lock | Get, Set, Remove, Purge, Len | Get drops the lock between looking and evicting | fresh entries survive, stale ones are not returned |
| `app/services/auth`, its repository, middleware and handlers | `sessions` table, a cache of users by token | Authenticate, UserForToken, Logout | table and cache are not updated together; a request's time is older than the data | users are served while their session is valid, and only then |
| `core/app` | HTTP server, log file, databases | Initialize, Start, close | order of start and shutdown, drain deadline, error paths | resources are closed after their users, and the end comes |
| `app/jobs/backup`, `app/jobs/logging` | files in two directories | daily and weekly backup, cleanups | partial files, retention during a backup, day boundaries | there is a good backup to go back to |
| `core/render` | base templates, a cache of pages | Render | double-checked cache, parse errors under a lock, clones | one template per page, with nothing of another page |
| `cmd/kumacore` | none (writes a project tree) | init | failures while a tree is written, other users of its name, text replaced between markers, two lists of packages kept by hand | the project appears whole or not at all, and compiles |
| `cmd/server` | none | wiring at start | | |
| `core/db`, `core/db/sqlite` | a database handle | open, backup | pragmas, I/O | |
| `core/config`, `core/httpx`, `core/security`, `core/module`, `core/media`, `app/dispatch`, `app/modules/home` | none or read-only after start | parsing, routing, headers | | |

Interaction: the process initializes the application database, then the worker
database, registers jobs, starts the worker under a context that SIGINT and
SIGTERM end, and only then binds its port. Handlers call the auth service, and
may enqueue or trigger jobs. At the end `App.close` closes the worker, which
waits for its goroutines, then the log, then the application database.

## Modules

| module | models | composed with |
|---|---|---|
| `Tables` | a SQL table as a function from primary keys to rows | used by all |
| `JobLifecycle` | the abstract promise of the job queue: a job is absent, open, completed or buried, with a number of recorded attempts | refined by `WorkerRuntime` |
| `WorkerRuntime` | `core/worker`: tables, process phases, poll loop, executors, scheduled jobs, triggered runs | `Tables` |
| `WorkerProperties` | what must hold of it, and the refinement mapping to `JobLifecycle` | |
| `WorkerOverlap` | two instances of `WorkerProperties` that share the tables | |
| `WorkerProofs` | the theorems about one process | |
| `OverlapProofs` | the theorem about two | |
| `AppLifecycle` | `core/app`: the main goroutine from `New` to the end of the process, the listener, signals, handlers | an instance of `WorkerRuntime`, whose steps are steps of the process |
| `AppProofs` | the theorems about it, and those of `WorkerProofs` carried over to it | an instance of `WorkerProofs` |
| `Migrations` | `core/db/migrate` and the readiness check, several processes | `Tables` |
| `MigrationProofs` | the theorems about it | |
| `TTLCache` | `core/cache` with `Get` split at its locks | `Tables` |
| `CacheCalls` | the cache with a history of what an atomic `Get` could have answered | `TTLCache` |
| `AuthSessions` | login, `LoadAuth` and logout over the sessions table and the cache | `TTLCache` |
| `AuthProofs` | the theorems about the cache, by itself and under the sessions | |
| `PageCache` | `core/render`: concurrent calls of `Render` over the page cache and its lock | `Tables` |
| `PageProofs` | the theorems about it | |
| `Backups` | `app/jobs/backup`: the backup directory under the daily, weekly and cleanup jobs | `Tables` |
| `BackupsProofs` | the theorems about it | |
| `ServerWiring` | what `kumacore init` plans to write, and how it rewrites the marked regions of `cmd/server` | |
| `Scaffold` | calls of `kumacore init`: staging, the rename into place, what is told | `ServerWiring` |
| `ScaffoldProofs` | the theorems about it | |
| `MCWorker`, `MCApp`, `MCMigrations`, `MCCache`, `MCSessions`, `MCPages`, `MCBackups`, `MCScaffold` | small instances for TLC | |

### The job runner

`WorkerRuntime` has one action per step that another goroutine, another process
or a crash can observe: a SQL statement or transaction, the start of a
goroutine, a call of `Run`. Actions of the poll loop (`ResetOrphaned`,
`ClaimPending`, `SpawnExecutor`, `PollExit`) are guarded by `pollLoop`, those of
an executor (`Dispatch`, `RunSucceeds`, `RunErrs`, `Complete`, `Retry`, `Bury`,
`Reject`) by `pc`, and the record a goroutine carries is the copy it got at claim
time. Every write can fail: always when the context is done, and otherwise by a
fault of the database, which sets `faulted` so that properties can ask about
processes without faults. `Exit` is a crash or the normal end; `Boot` starts a
process of any release, that is with any set of registered names. A payload is
either decodable or not.

Left out: the error texts, log lines and time stamps; the tick periods (a tick
may come at any time); `Register`'s refusal of empty and duplicate names (a
release is a set of names); `NewRuntime`'s refusal of bad arguments, which are
assumptions on the constants.

### The application lifecycle

`stage` says where the main goroutine is in `Initialize`, `Start` or `close`, with
one action per call that can fail or that others observe. `AppLifecycle` has the
variables of `WorkerRuntime` and uses its actions: `Boot` when the worker is
initialized, `Start`, `Signal`, `CloseBegin` and `CloseEnd` for its part of the
shutdown, and `WorkerSteps` for its goroutines, so that a job runs, ends or is
cancelled while the main goroutine goes through its own steps. What the module
adds are the resources that `close` closes and the handlers that use them.

What follows from the code and may surprise:

* Opening the log is the one error that `Initialize` returns without `close`;
  `main` then ends the process.
* When the listener fails, `Start` drains nothing. When the drain deadline
  passes, handlers run on and meet closed databases. `UsersHaveDatabases` makes
  exactly these two exceptions.
* `Close` of the worker has no deadline: it waits as long as a job ignores its
  context.

Left out: a second signal after `stop()`, which kills the process (that is the
`Exit` of `WorkerRuntime`), and which file the log writes to.

### Migrations

A release is a set of directory entries; an entry is its kind, sequence and
version, where the version stands for file name and checksum. `Boot`, `Probe`
and `Load` are the reads of `Validate`, each in its own step, so that another
process can commit in between; `Begin`, `ApplyMigration` and `Commit` are
`ApplyPlan`. SQLite has one writer: `Begin` takes the lock. A transaction that
fails or whose process dies leaves nothing. `executed` is a history variable,
the SQL that has run for good.

Validation alone does not keep a release that edited, lost or branched off a
recorded migration from adding to the log, because the record may come after the
validation. `OnlySuccessorsMigrate` says that such a release adds nothing
nevertheless: the log moves only from a part of what a release lists to all of it.
What enforces it is the primary key of the tracking table; an `INSERT OR IGNORE`
in its place would break the property (the mutant of `ApplyMigration`).

### Cache and sessions

`TTLCache` has a clock of its own and a step for each section of `Get` under a
lock and for the comparison between them. `AuthSessions` uses those steps
inside `UserForToken` and adds the steps of the service: the comparison with the
session's own expiry, the removal, the two queries, the fill. A request carries
the time of its arrival. Seconds are ticks divided by `TicksPerSecond`. The
cached value is the session's expiry alone, because the user is determined by
the token: users, passwords and roles are not changed by any code of the
repository. `withdrawn` and `late` are history variables: tokens whose logout
has returned, and those of them that some request had looked up before the
deletion and had not yet cached.

### The page cache

`PageCache` has one action for each stretch of `Manager.resolve` under a lock, and
`BuildBase` and `ParsePage` in `build`, so that files can be edited between them.
The read lock is held within one step only (`Lookup`), the write lock from
`LockCache` to the deferred `Unlock`. A template is the edition its layouts were
read in, the pages parsed into it and the edition of the last: what tells whether
it is stale, doubly parsed or polluted by another page. `parsed` is a history
variable. Left out: which template of the set is executed, and its output.

### Backups

The worker calls the daily job, the weekly job and the cleanup when the process
starts and at the ticks of their intervals, each from a goroutine of its own. A
call of `Run` is a record that moves through the stages of `createBackup` and
`pruneByDate`: `Begin` fixes the name from the clock, `OpenSnapshot` and
`CopyDatabase` make one snapshot after the other, `CreateZip` truncates the file of
that name, `WriteZip` completes it, `ListExpired` and `RemoveExpired` prune by age.
Each stage has its failure, with what the deferred calls then remove. A cleanup
reads the directory (`ListStrays`, `ListExcess`) and removes from that list
(`RemoveDoomed`), so a list may be old when it is used. A job may begin at any moment
at which it is not running, which covers restarts, late ticks and the workers of
every schedule. `Crash` ends all calls; it is a crash of the process, not of the
machine, as no code syncs a file. `interrupted` and `unpruned` are history
variables: partial files that a crash or a failed removal left, and suffixes with an
expired backup that could not be removed.

Left out: the contents of an archive, and files whose name has eight digits that
are no date.

### The scaffolder

`ServerWiring` is the part of `kumacore init` without state: the plan of files
for a choice of modules, and the rewriting of marked regions, as a recursive function
on the number of sections that are done. A source file is a sequence of lines, each a marker or a piece of code,
of which the packages it imports and uses are kept. `Scaffold` runs calls of the
tool one step per file operation, each with its failure, next to other calls and
to anybody else who uses the project's name (`Occupy`), with a kill at any
moment. What follows from the code:

* An empty directory that appears at the last moment is replaced; nothing else is.
  On Unix `os.Rename` looks for a directory in the way before it renames, so this
  moment is the one between that look and the system call. `Move` allows it from the
  check of the tool on, and `MoveFails` the refusal: more than can happen.
* What is between the markers of a region disappears with it, the markers of other
  sections too. Inside the region of an earlier section a doubled marker therefore
  goes unnoticed (`open` in `Regions`); inside the region of a later section, so does
  a whole region, already rewritten (`inside` comes before `begins` in `Expected`).
  `RewriteIsExact` says just what the rewriting accepts and what it returns, and
  with what is thrown away it still never loses code outside the regions.
* When printing the summary fails, the call reports failure although the project
  stands. A killed call leaves its staging directory.

Left out: prompts, the characters of a project name, and the text of the code.

## Runs

| run | question | bounds and why they are enough |
|---|---|---|
| `worker_safety` | do claims, retries, crashes and releases keep rows owned, in one table, counted and settled once, and does the runner refine `JobLifecycle`? | two jobs and two executors (every property relates at most two jobs or two goroutines), three processes (an outcome lost twice and a third process that settles), two attempts (one retry and one last attempt) |
| `worker_settles` | is every accepted job eventually settled? | two jobs, one executor, two processes: rows left running by the first are settled by the second |
| `overlap_reset` | does the startup reset take back orphans only? No | two processes, one job |
| `overlap_kept` | do two processes lose an accepted job? | two processes, one job, two attempts |
| `migrations` | do racing processes of different releases keep log and schema in step, extend only a log that is theirs, and serve only what fits? | two processes and ten releases: successors, a branch, an edited file, a hole, a duplicate, a zero, a dotfile, a subdirectory |
| `cache` | is a hit justified and are fresh entries spared? | two callers, one key, two values; no expiry and two lifetimes |
| `sessions` | are users served and rejected for cause? | two concurrent requests of one token; a cache that outlives the session, one that does not and one without expiry; half-second ticks |
| `backups` | are snapshots removed, is the new backup never unlinked, are partial files accounted for and the last good backup spared? | the daily backups with the retention of the code (three), six days of two ticks: a backup lives through the four days of the retention by age and one more, and a run may cross midnight; one crash and one partial file that cannot be removed |
| `app` | do databases and log outlive their users on every path, and does the end come? | the worker with one queued and one scheduled job, one executor, two requests: each kind of user of a resource, and a request that is answered while another hangs |
| `pages` | is a page parsed once and answered alone, and does every call return? | three requests and two pages: two meet at one page while the third takes the lock for another; one edit |
| `scaffold` | does a project appear whole or not at all, is the outcome told, and is the wiring rewritten exactly? | two calls for one name; the intact source, and every source with one marker dropped, doubled (in front, inside the first region, behind the third), two swapped, or one moved to the front, so that a region has earlier ones inside; and two markers doubled, each inside another region |
| `scaffold_builds` | does the generated server compile? No | one call over the intact source, each choice of modules that matters |

Bounds in the guards: `MaxBoots` (processes after each other), `MaxTime` (last
tick), `MaxRun` (ticks a backup may take), `MaxCrashes`, `MaxInterrupted`, `MaxEdits`, one triggered run per job and process, one identifier per job. Symmetry
is used for jobs, goroutines, processes, callers and values, in runs without
liveness properties only.

The worker, the application and the scaffolder really stop (a process ends, a
project is generated), so their runs do not check deadlock; the others do.

### What the runs found

* `overlap_reset`: the reset does not tell orphaned rows from those another live
  process runs. `overlap_kept` shows that this costs a second run and never a job.
* `scaffold_builds`: the server that `kumacore init` writes does not compile, for
  any choice of modules. The rendered worker wiring imports `app/jobs/backup`,
  which is not copied. `core/cache` is imported outside the markers, so it is
  imported twice with the auth module and unused without it. Without the auth
  module no file matches the pattern that `app/migrations/embed.go` embeds.

### Fairness

`worker_settles` assumes what the Go scheduler gives: each goroutine that can
step does (weak fairness of the poll loop, of each executor's dispatch and
settling). A select between a tick and a done context picks at random, so leaving
a scheduled job's loop is strongly fair; `wg.Wait` is released when the counter
reaches zero, so the end of `Close` is too. Jobs are assumed to return
(`JobsTerminate`). Nothing is assumed of crashes, faults, callers or restarts;
`EveryJobSettles` is conditional on a process that keeps serving without faults.

`app` assumes that the main goroutine, `ListenAndServe` and the timer of the drain
go on, the fairness of the worker, and that jobs return when their context is
done (`JobsHeedContext`): `Close` waits for them without a deadline. Nothing is
assumed of handlers, which may hang for ever.

`pages` assumes that a call of `Render` goes on, and that `sync.RWMutex` lets in
everybody who waits: the two acquisitions (`Lookup`, `LockCache`) are strongly fair,
since the lock may be taken and released by others in between.

## Proofs

`WorkerProofs` proves, for every set of jobs, names, goroutines and every bound,
from `WorkerAssumption` and `NoRecordAssumption` only:

| theorem | property |
|---|---|
| `TypeCorrect` | `TypeOK` |
| `OwnershipHolds` | `ClaimOwnership` |
| `OneTableHolds` | `OneTable` |
| `AttemptsAccounted` | `AttemptAccounting` |
| `ClosedQuietly` | `ClosedIsQuiet` |
| `SettledForGood` | `SettledIsFinal` |
| `NotStranded` | `NoSilentStranding` |
| `LifecycleImplemented` | `ImplementsLifecycle` |

The inductive invariant `Inv` has five parts. `TypeOK` alone is inductive.
`ProcessShape` says which goroutines a phase of the process can have: before the
startup reset there is no executor and no claim, and a process that is down or
closed has none at all. It is what makes the reset safe. `ClaimOwnership` needs it:
the reset and the claim change rows by status, and a busy executor's row must not
be among those that the reset takes back. `OneTable` follows from ownership,
because the settling transactions insert a job whose row they delete.
`Accounting` strengthens `AttemptAccounting`: a row that nobody works on has at
most as many unrecorded runs as there were earlier processes, an executor adds one
when it calls `Run`, and an unknown job has none. Without the part about untouched
rows the step of `Dispatch` would not be inductive. The refinement needs `OneTable`
(the stage of a job is which table it is in) and ownership (the attempts an
executor writes are those of the row). `NotStranded` is inductive relative to `Inv`.

`OverlapProofs` proves `AcceptedForGood`, that is `AcceptedIsKept`, for two processes
over one database, without any assumption on the constants and although
`ClaimOwnership` and `OneTable` fail there: a goroutine may settle a row that the
other process has taken from it. It rests on the transactions alone, each of which
takes a row out of the queue only when it puts its job elsewhere, and so needs no
invariant (`KeptByA`, `KeptByB`).

`BackupsProofs` proves, for any databases, suffixes, periods and retention, from
`BackupsAssumption` and `RunAssumption` (a run takes less than the retention by
age):

| theorem | property |
|---|---|
| `BackupsTyped` | `BackupsTypeOK` |
| `NoSnapshotLeaks` | `SnapshotsRemoved` |
| `NewBackupStands` | `WrittenBackupStands` |
| `PartialsCounted` | `PartialsAccounted` |
| `LastGoodSpared` | `LastGoodIsSpared` |

Its invariant explains why no lock is needed between the cleanup and a run.
`NameIsOfBegin`: a run names its file after the day it began on and is over soon
after. `NothingNewer`: no file is newer than today or than the one its suffix is
making. At least one backup is retained, so one in excess of the count is older
than some file of its suffix, and stays so however old the list is
(`DoomedIsOlder`): a run that begins later makes a file of the same day as that
newer file or of a later one. `ExpiredIsOther` says the same of the pruning by age;
that is where `RunAssumption` is used. The arithmetic of days is in the lemmas
`Quotient` and `DayMonotone`.

The last two theorems count files, with the conjuncts of `Counts`. `PartialsAccounted`
is inductive: a step adds to the partial files that nobody writes (`Leftover`) none,
or one while it raises `interrupted` (`AllLeftovers`, `OneMore`). That the last good
backup is spared has a reason for each of the two that remove. The pruning by age
has listed, with a file, every older one (`PrunedInOrder`), and the new backup is not
on the list. A cleanup may use an old list. `DoomedIsShielded` says what such a
list is still worth: over a file on it stand at least `Retained - 1` backups of its
suffix, of days after its own and before the current run's and today (its
`Shield`), because those are removed only after it. Hence, when the file is the last
whole one, its shield is partial files left over, which `PartialsAccounted` bounds
by `interrupted` (`SparesStep`). The shield leaves out the file of the current day,
which a run may truncate or remove; with it the statement would not be inductive.

`AppProofs` proves, for any jobs, names, goroutines and requests, from `AppAssumption`,
which the first three do not need:

| theorem | property |
|---|---|
| `AppTyped` | `AppTypeOK` |
| `DatabasesOutliveUsers` | `UsersHaveDatabases` |
| `AllClosedOnReturn` | `ClosedOnReturn` |
| `WorkerImplemented` | refinement of `WorkerRuntime` |
| `WorkerInServer` | the properties of `WorkerProperties` but its types |
| `RunsAreCounted` | `AttemptsAreRuns` |

`AppInv` ties the two machines together. `PhaseFollows` says which phases of the
worker each stage of the main goroutine can meet, and `QuietPhases` that only a
worker that was started and is not closed has goroutines; so a step of a goroutine
tells that the main goroutine has come past `StartWorker` and not past
`WorkerCloses` (lemma `WorkerStep`), and `ResourcesFollow` says what is open there.
`RequestsFollow` does the same for handlers.

`WorkerImplemented` is the refinement: `AppSpec => W!Spec`, where `W` is the instance
of `WorkerRuntime` on the variables of the application. It makes the theorems about
the worker theorems about the server. `AppProofs` has an instance of `WorkerProofs`,
and `WorkerInServer` concludes from `AppSpec` all its safety properties, its action
property and its refinement of `JobLifecycle`; `AppAssumption` is what the worker
assumes, on the constants of `AppLifecycle` (the configuration refuses fewer than one
attempt). `RunsAreCounted` is more than the worker alone has: as a server process
boots its worker once (`BootedOnce`), the runs of a settled job are exactly its
recorded attempts, and those of a queued job at most one more.

`MigrationProofs` proves, for any processes and releases, from
`MigrationAssumption`:

| theorem | property |
|---|---|
| `MigrationsTyped` | `TypeOK` |
| `SchemaMatches` | `SchemaMatchesLog` |
| `ServingCurrent` | `ServingIsCurrent` |
| `ReadinessExact` | `ReadinessIsExact` |
| `SuccessorsMigrate` | `OnlySuccessorsMigrate` |

A plan is made outside the transaction that applies it, so it may be old. The
invariant `MigrationInv` says what an old plan still is: the entries after some
prefix of the log that is in the directory as it was recorded, and once one of them
has been run, that prefix is the whole log (`PlanFollows`), because the insertion of
a sequence that another process has recorded meanwhile fails. A plan that is begun is
not empty, so a commit has run something and its directory has the whole log
(`CommitLists`). `Covered` says that each entry of a directory is planned,
run or recorded in its own version, which gives the properties of a server.

`AuthProofs` proves of the cache by itself (`CacheCalls`), for any keys, values, callers
and durations, from `CacheAssumption`:

| theorem | property |
|---|---|
| `CacheTyped` | `CacheTypeOK` |
| `FreshEntriesSpared` | `GetSparesFreshEntries` |
| `HitsWereLive` | `HitWasLive` |

Its invariant `CopiesJustified` says that a copy a `Get` holds was live at some
moment of the call or had expired by then, and what has expired stays so
(`ExpiryStays`).

and of the sessions, for any tokens, requests and lifetimes, from `CacheAssumption`,
`SessionAssumption` and, for the last, `ValueAssumption` (the values of the cache
include every expiry that a login can grant):

| theorem | property |
|---|---|
| `Served` | `ServedWhileValid` |
| `Rejected` | `RejectedForCause` |
| `SignedOutForGood` | `SignedOutStaysOut` |
| `SessionsTyped` | `TypeOK` |

`Shapes` is what the proof needs of types. `Agreement`: every copy of an expiry, in the
table, the cache, the hands of a `Get` or of a request, is the one granted, and no two
logins are creating the same token; a request is therefore served and rejected by
the same expiry wherever it comes from. `SignedOut`: nothing is left of a withdrawn
session, neither row nor cached user nor a request that could still cache it,
unless the token is late. `TypeOK` needs more than `Shapes`: that an expiry in the
table is one the clock could grant (`Within`), and `Agreement`, by which the values
in the cache, in a `Get` and in a request are those of the table.

`PageProofs` proves, for any pages, requests and number of edits, from
`PageAssumption`:

| theorem | property |
|---|---|
| `PagesTyped` | `PageTypeOK` |
| `ParsedOnce` | `PageParsedOnce` |
| `AnswersAreFit` | `AnswersFit` |

`LockFollows` says who holds the write lock and `CallFollows` what such a call has
found out: that nobody has cached its page, which stays true because only the holder
of the lock writes the cache. `TemplatesIsolated` says that the base never gets a page.

`ScaffoldProofs` proves, for any number of calls, lists of modules and sources:

| theorem | property |
|---|---|
| `ScaffoldTyped` | `ScaffoldTypeOK` |
| `TargetWhole` | `TargetIsWhole` |
| `OutcomeTold` | `OutcomeIsTold` |
| `NoStagingLeft` | `StagingRemoved` |
| `ModulesRewritten` | `RewriteIsExact` |
| `RewritingIsExact` | the same of any sections, source and code (`worker.go` too) |

The first four need no assumption; `ModulesRewritten` needs that a source is a
sequence (`ScaffoldAssumption`). The invariant of the first four is a statement for
each call: `StagingFollows` (what is moved is complete), `TargetFollows` (whose project
is in place) and `Silent` (an outcome is told at the end).

`RewritingIsExact` is a theorem about data: a loop over the sections whose every step
cuts and joins lists of lines (`RewriteMarkedSource`) returns what a definition without
a loop says (`Expected`), of a source of any length and any number of sections. The
argument:

* Induction. The induction theorems of the library take an operator, so the proof uses
  that `<` is well-founded on the naturals: a set of naturals has a least element
  (`Least`), hence a set that has a number and with each number the next has all
  (`UpTo`). `RegionsDefined` and `RewritingDefined` use it to show that the recursive
  functions exist and to give their defining equations.
* Joins. `Joins` are the sequences `s[1] \o ... \o s[k]`; `FlattenJoins` says that
  `FlattenSeq` is the last of them. In a join each sequence has its place
  (`JoinHas`, `JoinFrom`, `FrontsOrdered`), and joins that differ in the middle
  have the same rest (`RestIsSame`).
* Pieces. After the first `m` sections a line of the source has become a `Piece`:
  nothing, if one of these regions has it inside, the line and the code of the
  section, if such a region begins there, else the line. The invariant of the loop,
  `After`, says that the text is the join of the pieces, or an error if one of the `m`
  sections has no region.
* One section. `MarkersFound`: the lines that equal a marker of the next section are,
  in the join, those that are open in the source, in the same order. So the section is
  replaced exactly if it has a region (`NoRegion`, `NextRegion`), and by `Spliced` the
  result is the join of the next pieces.
* The end. Stripping the markers of a join strips each piece (`StripOfJoin`), which
  leaves what is expected (`CodeOfPieces`).

An earlier form of `RewriteIsExact` held on the sources of the run and was not provable:
it had the rewriting fail when a region is inside a later one, which the code does
not notice. Now it says so, and the run has such sources.

Only model-checked: liveness (`EveryJobSettles`, `StartReturns`, `RendersReturn`), which
TLAPS cannot prove. Every invariant and every action property of a passing run has a
theorem.

## Not modelled, and the plan

Worth doing next: the overlap of a process that drains and its successor, with
`AppLifecycle` in place of `WorkerRuntime`, so that the finding `overlap_reset` covers
the port.

Not modelled:

* `app/jobs/logging` is one sequential pass over a directory in which nothing else
  deletes; its one decision is the age of a date.
* `core/config`, `core/httpx`, `core/security`, `core/media`, `core/module`,
  `app/dispatch` and `app/modules/home` keep no state that changes after the start
  and decide nothing that depends on an order of events.
* `cmd/server` is straight-line: what it has made is the initial state of
  `AppLifecycle`, its marked files are data of `ServerWiring`; its failures before
  `app.New` end the process. `app/modules/health` answers from one read, of which the
  check of the migrations is modelled.
* `core/db` and `core/db/sqlite` are I/O whose contract (one writer, atomic
  transactions) the models assume.
* Nothing is said of a loss of power: no code syncs a file.
