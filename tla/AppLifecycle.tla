---------------------------- MODULE AppLifecycle ----------------------------
(***************************************************************************)
(* core/app: one server process from app.New to the return of Initialize   *)
(* or Start.  The main goroutine opens, starts, drains and closes what the *)
(* goroutines of the worker (module WorkerRuntime) and the handlers of     *)
(* requests use.                                                           *)
(***************************************************************************)
EXTENDS Naturals

CONSTANTS
    JobId, Names, Scheduled, Goroutine, NoRecord, MaxAttempts, MaxBoots,
    Request         \* HTTP requests

VARIABLES
    jobQueue, jobHistory, jobGraveyard, phase, registered, cancelled, pollLoop,
    claimed, pc, record, scheduled, direct, runs, boots, faulted,
    stage,          \* where the main goroutine is
    workerEnabled,  \* CORE_WORKER_ENABLED, by which main makes a runtime
    appDatabase,    \* opened by main, migrated, closed
    workerDatabase, \* none, open, closed
    logFile,        \* none, open, closed
    listener,       \* of the HTTP server: none, listening, failed, closed
    signalled,      \* SIGINT or SIGTERM has ended shutdownContext
    handling,       \* requests accepted and not answered
    late            \* the drain deadline passed before the last answer

W == INSTANCE WorkerRuntime

\* What the worker assumes (config.go:120 of core/config refuses attempts below 1).
ASSUME AppAssumption ==
    /\ MaxAttempts \in Nat \ {0} /\ MaxBoots \in Nat
    /\ Scheduled \subseteq Names
    /\ NoRecord \notin W!JobRecord

worker == <<jobQueue, jobHistory, jobGraveyard, phase, registered, cancelled,
            pollLoop, claimed, pc, record, scheduled, direct, runs, boots, faulted>>
resources == <<appDatabase, workerDatabase, logFile>>
server == <<listener, signalled, handling, late>>
appVars == <<stage, workerEnabled, resources, server, worker>>

Running == stage # "returned"

Proceed(from, to) == stage = from /\ stage' = to

-----------------------------------------------------------------------------
(* Initialize *)

\* main has opened the databases and called New.
AppInit ==
    /\ W!Init
    /\ stage = "created"
    /\ workerEnabled \in BOOLEAN
    /\ appDatabase = "opened"
    /\ workerDatabase = IF workerEnabled THEN "open" ELSE "none"
    /\ logFile = "none"
    /\ listener = "none"
    /\ signalled = FALSE
    /\ handling = {}
    /\ late = FALSE

InitLogging ==
    /\ Proceed("created", "logged")
    /\ logFile' = "open"
    /\ UNCHANGED <<workerEnabled, appDatabase, workerDatabase, server, worker>>

\* The one error that is returned without close.
LoggingFails ==
    /\ Proceed("created", "returned")
    /\ UNCHANGED <<workerEnabled, resources, server, worker>>

RunMigrations ==
    /\ Proceed("logged", "migrated")
    /\ appDatabase' = "migrated"
    /\ UNCHANGED <<workerEnabled, workerDatabase, logFile, server, worker>>

\* Initialize and Register of the worker, if there is one.
InitializeWorker ==
    /\ Proceed("migrated", "ready")
    /\ IF workerEnabled THEN W!Boot ELSE UNCHANGED worker
    /\ UNCHANGED <<workerEnabled, resources, server>>

\* The renderer and the router are made and the routes registered.
Route ==
    /\ Proceed("ready", "initialized")
    /\ UNCHANGED <<workerEnabled, resources, server, worker>>

\* Mutant: an error of Initialize is returned at once.
InitializeFailsAtOnce ==
    /\ \/ Proceed("logged", "returned")
       \/ Proceed("migrated", "returned") /\ workerEnabled
       \/ Proceed("ready", "returned")
    /\ UNCHANGED <<workerEnabled, resources, server, worker>>

\* The migrations, the worker or the renderer fails: close, and return the error.
InitializeFails ==
    /\ \/ Proceed("logged", "closing")
       \/ Proceed("migrated", "closing") /\ workerEnabled
       \/ Proceed("ready", "closing")
    /\ UNCHANGED <<workerEnabled, resources, server, worker>>

-----------------------------------------------------------------------------
(* Start *)

StartWorker ==
    /\ Proceed("initialized", "started")
    /\ IF workerEnabled THEN W!Start ELSE UNCHANGED worker
    /\ UNCHANGED <<workerEnabled, resources, server>>

\* The goroutine of ListenAndServe binds the port, or it is taken.
Listen ==
    /\ stage = "started"
    /\ listener = "none"
    /\ listener' \in {"listening", "failed"}
    /\ UNCHANGED <<stage, workerEnabled, resources, signalled, handling, late,
                   worker>>

\* Accepting connections fails for good.
ListenerBreaks ==
    /\ stage = "started"
    /\ listener = "listening"
    /\ listener' = "failed"
    /\ UNCHANGED <<stage, workerEnabled, resources, signalled, handling, late,
                   worker>>

\* shutdownContext ends, and the worker's context with it.
SignalArrives ==
    /\ stage = "started"
    /\ ~signalled
    /\ signalled' = TRUE
    /\ IF workerEnabled THEN W!Signal ELSE UNCHANGED worker
    /\ UNCHANGED <<stage, workerEnabled, resources, listener, handling, late>>

\* select takes the error of the server: nothing is drained.
ServerFailed ==
    /\ Proceed("started", "closing")
    /\ listener = "failed"
    /\ UNCHANGED <<workerEnabled, resources, server, worker>>

\* select takes the signal: Shutdown closes the listener and waits.
Shutdown ==
    /\ Proceed("started", "draining")
    /\ signalled
    /\ listener' = "closed"
    /\ UNCHANGED <<workerEnabled, resources, signalled, handling, late, worker>>

Drained ==
    /\ Proceed("draining", "closing")
    /\ handling = {}
    /\ UNCHANGED <<workerEnabled, resources, server, worker>>

\* Mutant: Shutdown waits under a context without a deadline.
DrainForEver ==
    /\ Proceed("draining", "closing")
    /\ handling = {}
    /\ UNCHANGED <<workerEnabled, resources, server, worker>>

\* drainContext ends first; the handlers run on.
DrainTimeout ==
    /\ Proceed("draining", "closing")
    /\ late' = (handling # {})
    /\ UNCHANGED <<workerEnabled, resources, listener, signalled, handling, worker>>

-----------------------------------------------------------------------------
(* close *)

\* Mutant: the application database is closed before the worker.
CloseDatabaseFirst ==
    /\ IF workerDatabase = "open" /\ phase # "down"
       THEN Proceed("closing", "waiting") /\ W!CloseBegin /\ UNCHANGED workerDatabase
       ELSE /\ Proceed("closing", "worker closed")
            /\ workerDatabase' = IF workerEnabled THEN "closed" ELSE "none"
            /\ UNCHANGED worker
    /\ appDatabase' = "closed"
    /\ UNCHANGED <<workerEnabled, logFile, server>>

\* Mutant: Close of the worker runs in a goroutine of its own.
CloseWorkerAside ==
    /\ Proceed("closing", "worker closed")
    /\ IF workerDatabase = "open" /\ phase # "down"
       THEN W!CloseBegin /\ UNCHANGED workerDatabase
       ELSE /\ workerDatabase' = IF workerEnabled THEN "closed" ELSE "none"
            /\ UNCHANGED worker
    /\ UNCHANGED <<workerEnabled, appDatabase, logFile, server>>

\* Close of the worker cancels its context and waits for its goroutines, of
\* which there are none when Initialize failed.
CloseWorker ==
    /\ IF workerDatabase = "open" /\ phase # "down"
       THEN Proceed("closing", "waiting") /\ W!CloseBegin /\ UNCHANGED workerDatabase
       ELSE /\ Proceed("closing", "worker closed")
            /\ workerDatabase' = IF workerEnabled THEN "closed" ELSE "none"
            /\ UNCHANGED worker
    /\ UNCHANGED <<workerEnabled, appDatabase, logFile, server>>

WorkerCloses ==
    /\ Proceed("waiting", "worker closed")
    /\ W!CloseEnd
    /\ workerDatabase' = "closed"
    /\ UNCHANGED <<workerEnabled, appDatabase, logFile, server>>

CloseLog ==
    /\ Proceed("worker closed", "log closed")
    /\ logFile' = "closed"
    /\ UNCHANGED <<workerEnabled, appDatabase, workerDatabase, server, worker>>

\* The process ends when Initialize or Start has returned.
CloseDatabase ==
    /\ Proceed("log closed", "returned")
    /\ appDatabase' = "closed"
    /\ UNCHANGED <<workerEnabled, workerDatabase, logFile, server, worker>>

-----------------------------------------------------------------------------
(* Handlers *)

Answering(r) == Running /\ r \in handling

Accept(r) ==
    /\ Running
    /\ listener = "listening"
    /\ r \notin handling
    /\ handling' = handling \cup {r}
    /\ UNCHANGED <<stage, workerEnabled, resources, listener, signalled, late, worker>>

\* The handler enqueues a job; main passes a no-op when there is no worker.
HandlerEnqueues(r) ==
    /\ Answering(r)
    /\ workerEnabled
    /\ \E j \in JobId, n \in Names, p \in W!Payload : W!Enqueue(j, n, p)
    /\ UNCHANGED <<stage, workerEnabled, resources, server>>

Answer(r) ==
    /\ Answering(r)
    /\ handling' = handling \ {r}
    /\ UNCHANGED <<stage, workerEnabled, resources, listener, signalled, late, worker>>

-----------------------------------------------------------------------------
Initialize == InitLogging \/ RunMigrations \/ InitializeWorker \/ Route

InitializeErrs == LoggingFails \/ InitializeFails

Serve == StartWorker \/ ServerFailed \/ Shutdown \/ Drained \/ DrainTimeout

Close == CloseWorker \/ WorkerCloses \/ CloseLog \/ CloseDatabase

Main == Initialize \/ InitializeErrs \/ Serve \/ Close

Handler(r) == Accept(r) \/ HandlerEnqueues(r) \/ Answer(r)

WorkerSteps ==
    /\ W!Poll \/ (\E n \in Names : W!ScheduledJob(n)) \/ \E g \in Goroutine : W!Execute(g)
    /\ UNCHANGED <<stage, workerEnabled, resources, server>>

AppNext ==
    \/ Main
    \/ Listen \/ ListenerBreaks \/ SignalArrives
    \/ WorkerSteps
    \/ \E r \in Request : Handler(r)

AppSpec == AppInit /\ [][AppNext]_appVars

\* The main goroutine, ListenAndServe and the timer of the drain make progress.
\* The worker is as fair as in its own module, and its jobs return when their
\* context is done.  Nothing says that a handler returns.
AppFairness ==
    /\ WF_appVars(Main)
    /\ WF_appVars(Listen)
    /\ W!Fairness
    /\ W!JobsHeedContext

FairAppSpec == AppSpec /\ AppFairness

-----------------------------------------------------------------------------
(* Properties *)

\* Stages and resources are well-formed, and the worker's phase follows the
\* stage of the main goroutine.
AppTypeOK ==
    /\ stage \in {"created", "logged", "migrated", "ready", "initialized",
                  "started", "draining", "closing", "waiting", "worker closed",
                  "log closed", "returned"}
    /\ workerEnabled \in BOOLEAN
    /\ appDatabase \in {"opened", "migrated", "closed"}
    /\ workerDatabase \in {"none", "open", "closed"}
    /\ logFile \in {"none", "open", "closed"}
    /\ listener \in {"none", "listening", "failed", "closed"}
    /\ signalled \in BOOLEAN
    /\ late \in BOOLEAN
    /\ handling \subseteq Request
    /\ phase = "started" => stage \in {"started", "draining", "closing"}
    /\ phase = "closing" <=> stage = "waiting"

\* Goroutines of the worker have both databases, the application's migrated,
\* and the log, from start to end: jobs are closures over the application
\* database (cmd/server/worker.go), which close therefore closes last.  So do
\* handlers, except after the drain deadline or a failure of the server itself,
\* which drain nothing (App.Start, App.close).
UsersHaveDatabases ==
    /\ ~W!Drained =>
        appDatabase = "migrated" /\ workerDatabase = "open" /\ logFile = "open"
    /\ (handling # {} /\ ~late /\ listener # "failed") =>
        appDatabase = "migrated" /\ workerDatabase # "closed" /\ logFile = "open"

\* CONTRACT.md, "graceful shutdown closes runtime resources explicitly": when
\* Initialize or Start returns, on every path after the log was opened, both
\* databases and the log are closed and no goroutine of the worker runs.
ClosedOnReturn ==
    (stage = "returned" /\ logFile # "none") =>
        /\ appDatabase = "closed" /\ workerDatabase # "open" /\ logFile = "closed"
        /\ W!Drained

\* After a signal or a failure of the server Start returns, also when handlers
\* hang, and jobs return only because their context is done (App.Start).
StartReturns == (signalled \/ listener = "failed") ~> stage = "returned"
=============================================================================
