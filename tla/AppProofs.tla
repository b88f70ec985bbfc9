------------------------------ MODULE AppProofs ------------------------------
(***************************************************************************)
(* Proofs about the lifecycle of a server process, for any jobs, names,    *)
(* goroutines and requests.                                                *)
(***************************************************************************)
EXTENDS AppLifecycle, TLAPS

-----------------------------------------------------------------------------
(* The inductive invariant *)

\* The phases of the worker that each stage of the main goroutine can meet.
PhaseFollows ==
    /\ phase \in {"down", "initialized", "started", "closing", "closed"}
    /\ phase # "down" => workerEnabled
    /\ stage \in {"created", "logged", "migrated"} => phase = "down"
    /\ stage \in {"ready", "initialized"} => phase \in {"down", "initialized"}
    /\ stage \in {"worker closed", "log closed", "returned"} => phase \in {"down", "closed"}
    /\ phase = "closed" => stage \in {"worker closed", "log closed", "returned"}

\* Only a worker that was started and is not closed has goroutines.
QuietPhases == phase \in {"down", "initialized", "closed"} => W!Drained

\* What is open at each stage.
ResourcesFollow ==
    /\ phase \in {"initialized", "started", "closing"} =>
        appDatabase = "migrated" /\ workerDatabase = "open" /\ logFile = "open"
    /\ stage \in {"migrated", "ready", "initialized", "started", "draining"} =>
        appDatabase = "migrated"
    /\ stage \in {"created", "logged", "migrated", "ready", "initialized",
                  "started", "draining", "closing", "waiting"} =>
        workerDatabase = IF workerEnabled THEN "open" ELSE "none"
    /\ stage \in {"worker closed", "log closed"} => workerDatabase # "open"
    /\ stage = "created" => logFile = "none"
    /\ stage \in {"logged", "migrated", "ready", "initialized", "started",
                  "draining", "closing", "waiting", "worker closed"} =>
        logFile = "open"
    /\ stage = "log closed" => logFile = "closed"
    /\ (stage = "returned" /\ logFile # "none") =>
        appDatabase = "closed" /\ workerDatabase # "open" /\ logFile = "closed"

\* Requests are accepted while main serves, and only they outlive the drain that
\* it gives up or never begins.
RequestsFollow ==
    /\ listener = "listening" => stage = "started"
    /\ (handling # {} /\ ~late /\ listener # "failed") =>
        stage \in {"started", "draining"}

AppInv == AppTypeOK /\ PhaseFollows /\ QuietPhases /\ ResourcesFollow /\ RequestsFollow

-----------------------------------------------------------------------------
(* Steps of the worker *)

\* A goroutine of the worker takes a step only if there is one, and it leaves
\* the phase alone.
LEMMA WorkerStep ==
    ASSUME WorkerSteps
    PROVE  /\ ~W!Drained
           /\ phase' = phase
           /\ UNCHANGED <<stage, workerEnabled, resources, server>>
  <1>1. CASE W!Poll
    BY <1>1 DEF WorkerSteps, W!Poll, W!ResetOrphaned, W!ResetFails, W!ClaimPending,
        W!ClaimLost, W!SpawnExecutor, W!PollExit, W!process, W!Drained
  <1>2. ASSUME NEW n \in Names, W!ScheduledJob(n)
        PROVE  ~W!Drained /\ phase' = phase
    BY <1>2 DEF W!ScheduledJob, W!ScheduledReturns, W!ScheduledTick, W!ScheduledExit,
        W!process, W!Drained
  <1>3. ASSUME NEW g \in Goroutine, W!Execute(g)
        PROVE  ~W!Drained /\ phase' = phase
    <2>1. CASE W!Dispatch(g) \/ W!RunReturns(g)
      BY <2>1 DEF W!Dispatch, W!RunReturns, W!RunSucceeds, W!RunErrs, W!process, W!Drained
    <2>2. CASE W!Settle(g)
      BY <2>2 DEF W!Settle, W!Complete, W!Retry, W!Bury, W!Reject, W!BuryWith,
          W!SettleFails, W!Finish, W!process, W!Drained
    <2> QED BY <1>3, <2>1, <2>2 DEF W!Execute
  <1> QED BY <1>1, <1>2, <1>3 DEF WorkerSteps

\* Steps that leave the goroutines alone.
LEMMA GoroutinesKept ==
    ASSUME UNCHANGED <<pollLoop, pc, scheduled, direct>>
    PROVE  W!Drained' = W!Drained
  BY DEF W!Drained

\* Steps that leave main, the resources and the server alone, and the phase of
\* the worker.
LEMMA PhaseKept ==
    ASSUME AppInv, UNCHANGED <<stage, workerEnabled, resources, server>>,
           phase' = phase,
           phase \in {"started", "closing"} \/ UNCHANGED <<pollLoop, pc, scheduled, direct>>
    PROVE  AppInv'
  <1>1. QuietPhases'
    BY GoroutinesKept DEF AppInv, QuietPhases
  <1>2. AppTypeOK'
    <2>1. UNCHANGED <<stage, workerEnabled, appDatabase, workerDatabase, logFile,
                      listener, signalled, handling, late, phase>>
      BY DEF resources, server
    <2>2. (phase = "closing" <=> stage = "waiting")'
      BY <2>1 DEF AppInv, AppTypeOK
    <2>3. (workerEnabled \in BOOLEAN /\ signalled \in BOOLEAN /\ late \in BOOLEAN)'
      BY <2>1 DEF AppInv, AppTypeOK
    <2>4. (handling \subseteq Request)'
      BY <2>1 DEF AppInv, AppTypeOK
    <2>5. (phase = "started" => stage \in {"started", "draining", "closing"})'
      BY <2>1 DEF AppInv, AppTypeOK
    <2> QED BY <2>1, <2>2, <2>3, <2>4, <2>5 DEF AppInv, AppTypeOK
  <1>3. PhaseFollows'
    BY DEF AppInv, PhaseFollows
  <1>4. ResourcesFollow'
    BY DEF AppInv, ResourcesFollow, resources
  <1>5. RequestsFollow'
    BY DEF AppInv, RequestsFollow, server
  <1> QED BY <1>1, <1>2, <1>3, <1>4, <1>5 DEF AppInv

-----------------------------------------------------------------------------
(* Initial states *)

LEMMA InitiallyInv == AppInit => AppInv
  BY DEF AppInit, W!Init, AppInv, AppTypeOK, PhaseFollows, QuietPhases,
      ResourcesFollow, RequestsFollow, W!Drained

-----------------------------------------------------------------------------
(* Initialize *)

LEMMA InitializeKeeps ==
    ASSUME AppInv, Initialize \/ InitializeErrs PROVE AppInv'
  <1> USE DEF AppInv, AppTypeOK, PhaseFollows, ResourcesFollow, RequestsFollow,
          Proceed, resources, server, worker
  <1>1. CASE InitLogging
    BY <1>1, GoroutinesKept DEF InitLogging, QuietPhases
  <1>2. CASE LoggingFails
    BY <1>2, GoroutinesKept DEF LoggingFails, QuietPhases
  <1>3. CASE RunMigrations
    BY <1>3, GoroutinesKept DEF RunMigrations, QuietPhases
  <1>4. CASE InitializeWorker
    <2>1. CASE workerEnabled
      <3>1. /\ phase = "down" /\ phase' = "initialized"
            /\ UNCHANGED <<pollLoop, pc, scheduled, direct>>
        BY <1>4, <2>1 DEF InitializeWorker, W!Boot, W!executors, W!poller, W!others
      <3> QED BY <1>4, <2>1, <3>1, GoroutinesKept DEF InitializeWorker, QuietPhases
    <2>2. CASE ~workerEnabled
      BY <1>4, <2>2, GoroutinesKept DEF InitializeWorker, QuietPhases
    <2> QED BY <2>1, <2>2
  <1>5. CASE Route
    BY <1>5, GoroutinesKept DEF Route, QuietPhases
  <1>6. CASE InitializeFails
    BY <1>6, GoroutinesKept DEF InitializeFails, QuietPhases
  <1> QED BY <1>1, <1>2, <1>3, <1>4, <1>5, <1>6 DEF Initialize, InitializeErrs

-----------------------------------------------------------------------------
(* Start *)

LEMMA ServeKeeps ==
    ASSUME AppInv, Serve \/ Listen \/ ListenerBreaks \/ SignalArrives PROVE AppInv'
  <1> USE DEF AppInv, AppTypeOK, PhaseFollows, ResourcesFollow, RequestsFollow,
          Proceed, resources, server, worker
  <1>1. CASE StartWorker
    <2>1. CASE workerEnabled
      <3>1. phase' = "started"
        BY <1>1, <2>1 DEF StartWorker, W!Start
      <3>2. phase = "initialized"
        BY <1>1, <2>1 DEF StartWorker, W!Start
      <3> QED BY <1>1, <2>1, <3>1, <3>2 DEF StartWorker, QuietPhases
    <2>2. CASE ~workerEnabled
      BY <1>1, <2>2, GoroutinesKept DEF StartWorker, QuietPhases
    <2> QED BY <2>1, <2>2
  <1>2. CASE ServerFailed
    BY <1>2, GoroutinesKept DEF ServerFailed, QuietPhases
  <1>3. CASE Shutdown
    BY <1>3, GoroutinesKept DEF Shutdown, QuietPhases
  <1>4. CASE Drained
    BY <1>4, GoroutinesKept DEF Drained, QuietPhases
  <1>5. CASE DrainTimeout
    BY <1>5, GoroutinesKept DEF DrainTimeout, QuietPhases
  <1>6. CASE Listen
    BY <1>6, GoroutinesKept DEF Listen, QuietPhases
  <1>7. CASE ListenerBreaks
    BY <1>7, GoroutinesKept DEF ListenerBreaks, QuietPhases
  <1>8. CASE SignalArrives
    <2>1. /\ phase' = phase
          /\ UNCHANGED <<pollLoop, pc, scheduled, direct>>
      BY <1>8 DEF SignalArrives, W!Signal, W!executors, W!poller, W!others
    <2> QED BY <1>8, <2>1, GoroutinesKept DEF SignalArrives, QuietPhases
  <1> QED BY <1>1, <1>2, <1>3, <1>4, <1>5, <1>6, <1>7, <1>8 DEF Serve

-----------------------------------------------------------------------------
(* close *)

LEMMA CloseKeeps ==
    ASSUME AppInv, Close PROVE AppInv'
  <1> USE DEF AppInv, AppTypeOK, PhaseFollows, ResourcesFollow, RequestsFollow,
          Proceed, resources, server, worker
  <1>1. CASE CloseWorker
    <2>1. CASE workerDatabase = "open" /\ phase # "down"
      <3>1. phase' = "closing"
        BY <1>1, <2>1 DEF CloseWorker, W!CloseBegin
      <3> QED BY <1>1, <2>1, <3>1 DEF CloseWorker, QuietPhases
    <2>2. CASE ~(workerDatabase = "open" /\ phase # "down")
      BY <1>1, <2>2, GoroutinesKept DEF CloseWorker, QuietPhases
    <2> QED BY <2>1, <2>2
  <1>2. CASE WorkerCloses
    <2>1. /\ phase = "closing" /\ phase' = "closed" /\ W!Drained
          /\ UNCHANGED <<pollLoop, pc, scheduled, direct>>
      BY <1>2 DEF WorkerCloses, W!CloseEnd, W!executors, W!poller, W!others
    <2> QED BY <1>2, <2>1, GoroutinesKept DEF WorkerCloses, QuietPhases
  <1>3. CASE CloseLog
    BY <1>3, GoroutinesKept DEF CloseLog, QuietPhases
  <1>4. CASE CloseDatabase
    BY <1>4, GoroutinesKept DEF CloseDatabase, QuietPhases
  <1> QED BY <1>1, <1>2, <1>3, <1>4 DEF Close

-----------------------------------------------------------------------------
(* Handlers *)

LEMMA HandlersKeep ==
    ASSUME AppInv, NEW r \in Request, Handler(r) PROVE AppInv'
  <1> USE DEF AppInv, AppTypeOK, PhaseFollows, ResourcesFollow, RequestsFollow,
          resources, server, worker
  <1>1. CASE Accept(r)
    BY <1>1, GoroutinesKept DEF Accept, QuietPhases
  <1>2. CASE HandlerEnqueues(r)
    <2>1. /\ phase' = phase
          /\ UNCHANGED <<pollLoop, pc, scheduled, direct>>
      BY <1>2 DEF HandlerEnqueues, W!Enqueue, W!process, W!executors, W!poller, W!others
    <2>2. UNCHANGED <<stage, workerEnabled, resources, server>>
      BY <1>2 DEF HandlerEnqueues
    <2> QED BY <2>1, <2>2, PhaseKept
  <1>3. CASE Answer(r)
    <2>1. handling' \subseteq handling /\ handling' \subseteq Request
      BY <1>3 DEF Answer
    <2>2. (PhaseFollows /\ ResourcesFollow)'
      BY <1>3 DEF Answer
    <2>4. (workerEnabled \in BOOLEAN /\ signalled \in BOOLEAN /\ late \in BOOLEAN)'
      BY <1>3 DEF Answer
    <2>5. (phase = "closing" <=> stage = "waiting")'
      BY <1>3 DEF Answer
    <2>6. AppTypeOK'
      BY <1>3, <2>1, <2>4, <2>5 DEF Answer
    <2>3. RequestsFollow'
      BY <1>3, <2>1 DEF Answer
    <2> QED BY <1>3, <2>2, <2>3, <2>6, GoroutinesKept DEF Answer, QuietPhases
  <1> QED BY <1>1, <1>2, <1>3 DEF Handler

-----------------------------------------------------------------------------
(* The theorems *)

LEMMA StepsKeepInv == AppInv /\ [AppNext]_appVars => AppInv'
  <1> SUFFICES ASSUME AppInv, [AppNext]_appVars PROVE AppInv'
    OBVIOUS
  <1>1. CASE Main \/ Listen \/ ListenerBreaks \/ SignalArrives
    BY <1>1, InitializeKeeps, ServeKeeps, CloseKeeps DEF Main
  <1>2. CASE WorkerSteps
    <2>1. phase \in {"started", "closing"} /\ phase' = phase
      BY <1>2, WorkerStep DEF AppInv, PhaseFollows, QuietPhases
    <2> QED BY <1>2, <2>1, WorkerStep, PhaseKept
  <1>3. ASSUME NEW r \in Request, Handler(r) PROVE AppInv'
    BY <1>3, HandlersKeep
  <1>4. CASE UNCHANGED appVars
    <2>1. /\ UNCHANGED <<stage, workerEnabled, resources, server>>
          /\ phase' = phase
          /\ UNCHANGED <<pollLoop, pc, scheduled, direct>>
      BY <1>4 DEF appVars, worker
    <2> QED BY <2>1, PhaseKept
  <1> QED BY <1>1, <1>2, <1>3, <1>4 DEF AppNext

LEMMA InvHolds == AppSpec => []AppInv
  BY InitiallyInv, StepsKeepInv, PTL DEF AppSpec

\* The worker's phase follows the stage of the main goroutine: it is closing
\* exactly while close waits for it.
THEOREM AppTyped == AppSpec => []AppTypeOK
  <1>1. AppInv => AppTypeOK
    BY DEF AppInv
  <1> QED BY <1>1, InvHolds, PTL

\* Whoever uses the databases and the log has them open (App.Start, App.close).
THEOREM DatabasesOutliveUsers == AppSpec => []UsersHaveDatabases
  <1>1. AppInv => UsersHaveDatabases
    BY DEF AppInv, PhaseFollows, QuietPhases, ResourcesFollow, RequestsFollow,
        UsersHaveDatabases
  <1> QED BY <1>1, InvHolds, PTL

\* Everything is closed when Initialize or Start returns.
THEOREM AllClosedOnReturn == AppSpec => []ClosedOnReturn
  <1>1. AppInv => ClosedOnReturn
    BY DEF AppInv, PhaseFollows, QuietPhases, ResourcesFollow, ClosedOnReturn
  <1> QED BY <1>1, InvHolds, PTL

-----------------------------------------------------------------------------
(* The worker in the server process *)

\* Whatever is not a call of the worker leaves it alone.
LEMMA WorkerUntouched ==
    ASSUME UNCHANGED worker
    PROVE  UNCHANGED W!vars
  BY DEF worker, W!vars, W!database, W!executors, W!process, W!poller, W!others, W!history

\* Every step of the server process is one of the worker or leaves it alone.
LEMMA StepOfWorker == [AppNext]_appVars => [W!Next]_(W!vars)
  <1> SUFFICES ASSUME [AppNext]_appVars PROVE W!Next \/ UNCHANGED worker
    BY WorkerUntouched
  <1>1. CASE Initialize \/ InitializeErrs
    BY <1>1 DEF Initialize, InitializeErrs, InitLogging, LoggingFails, RunMigrations,
       InitializeWorker, Route, InitializeFails, W!Next, W!Process
  <1>2. CASE Serve
    BY <1>2 DEF Serve, StartWorker, ServerFailed, Shutdown, Drained, DrainTimeout, W!Next,
       W!Process
  <1>3. CASE Close
    BY <1>3 DEF Close, CloseWorker, WorkerCloses, CloseLog, CloseDatabase, W!Next, W!Process
  <1>4. CASE Listen \/ ListenerBreaks \/ SignalArrives
    BY <1>4 DEF Listen, ListenerBreaks, SignalArrives, W!Next, W!Process
  <1>5. CASE WorkerSteps
    BY <1>5 DEF WorkerSteps, W!Next
  <1>6. ASSUME NEW r \in Request, Handler(r) PROVE W!Next \/ UNCHANGED worker
    BY <1>6 DEF Handler, Accept, HandlerEnqueues, Answer, W!Next, W!Caller
  <1>7. CASE UNCHANGED appVars
    BY <1>7 DEF appVars
  <1> QED BY <1>1, <1>2, <1>3, <1>4, <1>5, <1>6, <1>7 DEF AppNext, Main

\* A server process starts, signals, drains and closes its worker only in ways that
\* module WorkerRuntime allows (App.Initialize, App.Start and App.close).
THEOREM WorkerImplemented == AppSpec => W!Spec
  <1>1. AppInit => W!Init
    BY DEF AppInit
  <1> QED BY <1>1, StepOfWorker, PTL DEF AppSpec, W!Spec

-----------------------------------------------------------------------------
(* What is proved of the worker holds in the server process *)

WP == INSTANCE WorkerProofs

\* What the worker assumes is assumed here.
LEMMA WorkerAssumed ==
    /\ MaxAttempts \in Nat \ {0} /\ MaxBoots \in Nat
    /\ Scheduled \subseteq Names
    /\ NoRecord \notin WP!JobRecord
  BY AppAssumption DEF W!JobRecord, WP!JobRecord, W!Payload, WP!Payload

\* W and WP are instances of one module: the same states, steps and behaviours.
LEMMA SameState ==
    /\ W!Init <=> WP!Init
    /\ UNCHANGED W!vars => UNCHANGED WP!vars
  <1> USE DEF W!database, WP!database, W!executors, WP!executors, W!process, WP!process,
          W!poller, WP!poller, W!others, WP!others, W!history, WP!history
  <1>1. W!EmptyTable = WP!EmptyTable
    BY DEF W!EmptyTable, WP!EmptyTable
  <1>2. W!Init <=> WP!Init
    BY <1>1 DEF W!Init, WP!Init
  <1> QED BY <1>2 DEF W!vars, WP!vars

LEMMA SameProcess == W!Process => WP!Process
  BY DEF W!Process, WP!Process, W!Boot, WP!Boot, W!Start, WP!Start, W!Signal, WP!Signal,
     W!CloseBegin, WP!CloseBegin, W!CloseEnd, WP!CloseEnd, W!Exit, WP!Exit,
     W!Drained, WP!Drained, W!FreshProcess, WP!FreshProcess,
     W!database, WP!database, W!executors, WP!executors, W!process, WP!process,
     W!poller, WP!poller, W!others, WP!others, W!history, WP!history

LEMMA SameCaller == W!Caller => WP!Caller
  BY DEF W!Caller, WP!Caller, W!Enqueue, WP!Enqueue, W!TriggerJob, WP!TriggerJob,
     W!DirectReturns, WP!DirectReturns, W!Known, WP!Known, W!Insert, WP!Insert,
     W!Payload, WP!Payload,
     W!database, WP!database, W!executors, WP!executors, W!process, WP!process,
     W!poller, WP!poller, W!others, WP!others, W!history, WP!history

LEMMA SameScheduled ==
    ASSUME NEW n \in Names, W!ScheduledJob(n) PROVE WP!ScheduledJob(n)
  BY DEF W!ScheduledJob, WP!ScheduledJob, W!ScheduledReturns, WP!ScheduledReturns,
     W!ScheduledTick, WP!ScheduledTick, W!ScheduledExit, WP!ScheduledExit,
     W!database, WP!database, W!executors, WP!executors, W!process, WP!process,
     W!poller, WP!poller, W!others, WP!others, W!history, WP!history

LEMMA SamePoll == W!Poll => WP!Poll
  BY DEF W!Poll, WP!Poll, W!ResetOrphaned, WP!ResetOrphaned, W!ResetFails, WP!ResetFails,
     W!ClaimPending, WP!ClaimPending, W!ClaimLost, WP!ClaimLost,
     W!SpawnExecutor, WP!SpawnExecutor, W!PollExit, WP!PollExit, W!Rows, WP!Rows, W!RecordOf, WP!RecordOf,
     W!Restatus, WP!Restatus, W!OperationFails, WP!OperationFails,
     W!database, WP!database, W!executors, WP!executors, W!process, WP!process,
     W!poller, WP!poller, W!others, WP!others, W!history, WP!history

LEMMA SameExecute ==
    ASSUME NEW g \in Goroutine, W!Execute(g) PROVE WP!Execute(g)
  BY DEF W!Execute, WP!Execute, W!Dispatch, WP!Dispatch, W!RunReturns, WP!RunReturns,
     W!RunSucceeds, WP!RunSucceeds, W!RunErrs, WP!RunErrs, W!Settle, WP!Settle,
     W!Complete, WP!Complete, W!Retry, WP!Retry, W!Bury, WP!Bury, W!Reject, WP!Reject,
     W!BuryWith, WP!BuryWith, W!SettleFails, WP!SettleFails, W!Finish, WP!Finish,
     W!Runnable, WP!Runnable, W!SettledRowOf, WP!SettledRowOf, W!Insert, WP!Insert,
     W!Delete, WP!Delete, W!OperationFails, WP!OperationFails,
     W!database, WP!database, W!executors, WP!executors, W!process, WP!process,
     W!poller, WP!poller, W!others, WP!others, W!history, WP!history

LEMMA SameSpec == W!Spec => WP!Spec
  <1>1. W!Next => WP!Next
    BY SameProcess, SameCaller, SameScheduled, SamePoll, SameExecute DEF W!Next, WP!Next
  <1>2. [W!Next]_(W!vars) => [WP!Next]_(WP!vars)
    BY <1>1, SameState
  <1> QED BY <1>2, SameState, PTL DEF W!Spec, WP!Spec

\* In the server process, between the stages of main and next to its handlers,
\* claimed rows have one owner, a job is in one table, attempts are accounted for,
\* no row is stranded, settled jobs stay so and the promises of the queue are kept
\* (core/worker as core/app runs it).
THEOREM WorkerInServer ==
    AppSpec =>
        /\ []WP!ClaimOwnership /\ []WP!OneTable /\ []WP!AttemptAccounting
        /\ []WP!NoSilentStranding /\ []WP!ClosedIsQuiet
        /\ WP!SettledIsFinal /\ WP!ImplementsLifecycle
  <1>1. WP!Spec => []WP!ClaimOwnership
    BY WorkerAssumed, WP!OwnershipHolds
  <1>2. WP!Spec => []WP!OneTable
    BY WorkerAssumed, WP!OneTableHolds
  <1>3. WP!Spec => []WP!AttemptAccounting
    BY WorkerAssumed, WP!AttemptsAccounted
  <1>4. WP!Spec => []WP!NoSilentStranding
    BY WorkerAssumed, WP!NotStranded
  <1>5. WP!Spec => []WP!ClosedIsQuiet
    BY WorkerAssumed, WP!ClosedQuietly
  <1>6. WP!Spec => WP!SettledIsFinal
    BY WorkerAssumed, WP!SettledForGood
  <1>7. WP!Spec => WP!ImplementsLifecycle
    BY WorkerAssumed, WP!LifecycleImplemented
  <1> QED BY <1>1, <1>2, <1>3, <1>4, <1>5, <1>6, <1>7, SameSpec, WorkerImplemented, PTL

\* The worker of a server process is made once.
BootedOnce ==
    /\ boots \in {0, 1}
    /\ stage \in {"created", "logged", "migrated"} => boots = 0

\* The runs of a job are the recorded attempts and, while it is queued, at most
\* one that is under way or whose outcome was lost.
AttemptsAreRuns ==
    /\ \A j \in DOMAIN jobQueue :
        runs[j] = jobQueue[j].attempts \/ runs[j] = jobQueue[j].attempts + 1
    /\ \A j \in DOMAIN jobHistory : runs[j] = jobHistory[j].attempts
    /\ \A j \in DOMAIN jobGraveyard : runs[j] = jobGraveyard[j].attempts

\* It holds of every server process.
LEMMA BootedOnceHolds == AppSpec => []BootedOnce
  <1>1. AppInit => BootedOnce
    BY DEF AppInit, W!Init, BootedOnce
  <1>2. BootedOnce /\ [AppNext]_appVars => BootedOnce'
    <2> SUFFICES ASSUME BootedOnce, [AppNext]_appVars PROVE BootedOnce'
      OBVIOUS
    <2>1. CASE InitializeWorker
      BY <2>1 DEF InitializeWorker, Proceed, W!Boot, BootedOnce, worker
    <2>2. ASSUME NEW r \in Request, Handler(r) PROVE UNCHANGED <<stage, boots>>
      BY <2>2 DEF Handler, Accept, HandlerEnqueues, Answer, W!Enqueue, W!history, worker
    <2>3. CASE WorkerSteps
      <3>1. UNCHANGED boots
        <4>1. CASE W!Poll
          BY <4>1 DEF W!Poll, W!ResetOrphaned, W!ResetFails, W!ClaimPending, W!ClaimLost,
             W!SpawnExecutor, W!PollExit, W!history
        <4>2. ASSUME NEW n \in Names, W!ScheduledJob(n) PROVE UNCHANGED boots
          BY <4>2 DEF W!ScheduledJob, W!ScheduledReturns, W!ScheduledTick, W!ScheduledExit,
             W!history
        <4>3. ASSUME NEW g \in Goroutine, W!Execute(g) PROVE UNCHANGED boots
          BY <4>3 DEF W!Execute, W!Dispatch, W!RunReturns, W!RunSucceeds, W!RunErrs, W!Settle,
             W!Complete, W!Retry, W!Bury, W!Reject, W!BuryWith, W!SettleFails, W!Finish,
             W!history
        <4> QED BY <2>3, <4>1, <4>2, <4>3 DEF WorkerSteps
      <3> QED BY <2>3, <3>1 DEF WorkerSteps, BootedOnce
    <2>4. CASE InitLogging \/ LoggingFails \/ RunMigrations \/ Route \/ InitializeFails
      BY <2>4 DEF InitLogging, LoggingFails, RunMigrations, Route, InitializeFails, Proceed,
         BootedOnce, worker
    <2>5. CASE Serve \/ Close
      BY <2>5 DEF Serve, Close, StartWorker, ServerFailed, Shutdown, Drained, DrainTimeout,
         CloseWorker, WorkerCloses, CloseLog, CloseDatabase, Proceed, BootedOnce, worker,
         W!Start, W!CloseBegin, W!CloseEnd, W!history
    <2>6. CASE Listen \/ ListenerBreaks \/ SignalArrives
      BY <2>6 DEF Listen, ListenerBreaks, SignalArrives, W!Signal, W!history, BootedOnce, worker
    <2>7. CASE UNCHANGED appVars
      BY <2>7 DEF appVars, worker, BootedOnce
    <2> QED BY <2>1, <2>2, <2>3, <2>4, <2>5, <2>6, <2>7
           DEF AppNext, Main, Initialize, InitializeErrs, BootedOnce
  <1> QED BY <1>1, <1>2, PTL DEF AppSpec

\* In one process the attempts that the tables record are the runs of the job,
\* exactly once it is settled (Runtime.executeQueued under App).
THEOREM RunsAreCounted == AppSpec => []AttemptsAreRuns
  <1>1. WP!TypeOK /\ WP!AttemptAccounting /\ BootedOnce => AttemptsAreRuns
    <2> SUFFICES ASSUME WP!TypeOK, WP!AttemptAccounting, BootedOnce PROVE AttemptsAreRuns
      OBVIOUS
    <2>1. ASSUME NEW j \in DOMAIN jobQueue
          PROVE  runs[j] = jobQueue[j].attempts \/ runs[j] = jobQueue[j].attempts + 1
      <3>1. jobQueue[j].attempts \in Nat /\ runs[j] \in Nat
        BY DEF WP!TypeOK, WP!IsTable, WP!Row
      <3>2. jobQueue[j].attempts <= runs[j] /\ runs[j] <= jobQueue[j].attempts + boots
        BY DEF WP!AttemptAccounting
      <3> QED BY <3>1, <3>2 DEF BootedOnce
    <2>2. ASSUME NEW j \in DOMAIN jobHistory PROVE runs[j] = jobHistory[j].attempts
      <3>1. jobHistory[j].attempts \in Nat /\ runs[j] \in Nat
        BY DEF WP!TypeOK, WP!IsTable, WP!SettledRow
      <3>2. jobHistory[j].attempts <= runs[j] /\ runs[j] < jobHistory[j].attempts + boots
        BY DEF WP!AttemptAccounting
      <3> QED BY <3>1, <3>2 DEF BootedOnce
    <2>3. ASSUME NEW j \in DOMAIN jobGraveyard PROVE runs[j] = jobGraveyard[j].attempts
      <3>1. jobGraveyard[j].attempts \in Nat /\ runs[j] \in Nat
        BY DEF WP!TypeOK, WP!IsTable, WP!SettledRow
      <3>2. jobGraveyard[j].attempts <= runs[j] /\ runs[j] < jobGraveyard[j].attempts + boots
        BY DEF WP!AttemptAccounting
      <3> QED BY <3>1, <3>2 DEF BootedOnce
    <2> QED BY <2>1, <2>2, <2>3 DEF AttemptsAreRuns
  <1>2. WP!Spec => []WP!TypeOK
    BY WorkerAssumed, WP!TypeCorrect
  <1>3. WP!Spec => []WP!AttemptAccounting
    BY WorkerAssumed, WP!AttemptsAccounted
  <1> QED BY <1>1, <1>2, <1>3, BootedOnceHolds, SameSpec, WorkerImplemented, PTL
=============================================================================
