---------------------------- MODULE WorkerRuntime ----------------------------
(***************************************************************************)
(* The background job runner of core/worker: one process that boots,       *)
(* claims rows of the worker database, runs them in goroutines, settles    *)
(* them, and is closed, signalled, crashed and booted again, possibly by a *)
(* release that registers other jobs.                                      *)
(*                                                                         *)
(* Durable state is the three tables of the worker database; everything    *)
(* else is lost when the process ends.  A write of an executor is one SQL  *)
(* transaction, so it is one step; it fails once the context is cancelled  *)
(* and it may fail otherwise (a busy or full database).                    *)
(***************************************************************************)
EXTENDS Naturals, FiniteSets, Tables

CONSTANTS
    JobId,          \* identifiers of queued jobs (fresh UUIDs in the code)
    Names,          \* job names any release knows
    Scheduled,      \* the names whose Interval is positive
    Goroutine,      \* slots for the goroutines that execute queued jobs
    NoRecord,       \* the record of a goroutine that does not run
    MaxAttempts,    \* the configured maxAttempts
    MaxBoots        \* bound: processes started one after the other

ASSUME WorkerAssumption ==
    /\ MaxAttempts \in Nat \ {0}
    /\ MaxBoots \in Nat
    /\ Scheduled \subseteq Names

\* A payload is a JSON text; json.Marshal also writes texts that
\* json.Unmarshal into an any refuses, such as json.Number("1e999").
Payload == {"decodable", "undecodable"}

Row == [name : Names, payload : Payload, attempts : Nat,
        status : {"pending", "running"}]
SettledRow == [name : Names, payload : Payload, attempts : Nat]
JobRecord == [id : JobId, name : Names, payload : Payload, attempts : Nat]

ASSUME NoRecordAssumption == NoRecord \notin JobRecord

VARIABLES
    jobQueue, jobHistory, jobGraveyard,  \* tables of the worker database
    phase,          \* of the process: down, initialized, started, closing, closed
    registered,     \* names in jobMap
    cancelled,      \* the context given to goroutines by Start is done
    pollLoop,       \* of the poll goroutine: none, reset, select, spawn
    claimed,        \* records claimed and not yet given to a goroutine
    pc, record,     \* of each executor goroutine
    scheduled,      \* of each scheduled job's goroutine: none, running, waiting
    direct,         \* of a job's TriggerJob goroutine: none, running, returned
    runs,           \* history: how often Run was called for a queued job
    boots,          \* history: processes started so far
    faulted         \* history: this process met a failing database operation

database == <<jobQueue, jobHistory, jobGraveyard>>
executors == <<pc, record>>
process == <<phase, registered, cancelled>>
poller == <<pollLoop, claimed>>
others == <<scheduled, direct>>
history == <<runs, boots, faulted>>
vars == <<database, executors, process, poller, others, history>>

Pc == {"idle", "spawned", "running", "completing", "retrying", "burying",
       "rejecting"}

-----------------------------------------------------------------------------
Rows(status) == {j \in DOMAIN jobQueue : jobQueue[j].status = status}

Known(j) == j \in DOMAIN jobQueue \cup DOMAIN jobHistory \cup DOMAIN jobGraveyard

RecordOf(j) == [id |-> j, name |-> jobQueue[j].name,
                payload |-> jobQueue[j].payload,
                attempts |-> jobQueue[j].attempts]

SettledRowOf(r, attempts) ==
    [name |-> r.name, payload |-> r.payload, attempts |-> attempts]

\* UPDATE job_queue SET status = to WHERE status = from
Restatus(from, to) ==
    [j \in DOMAIN jobQueue |->
        IF jobQueue[j].status = from
        THEN [jobQueue[j] EXCEPT !.status = to] ELSE jobQueue[j]]

\* The wait group's counter is zero.
Drained ==
    /\ pollLoop = "none"
    /\ \A g \in Goroutine : pc[g] = "idle"
    /\ \A n \in Names : scheduled[n] = "none"
    /\ \A n \in Names : direct[n] # "running"

\* A database operation under the runtime's context can fail: always once the
\* context is done, and by a fault of the database at any time.
OperationFails == faulted' = (faulted \/ ~cancelled)

\* Everything that lives in the memory of a process that has just started.
FreshProcess ==
    /\ cancelled' = FALSE
    /\ pollLoop' = "none"
    /\ claimed' = {}
    /\ pc' = [g \in Goroutine |-> "idle"]
    /\ record' = [g \in Goroutine |-> NoRecord]
    /\ scheduled' = [n \in Names |-> "none"]
    /\ direct' = [n \in Names |-> "none"]

Init ==
    /\ jobQueue = EmptyTable
    /\ jobHistory = EmptyTable
    /\ jobGraveyard = EmptyTable
    /\ phase = "down"
    /\ registered = {}
    /\ cancelled = FALSE
    /\ pollLoop = "none"
    /\ claimed = {}
    /\ pc = [g \in Goroutine |-> "idle"]
    /\ record = [g \in Goroutine |-> NoRecord]
    /\ scheduled = [n \in Names |-> "none"]
    /\ direct = [n \in Names |-> "none"]
    /\ runs = [j \in JobId |-> 0]
    /\ boots = 0
    /\ faulted = FALSE

-----------------------------------------------------------------------------
(* The process *)

\* NewRuntime, Initialize and Register; a release may register other names.
Boot ==
    /\ phase = "down"
    /\ boots < MaxBoots
    /\ phase' = "initialized"
    /\ \E names \in SUBSET Names : registered' = names
    /\ boots' = boots + 1
    /\ faulted' = FALSE
    /\ UNCHANGED <<database, cancelled, executors, poller, others, runs>>

Start ==
    /\ phase = "initialized"
    /\ phase' = "started"
    /\ pollLoop' = "reset"
    /\ scheduled' = [n \in Names |->
                        IF n \in registered \cap Scheduled THEN "running" ELSE "none"]
    /\ UNCHANGED <<database, registered, cancelled, executors, claimed, direct,
                   history>>

\* SIGINT or SIGTERM ends the context App.Start passed to Runtime.Start.
Signal ==
    /\ phase = "started"
    /\ ~cancelled
    /\ cancelled' = TRUE
    /\ UNCHANGED <<database, phase, registered, executors, poller, others, history>>

\* Close up to wg.Wait.  Before Start there is no cancel function to call.
CloseBegin ==
    /\ phase \in {"initialized", "started"}
    /\ phase' = "closing"
    /\ cancelled' = (cancelled \/ phase = "started")
    /\ UNCHANGED <<database, registered, executors, poller, others, history>>

\* Mutant: the database is closed without wg.Wait.
CloseUndrained ==
    /\ phase = "closing"
    /\ phase' = "closed"
    /\ UNCHANGED <<database, registered, cancelled, executors, poller, others, history>>

\* wg.Wait returns and the database is closed.
CloseEnd ==
    /\ phase = "closing"
    /\ Drained
    /\ phase' = "closed"
    /\ UNCHANGED <<database, registered, cancelled, executors, poller, others, history>>

\* The process ends: after Close, or at any moment (a kill, a panic of a job).
Exit ==
    /\ phase # "down"
    /\ boots < MaxBoots
    /\ phase' = "down"
    /\ registered' = {}
    /\ FreshProcess
    /\ UNCHANGED <<database, history>>

-----------------------------------------------------------------------------
(* Callers *)

\* Enqueue writes under context.Background(): only the closed database stops it.
Enqueue(j, n, p) ==
    /\ phase \in {"initialized", "started", "closing"}
    /\ n \in registered
    /\ ~Known(j)
    /\ jobQueue' = Insert(jobQueue, j, [name |-> n, payload |-> p,
                                        attempts |-> 0, status |-> "pending"])
    /\ UNCHANGED <<jobHistory, jobGraveyard, process, executors, poller, others,
                   history>>

\* TriggerJob runs a job under context.Background(), whatever the phase.
\* Bound: a process triggers each job at most once.
TriggerJob(n) ==
    /\ phase # "down"
    /\ n \in registered
    /\ direct[n] = "none"
    /\ direct' = [direct EXCEPT ![n] = "running"]
    /\ UNCHANGED <<database, process, executors, poller, scheduled, history>>

DirectReturns(n) ==
    /\ direct[n] = "running"
    /\ direct' = [direct EXCEPT ![n] = "returned"]
    /\ UNCHANGED <<database, process, executors, poller, scheduled, history>>

-----------------------------------------------------------------------------
(* The goroutine of each scheduled job *)

ScheduledReturns(n) ==
    /\ scheduled[n] = "running"
    /\ scheduled' = [scheduled EXCEPT ![n] = "waiting"]
    /\ UNCHANGED <<database, process, executors, poller, direct, history>>

\* select: the ticker may win although the context is done.
ScheduledTick(n) ==
    /\ scheduled[n] = "waiting"
    /\ scheduled' = [scheduled EXCEPT ![n] = "running"]
    /\ UNCHANGED <<database, process, executors, poller, direct, history>>

ScheduledExit(n) ==
    /\ scheduled[n] = "waiting"
    /\ cancelled
    /\ scheduled' = [scheduled EXCEPT ![n] = "none"]
    /\ UNCHANGED <<database, process, executors, poller, direct, history>>

-----------------------------------------------------------------------------
(* The poll goroutine *)

\* Mutant: a later poll resets again, whoever works on the rows.
ResetOrphanedAnyPoll ==
    /\ pollLoop \in {"reset", "select"}
    /\ ~cancelled
    /\ jobQueue' = Restatus("running", "pending")
    /\ pollLoop' = "select"
    /\ UNCHANGED <<jobHistory, jobGraveyard, process, executors, claimed, others,
                   history>>

\* Mutant: the startup reset is forgotten.
ResetOrphanedSkipped ==
    /\ pollLoop = "reset"
    /\ pollLoop' = "select"
    /\ UNCHANGED <<database, process, executors, claimed, others, history>>

ResetOrphaned ==
    /\ pollLoop = "reset"
    /\ ~cancelled
    /\ jobQueue' = Restatus("running", "pending")
    /\ pollLoop' = "select"
    /\ UNCHANGED <<jobHistory, jobGraveyard, process, executors, claimed, others,
                   history>>

\* The error of the reset is logged and the loop goes on without it.
ResetFails ==
    /\ pollLoop = "reset"
    /\ OperationFails
    /\ pollLoop' = "select"
    /\ UNCHANGED <<database, process, executors, claimed, others, runs, boots>>

ClaimPending ==
    /\ pollLoop = "select"
    /\ ~cancelled
    /\ Rows("pending") # {}
    /\ claimed' = {RecordOf(j) : j \in Rows("pending")}
    /\ jobQueue' = Restatus("pending", "running")
    /\ pollLoop' = "spawn"
    /\ UNCHANGED <<jobHistory, jobGraveyard, process, executors, others, history>>

\* The update is done and reading its RETURNING rows fails: processQueue drops
\* the records it has read, the rows stay running.
ClaimLost ==
    /\ pollLoop = "select"
    /\ Rows("pending") # {}
    /\ OperationFails
    /\ jobQueue' = Restatus("pending", "running")
    /\ UNCHANGED <<jobHistory, jobGraveyard, process, executors, poller, others,
                   runs, boots>>

\* Mutant: only the first claimed record gets a goroutine.
SpawnFirstOnly(g) ==
    /\ pollLoop = "spawn"
    /\ pc[g] = "idle"
    /\ \E r \in claimed : record' = [record EXCEPT ![g] = r]
    /\ claimed' = {}
    /\ pollLoop' = "select"
    /\ pc' = [pc EXCEPT ![g] = "spawned"]
    /\ UNCHANGED <<database, process, others, history>>

SpawnExecutor(g) ==
    /\ pollLoop = "spawn"
    /\ pc[g] = "idle"
    /\ \E r \in claimed :
        /\ record' = [record EXCEPT ![g] = r]
        /\ claimed' = claimed \ {r}
        /\ pollLoop' = IF claimed = {r} THEN "select" ELSE "spawn"
    /\ pc' = [pc EXCEPT ![g] = "spawned"]
    /\ UNCHANGED <<database, process, others, history>>

PollExit ==
    /\ pollLoop = "select"
    /\ cancelled
    /\ pollLoop' = "none"
    /\ UNCHANGED <<database, process, executors, claimed, others, history>>

-----------------------------------------------------------------------------
(* The executor goroutines *)

Runnable(r) == r.name \in registered /\ r.payload = "decodable"

Dispatch(g) ==
    /\ pc[g] = "spawned"
    /\ IF Runnable(record[g])
       THEN /\ pc' = [pc EXCEPT ![g] = "running"]
            /\ runs' = [runs EXCEPT ![record[g].id] = @ + 1]
       ELSE /\ pc' = [pc EXCEPT ![g] = "rejecting"]
            /\ UNCHANGED runs
    /\ UNCHANGED <<database, record, process, poller, others, boots, faulted>>

RunSucceeds(g) ==
    /\ pc[g] = "running"
    /\ pc' = [pc EXCEPT ![g] = "completing"]
    /\ UNCHANGED <<database, record, process, poller, others, history>>

\* Mutant: the attempts limit is compared one too late.
RunErrsLate(g) ==
    /\ pc[g] = "running"
    /\ pc' = [pc EXCEPT ![g] = IF record[g].attempts + 1 > MaxAttempts
                               THEN "burying" ELSE "retrying"]
    /\ UNCHANGED <<database, record, process, poller, others, history>>

RunErrs(g) ==
    /\ pc[g] = "running"
    /\ pc' = [pc EXCEPT ![g] = IF record[g].attempts + 1 >= MaxAttempts
                               THEN "burying" ELSE "retrying"]
    /\ UNCHANGED <<database, record, process, poller, others, history>>

\* Mutant: the goroutine ends and its record stays.
FinishKeepsRecord(g) ==
    /\ pc' = [pc EXCEPT ![g] = "idle"]
    /\ UNCHANGED <<record, process, poller, others, runs, boots>>

Finish(g) ==
    /\ pc' = [pc EXCEPT ![g] = "idle"]
    /\ record' = [record EXCEPT ![g] = NoRecord]
    /\ UNCHANGED <<process, poller, others, runs, boots>>

\* Mutant: the row is put in the history and stays in the queue, pending.
CompleteKeepsRow(g) ==
    /\ pc[g] = "completing"
    /\ ~cancelled
    /\ jobHistory' = Insert(jobHistory, record[g].id,
                            SettledRowOf(record[g], record[g].attempts + 1))
    /\ jobQueue' = [jobQueue EXCEPT ![record[g].id].status = "pending"]
    /\ Finish(g)
    /\ UNCHANGED <<jobGraveyard, faulted>>

\* Mutant: the row is deleted and the history is not written.
CompleteLosesRow(g) ==
    /\ pc[g] = "completing"
    /\ ~cancelled
    /\ jobQueue' = Delete(jobQueue, record[g].id)
    /\ Finish(g)
    /\ UNCHANGED <<jobHistory, jobGraveyard, faulted>>

Complete(g) ==
    /\ pc[g] = "completing"
    /\ ~cancelled
    /\ record[g].id \notin DOMAIN jobHistory
    /\ jobHistory' = Insert(jobHistory, record[g].id,
                            SettledRowOf(record[g], record[g].attempts + 1))
    /\ jobQueue' = Delete(jobQueue, record[g].id)
    /\ Finish(g)
    /\ UNCHANGED <<jobGraveyard, faulted>>

\* Mutant: a failed attempt is not recorded.
RetryUncounted(g) ==
    /\ pc[g] = "retrying"
    /\ ~cancelled
    /\ jobQueue' = [jobQueue EXCEPT ![record[g].id].status = "pending"]
    /\ Finish(g)
    /\ UNCHANGED <<jobHistory, jobGraveyard, faulted>>

\* UPDATE ... WHERE id = ?: no row, no change.
Retry(g) ==
    /\ pc[g] = "retrying"
    /\ ~cancelled
    /\ jobQueue' = [j \in DOMAIN jobQueue |->
            IF j = record[g].id
            THEN [jobQueue[j] EXCEPT !.status = "pending",
                                     !.attempts = record[g].attempts + 1]
            ELSE jobQueue[j]]
    /\ Finish(g)
    /\ UNCHANGED <<jobHistory, jobGraveyard, faulted>>

BuryWith(g, attempts) ==
    /\ ~cancelled
    /\ record[g].id \notin DOMAIN jobGraveyard
    /\ jobGraveyard' = Insert(jobGraveyard, record[g].id,
                              SettledRowOf(record[g], attempts))
    /\ jobQueue' = Delete(jobQueue, record[g].id)
    /\ Finish(g)
    /\ UNCHANGED <<jobHistory, faulted>>

\* The last attempt failed.
Bury(g) == pc[g] = "burying" /\ BuryWith(g, record[g].attempts + 1)

\* The name is not registered or the payload cannot be decoded.
Reject(g) == pc[g] = "rejecting" /\ BuryWith(g, record[g].attempts)

\* The write fails and is rolled back; the error is logged, the row stays
\* running and the goroutine ends.
SettleFails(g) ==
    /\ pc[g] \in {"completing", "retrying", "burying", "rejecting"}
    /\ OperationFails
    /\ Finish(g)
    /\ UNCHANGED database

-----------------------------------------------------------------------------
Process == Boot \/ Start \/ Signal \/ CloseBegin \/ CloseEnd \/ Exit

Caller ==
    \/ \E j \in JobId, n \in Names, p \in Payload : Enqueue(j, n, p)
    \/ \E n \in Names : TriggerJob(n) \/ DirectReturns(n)

ScheduledJob(n) == ScheduledReturns(n) \/ ScheduledTick(n) \/ ScheduledExit(n)

Poll ==
    \/ ResetOrphaned \/ ResetFails
    \/ ClaimPending \/ ClaimLost
    \/ \E g \in Goroutine : SpawnExecutor(g)
    \/ PollExit

RunReturns(g) == RunSucceeds(g) \/ RunErrs(g)
Settle(g) == Complete(g) \/ Retry(g) \/ Bury(g) \/ Reject(g) \/ SettleFails(g)
Execute(g) == Dispatch(g) \/ RunReturns(g) \/ Settle(g)

Next ==
    \/ Process
    \/ Caller
    \/ \E n \in Names : ScheduledJob(n)
    \/ Poll
    \/ \E g \in Goroutine : Execute(g)

Spec == Init /\ [][Next]_vars

-----------------------------------------------------------------------------
(* Fairness.  Each goroutine is scheduled by the Go runtime, and every job  *)
(* returns.  A select with both a tick and a done context picks either at  *)
(* random, so the exit of a scheduled job is strongly fair; wg.Wait is     *)
(* released when the counter reaches zero, so the end of Close is too.     *)

Fairness ==
    /\ WF_vars(Poll)
    /\ \A g \in Goroutine : WF_vars(Dispatch(g) \/ Settle(g))
    /\ \A n \in Names : SF_vars(ScheduledExit(n))
    /\ SF_vars(CloseEnd)

\* Jobs return by themselves.
JobsTerminate ==
    /\ \A g \in Goroutine : WF_vars(RunReturns(g))
    /\ \A n \in Names : WF_vars(ScheduledReturns(n)) /\ WF_vars(DirectReturns(n))

\* Jobs return once the context they were given is done.  The context of a
\* TriggerJob run is context.Background(), which never is.
JobsHeedContext ==
    /\ \A g \in Goroutine : WF_vars(cancelled /\ RunReturns(g))
    /\ \A n \in Names : WF_vars(cancelled /\ ScheduledReturns(n))

FairSpec == Spec /\ Fairness /\ JobsTerminate
=============================================================================
