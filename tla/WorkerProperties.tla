-------------------------- MODULE WorkerProperties --------------------------
(***************************************************************************)
(* What must hold of the job runner of module WorkerRuntime.               *)
(***************************************************************************)
EXTENDS WorkerRuntime

\* Every table holds rows of its schema, and every variable of the process has
\* a value of its type; a goroutine has a record exactly while it runs.
TypeOK ==
    /\ IsTable(jobQueue, JobId, Row)
    /\ IsTable(jobHistory, JobId, SettledRow)
    /\ IsTable(jobGraveyard, JobId, SettledRow)
    /\ phase \in {"down", "initialized", "started", "closing", "closed"}
    /\ registered \subseteq Names
    /\ cancelled \in BOOLEAN
    /\ pollLoop \in {"none", "reset", "select", "spawn"}
    /\ claimed \subseteq JobRecord
    /\ pc \in [Goroutine -> Pc]
    /\ record \in [Goroutine -> JobRecord \cup {NoRecord}]
    /\ \A g \in Goroutine : record[g] = NoRecord <=> pc[g] = "idle"
    /\ scheduled \in [Names -> {"none", "running", "waiting"}]
    /\ direct \in [Names -> {"none", "running", "returned"}]
    /\ runs \in [JobId -> Nat]
    /\ boots \in Nat
    /\ faulted \in BOOLEAN

-----------------------------------------------------------------------------
(* Who works on a row *)

Busy == {g \in Goroutine : pc[g] # "idle"}

\* The record is an exact copy of a row that is running.
Holds(r) ==
    /\ r.id \in DOMAIN jobQueue
    /\ jobQueue[r.id].status = "running"
    /\ RecordOf(r.id) = r

\* A claimed record belongs to one goroutine (the poll loop or one executor):
\* its row stays in the queue, running and unchanged, until that goroutine
\* settles it.  Complete, Bury and Retry write by id alone, with the attempts of
\* the copy, so they are right only because of this (claim_pending.sql,
\* retry_job.sql, delete_queue_job.sql).
ClaimOwnership ==
    /\ \A g \in Busy : Holds(record[g])
    /\ \A r \in claimed : Holds(r)
    /\ \A g, h \in Busy : record[g].id = record[h].id => g = h
    /\ \A g \in Busy, r \in claimed : record[g].id # r.id

\* A job is in one of the three tables only: queued, completed or buried.
OneTable ==
    /\ DOMAIN jobQueue \cap DOMAIN jobHistory = {}
    /\ DOMAIN jobQueue \cap DOMAIN jobGraveyard = {}
    /\ DOMAIN jobHistory \cap DOMAIN jobGraveyard = {}

\* While no operation failed and the context is live, a row that is running
\* after the startup reset has somebody working on it: no other path of
\* processQueue and executeQueued leaves a row that only a restart can free.
NoSilentStranding ==
    (pollLoop \in {"select", "spawn"} /\ ~faulted /\ ~cancelled) =>
        \A j \in Rows("running") :
            \/ \E g \in Busy : record[g].id = j
            \/ \E r \in claimed : r.id = j

-----------------------------------------------------------------------------
(* How often a job is run *)

Settled(j) == j \in DOMAIN jobHistory \cup DOMAIN jobGraveyard

\* The attempts the database records for a job.
Attempts(j) ==
    CASE j \in DOMAIN jobQueue -> jobQueue[j].attempts
      [] j \in DOMAIN jobHistory -> jobHistory[j].attempts
      [] j \in DOMAIN jobGraveyard -> jobGraveyard[j].attempts
      [] OTHER -> 0

\* Every recorded attempt was a run, and each process left at most one run of
\* a job unrecorded (its outcome was lost by a crash, a cancelled context or a
\* failed write).  The recorded attempts stay below the limit while the job is
\* queued, so a job is run less than MaxAttempts + boots times until it is
\* settled, and at least once if it completed (executeQueued, retry_job.sql).
AttemptAccounting ==
    /\ \A j \in DOMAIN jobQueue :
        /\ jobQueue[j].attempts < MaxAttempts
        /\ jobQueue[j].attempts <= runs[j]
        /\ runs[j] <= jobQueue[j].attempts + boots
    /\ \A j \in DOMAIN jobHistory :
        /\ jobHistory[j].attempts \in 1 .. MaxAttempts
        /\ jobHistory[j].attempts <= runs[j]
        /\ runs[j] < jobHistory[j].attempts + boots
    /\ \A j \in DOMAIN jobGraveyard :
        /\ jobGraveyard[j].attempts <= MaxAttempts
        /\ jobGraveyard[j].attempts <= runs[j]
        /\ runs[j] < jobGraveyard[j].attempts + boots

\* A job found in the history or the graveyard is never run again and its row
\* there never changes, whatever goroutines are left over from before.
SettledIsFinal ==
    [][\A j \in JobId : Settled(j) =>
            /\ Settled(j)'
            /\ runs'[j] = runs[j]
            /\ Attempts(j)' = Attempts(j)]_vars

-----------------------------------------------------------------------------
(* Shutting down *)

\* When Close has closed the worker database, no goroutine is left that would
\* write to it: not the poll loop, not an executor, not a scheduled job.
ClosedIsQuiet ==
    phase = "closed" =>
        /\ pollLoop = "none"
        /\ Busy = {}
        /\ \A n \in Names : scheduled[n] = "none"

-----------------------------------------------------------------------------
(* What the queue promises *)

Stage == [j \in JobId |->
            CASE j \in DOMAIN jobQueue -> "open"
              [] j \in DOMAIN jobHistory -> "completed"
              [] j \in DOMAIN jobGraveyard -> "buried"
              [] OTHER -> "absent"]

RecordedAttempts == [j \in JobId |-> Attempts(j)]

JL == INSTANCE JobLifecycle WITH stage <- Stage, attempts <- RecordedAttempts

\* The runner implements the lifecycle of module JobLifecycle: claims, restarts,
\* lost outcomes and failing writes are invisible steps of it.
ImplementsLifecycle == JL!Spec

\* The process keeps serving and its database operations succeed.
Serving == phase = "started" /\ ~cancelled /\ ~faulted

\* A job accepted at any time, also in an earlier process that crashed while it
\* ran, is settled if the latest process keeps serving.
EveryJobSettles ==
    <>[]Serving => \A j \in JobId : j \in DOMAIN jobQueue ~> Settled(j)
=============================================================================
