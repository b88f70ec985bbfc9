---------------------------- MODULE WorkerProofs ----------------------------
(***************************************************************************)
(* Proofs about the job runner, for any number of jobs, names, goroutines, *)
(* attempts and boots.                                                     *)
(***************************************************************************)
EXTENDS WorkerProperties, TLAPS

-----------------------------------------------------------------------------
(* The inductive invariant *)

\* Where the goroutines can be in each phase of the process.
ProcessShape ==
    /\ phase \in {"down", "initialized", "closed"} =>
            pollLoop = "none" /\ Busy = {}
    /\ phase \in {"down", "initialized"} => ~cancelled
    /\ phase = "closed" => \A n \in Names : scheduled[n] = "none"
    /\ phase \in {"down", "initialized"} => \A n \in Names : scheduled[n] = "none"
    /\ pollLoop = "reset" => Busy = {}
    /\ pollLoop # "spawn" => claimed = {}
    /\ phase # "down" => boots > 0

\* Nobody has called Run for the row since the process started.
Untouched(j) ==
    \/ jobQueue[j].status = "pending"
    \/ phase = "initialized"
    \/ pollLoop = "reset"
    \/ \E r \in claimed : r.id = j
    \/ \E g \in Busy : record[g].id = j /\ pc[g] \in {"spawned", "rejecting"}

\* The sharper form of the accounting that the stages of the executors need.
UntouchedBound ==
    \A j \in DOMAIN jobQueue : Untouched(j) => runs[j] < jobQueue[j].attempts + boots

ExecutorBound ==
    \A g \in Busy :
        /\ pc[g] \in {"running", "completing", "retrying", "burying"} =>
                record[g].attempts < runs[record[g].id]
        /\ pc[g] = "retrying" => record[g].attempts + 1 < MaxAttempts
        /\ pc[g] = "burying" => record[g].attempts + 1 = MaxAttempts

UnknownNotRun == \A j \in JobId : ~Known(j) => runs[j] = 0

Accounting == AttemptAccounting /\ UntouchedBound /\ ExecutorBound /\ UnknownNotRun

Inv == TypeOK /\ ProcessShape /\ ClaimOwnership /\ OneTable
         /\ Accounting

-----------------------------------------------------------------------------
(* Lemmas about the tables *)

\* An insertion adds its key and keeps every other row.
LEMMA InsertRow ==
    ASSUME NEW Key, NEW Rec, NEW table, IsTable(table, Key, Rec),
           NEW key \in Key, NEW row \in Rec
    PROVE  /\ IsTable(Insert(table, key, row), Key, Rec)
           /\ DOMAIN Insert(table, key, row) = DOMAIN table \cup {key}
           /\ Insert(table, key, row)[key] = row
           /\ \A k \in DOMAIN table \ {key} : Insert(table, key, row)[k] = table[k]
  BY DEF IsTable, Insert

\* Changing the status of rows changes nothing else.
LEMMA RestatusRows ==
    ASSUME IsTable(jobQueue, JobId, Row),
           NEW from \in {"pending", "running"}, NEW to \in {"pending", "running"}
    PROVE  /\ IsTable(Restatus(from, to), JobId, Row)
           /\ DOMAIN Restatus(from, to) = DOMAIN jobQueue
           /\ \A j \in DOMAIN jobQueue :
                /\ Restatus(from, to)[j].name = jobQueue[j].name
                /\ Restatus(from, to)[j].payload = jobQueue[j].payload
                /\ Restatus(from, to)[j].attempts = jobQueue[j].attempts
                /\ Restatus(from, to)[j].status =
                        IF jobQueue[j].status = from THEN to ELSE jobQueue[j].status
  BY DEF IsTable, Restatus, Row

\* A retry changes one row at most, and there the status and the attempts.
LEMMA RetryRow ==
    ASSUME IsTable(jobQueue, JobId, Row), NEW g \in Goroutine, Retry(g),
           record[g].attempts + 1 \in Nat
    PROVE  /\ IsTable(jobQueue', JobId, Row)
           /\ DOMAIN jobQueue' = DOMAIN jobQueue
           /\ \A j \in DOMAIN jobQueue :
                IF j = record[g].id
                THEN /\ jobQueue'[j].name = jobQueue[j].name
                     /\ jobQueue'[j].payload = jobQueue[j].payload
                     /\ jobQueue'[j].status = "pending"
                     /\ jobQueue'[j].attempts = record[g].attempts + 1
                ELSE jobQueue'[j] = jobQueue[j]
  <1> DEFINE attempts == record[g].attempts + 1
             retried(j) == [jobQueue[j] EXCEPT !.status = "pending", !.attempts = attempts]
  <1>1. ASSUME NEW j \in DOMAIN jobQueue
        PROVE  /\ retried(j) \in Row
               /\ retried(j).name = jobQueue[j].name
               /\ retried(j).payload = jobQueue[j].payload
               /\ retried(j).status = "pending"
               /\ retried(j).attempts = attempts
    <2>1. jobQueue[j] \in Row
      BY DEF IsTable
    <2>2. attempts \in Nat
      OBVIOUS
    <2> HIDE DEF attempts
    <2> QED BY <2>1, <2>2 DEF Row
  <1>2. jobQueue' = [j \in DOMAIN jobQueue |->
                        IF j = record[g].id THEN retried(j) ELSE jobQueue[j]]
    BY DEF Retry
  <1> HIDE DEF attempts, retried
  <1>3. IsTable(jobQueue', JobId, Row)
    BY <1>1, <1>2 DEF IsTable
  <1> QED BY <1>1, <1>2, <1>3 DEF attempts

\* What a goroutine reads of a row is a record of that row.
LEMMA RecordOfRow ==
    ASSUME IsTable(jobQueue, JobId, Row), NEW j \in DOMAIN jobQueue
    PROVE  /\ RecordOf(j) \in JobRecord
           /\ RecordOf(j).id = j
           /\ RecordOf(j).attempts = jobQueue[j].attempts
  BY DEF IsTable, Row, RecordOf, JobRecord

\* A busy goroutine holds a record.
LEMMA BusyRecord ==
    ASSUME TypeOK, NEW g \in Busy
    PROVE  g \in Goroutine /\ pc[g] # "idle" /\ record[g] \in JobRecord
  BY DEF TypeOK, Busy

\* Settling a job adds one row to the history or to the graveyard.
LEMMA InsertSettled ==
    ASSUME NEW table, IsTable(table, JobId, SettledRow),
           NEW r \in JobRecord, NEW attempts \in Nat,
           NEW new, new = Insert(table, r.id, SettledRowOf(r, attempts))
    PROVE  /\ IsTable(new, JobId, SettledRow)
           /\ DOMAIN new = DOMAIN table \cup {r.id}
           /\ new[r.id].attempts = attempts
           /\ \A k \in DOMAIN table \ {r.id} : new[k] = table[k]
  <1>1. r.id \in JobId
    BY DEF JobRecord
  <1>2. /\ SettledRowOf(r, attempts) \in SettledRow
        /\ SettledRowOf(r, attempts).attempts = attempts
    BY DEF JobRecord, SettledRowOf, SettledRow
  <1> QED BY <1>1, <1>2, InsertRow

\* Completing moves a job from the queue to the history.
LEMMA CompleteRows ==
    ASSUME TypeOK, NEW g \in Goroutine, Complete(g)
    PROVE  LET id == record[g].id IN
           /\ g \in Busy
           /\ IsTable(jobQueue', JobId, Row)
           /\ IsTable(jobHistory', JobId, SettledRow)
           /\ DOMAIN jobQueue' = DOMAIN jobQueue \ {id}
           /\ \A j \in DOMAIN jobQueue \ {id} : jobQueue'[j] = jobQueue[j]
           /\ DOMAIN jobHistory' = DOMAIN jobHistory \cup {id}
           /\ jobHistory'[id].attempts = record[g].attempts + 1
           /\ \A j \in DOMAIN jobHistory \ {id} : jobHistory'[j] = jobHistory[j]
  <1>1. g \in Busy /\ record[g] \in JobRecord
    BY BusyRecord DEF Complete, Busy
  <1>2. record[g].attempts + 1 \in Nat
    BY <1>1 DEF JobRecord
  <1>3. /\ jobQueue' = Delete(jobQueue, record[g].id)
        /\ jobHistory' = Insert(jobHistory, record[g].id,
                                SettledRowOf(record[g], record[g].attempts + 1))
    BY DEF Complete
  <1>4. IsTable(jobHistory, JobId, SettledRow) /\ IsTable(jobQueue, JobId, Row)
    BY DEF TypeOK
  <1>5. /\ IsTable(jobHistory', JobId, SettledRow)
        /\ DOMAIN jobHistory' = DOMAIN jobHistory \cup {record[g].id}
        /\ jobHistory'[record[g].id].attempts = record[g].attempts + 1
        /\ \A k \in DOMAIN jobHistory \ {record[g].id} : jobHistory'[k] = jobHistory[k]
    <2> DEFINE attempts == record[g].attempts + 1
    <2>1. /\ attempts \in Nat
          /\ jobHistory' = Insert(jobHistory, record[g].id,
                                  SettledRowOf(record[g], attempts))
      BY <1>2, <1>3
    <2> HIDE DEF attempts
    <2>2. /\ IsTable(jobHistory', JobId, SettledRow)
          /\ DOMAIN jobHistory' = DOMAIN jobHistory \cup {record[g].id}
          /\ jobHistory'[record[g].id].attempts = attempts
          /\ \A k \in DOMAIN jobHistory \ {record[g].id} : jobHistory'[k] = jobHistory[k]
      BY <1>1, <1>4, <2>1, InsertSettled
    <2> QED BY <2>2 DEF attempts
  <1>6. /\ IsTable(jobQueue', JobId, Row)
        /\ DOMAIN jobQueue' = DOMAIN jobQueue \ {record[g].id}
        /\ \A j \in DOMAIN jobQueue \ {record[g].id} : jobQueue'[j] = jobQueue[j]
    BY <1>3, <1>4 DEF IsTable, Delete
  <1> QED BY <1>1, <1>5, <1>6

\* Burying moves a job from the queue to the graveyard.
LEMMA BuryRows ==
    ASSUME TypeOK, NEW g \in Busy, NEW attempts \in Nat, BuryWith(g, attempts)
    PROVE  LET id == record[g].id IN
           /\ IsTable(jobQueue', JobId, Row)
           /\ IsTable(jobGraveyard', JobId, SettledRow)
           /\ DOMAIN jobQueue' = DOMAIN jobQueue \ {id}
           /\ \A j \in DOMAIN jobQueue \ {id} : jobQueue'[j] = jobQueue[j]
           /\ DOMAIN jobGraveyard' = DOMAIN jobGraveyard \cup {id}
           /\ jobGraveyard'[id].attempts = attempts
           /\ \A j \in DOMAIN jobGraveyard \ {id} : jobGraveyard'[j] = jobGraveyard[j]
  <1>1. record[g] \in JobRecord
    BY BusyRecord
  <1>2. /\ jobQueue' = Delete(jobQueue, record[g].id)
        /\ jobGraveyard' = Insert(jobGraveyard, record[g].id,
                                  SettledRowOf(record[g], attempts))
    BY DEF BuryWith
  <1>3. IsTable(jobGraveyard, JobId, SettledRow) /\ IsTable(jobQueue, JobId, Row)
    BY DEF TypeOK
  <1>4. /\ IsTable(jobGraveyard', JobId, SettledRow)
        /\ DOMAIN jobGraveyard' = DOMAIN jobGraveyard \cup {record[g].id}
        /\ jobGraveyard'[record[g].id].attempts = attempts
        /\ \A k \in DOMAIN jobGraveyard \ {record[g].id} :
                jobGraveyard'[k] = jobGraveyard[k]
    <2> DEFINE row == SettledRowOf(record[g], attempts)
    <2>1. row \in SettledRow /\ row.attempts = attempts
      BY <1>1 DEF JobRecord, SettledRowOf, SettledRow
    <2>2. record[g].id \in JobId /\ jobGraveyard' = Insert(jobGraveyard, record[g].id, row)
      BY <1>1, <1>2 DEF JobRecord
    <2> HIDE DEF row
    <2> QED BY <1>3, <2>1, <2>2 DEF IsTable, Insert
  <1>5. /\ IsTable(jobQueue', JobId, Row)
        /\ DOMAIN jobQueue' = DOMAIN jobQueue \ {record[g].id}
        /\ \A j \in DOMAIN jobQueue \ {record[g].id} : jobQueue'[j] = jobQueue[j]
    BY <1>2, <1>3 DEF IsTable, Delete
  <1> QED BY <1>4, <1>5

-----------------------------------------------------------------------------
(* Type correctness *)

\* The empty tables and the process that is down are well typed.
LEMMA InitType == Init => TypeOK
  <1>1. ASSUME NEW Key, NEW Rec PROVE IsTable(EmptyTable, Key, Rec)
    BY DEF EmptyTable, IsTable
  <1>2. Init => /\ IsTable(jobQueue, JobId, Row)
                /\ IsTable(jobHistory, JobId, SettledRow)
                /\ IsTable(jobGraveyard, JobId, SettledRow)
    BY <1>1 DEF Init
  <1>3. Init => /\ pc \in [Goroutine -> Pc]
                /\ record \in [Goroutine -> JobRecord \cup {NoRecord}]
                /\ \A g \in Goroutine : record[g] = NoRecord <=> pc[g] = "idle"
    BY DEF Init, Pc
  <1>4. Init => /\ phase \in {"down", "initialized", "started", "closing", "closed"}
                /\ registered \subseteq Names
                /\ cancelled \in BOOLEAN
                /\ pollLoop \in {"none", "reset", "select", "spawn"}
                /\ claimed \subseteq JobRecord
                /\ faulted \in BOOLEAN
    BY DEF Init
  <1>5. Init => /\ scheduled \in [Names -> {"none", "running", "waiting"}]
                /\ direct \in [Names -> {"none", "running", "returned"}]
                /\ runs \in [JobId -> Nat]
                /\ boots \in Nat
    BY DEF Init
  <1> QED
    BY <1>2, <1>3, <1>4, <1>5 DEF TypeOK

\* Every step of the process, of a caller and of a scheduled job keeps the types.
LEMMA ProcessType == TypeOK /\ (Process \/ Caller \/ \E n \in Names : ScheduledJob(n))
                        => TypeOK'
  <1> SUFFICES ASSUME TypeOK,
                      Process \/ Caller \/ \E n \in Names : ScheduledJob(n)
               PROVE  TypeOK'
    OBVIOUS
  <1>1. CASE Boot
    <2>1. registered' \subseteq Names /\ phase' = "initialized" /\ faulted' = FALSE
      BY <1>1 DEF Boot
    <2>2. boots' \in Nat
      BY <1>1 DEF Boot, TypeOK
    <2> QED
      BY <1>1, <2>1, <2>2 DEF Boot, TypeOK, database, executors, poller, others
  <1>2. CASE Start
    BY <1>2 DEF Start, TypeOK, database, executors, history
  <1>3. CASE Signal
    BY <1>3 DEF Signal, TypeOK, database, executors, poller, others, history
  <1>4. CASE CloseBegin
    BY <1>4 DEF CloseBegin, TypeOK, database, executors, poller, others, history
  <1>5. CASE CloseEnd
    BY <1>5 DEF CloseEnd, TypeOK, database, executors, poller, others, history
  <1>6. CASE Exit
    BY <1>6 DEF Exit, FreshProcess, TypeOK, Pc, database, history
  <1>7. ASSUME NEW j \in JobId, NEW n \in Names, NEW p \in Payload, Enqueue(j, n, p)
        PROVE  TypeOK'
    <2> DEFINE row == [name |-> n, payload |-> p, attempts |-> 0, status |-> "pending"]
    <2>1. row \in Row
      BY DEF Row
    <2>2. IsTable(Insert(jobQueue, j, row), JobId, Row)
      <3> HIDE DEF row
      <3> QED BY <2>1, InsertRow DEF TypeOK
    <2> QED
      BY <1>7, <2>2 DEF Enqueue, TypeOK, process, executors, poller, others, history
  <1>8. ASSUME NEW n \in Names, TriggerJob(n) \/ DirectReturns(n)
        PROVE  TypeOK'
    BY <1>8 DEF TriggerJob, DirectReturns, TypeOK, database, process, executors,
                poller, history
  <1>9. ASSUME NEW n \in Names, ScheduledJob(n)
        PROVE  TypeOK'
    BY <1>9 DEF ScheduledJob, ScheduledReturns, ScheduledTick, ScheduledExit, TypeOK,
                database, process, executors, poller, history
  <1> QED
    BY <1>1, <1>2, <1>3, <1>4, <1>5, <1>6, <1>7, <1>8, <1>9 DEF Process, Caller

\* Every step of the poll loop keeps the types.
LEMMA PollType == TypeOK /\ Poll => TypeOK'
  <1> SUFFICES ASSUME TypeOK, Poll PROVE TypeOK'
    OBVIOUS
  <1>1. IsTable(Restatus("running", "pending"), JobId, Row)
    BY RestatusRows DEF TypeOK
  <1>2. IsTable(Restatus("pending", "running"), JobId, Row)
    BY RestatusRows DEF TypeOK
  <1>3. CASE ResetOrphaned
    BY <1>1, <1>3 DEF ResetOrphaned, TypeOK, process, executors, others, history
  <1>4. CASE ResetFails
    BY <1>4 DEF ResetFails, OperationFails, TypeOK, database, process, executors, others
  <1>5. CASE ClaimPending
    <2>1. {RecordOf(j) : j \in Rows("pending")} \subseteq JobRecord
      BY RecordOfRow DEF TypeOK, Rows
    <2> QED
      BY <1>2, <1>5, <2>1 DEF ClaimPending, TypeOK, process, executors, others, history
  <1>6. CASE ClaimLost
    BY <1>2, <1>6 DEF ClaimLost, OperationFails, TypeOK, process, executors, poller, others
  <1>7. ASSUME NEW g \in Goroutine, SpawnExecutor(g)
        PROVE  TypeOK'
    BY <1>7, NoRecordAssumption
       DEF SpawnExecutor, TypeOK, Pc, database, process, others, history
  <1>8. CASE PollExit
    BY <1>8 DEF PollExit, TypeOK, database, process, executors, others, history
  <1> QED
    BY <1>3, <1>4, <1>5, <1>6, <1>7, <1>8 DEF Poll

\* Every step of an executor keeps the types.
LEMMA ExecuteType == ASSUME TypeOK, NEW g \in Goroutine, Execute(g)
                     PROVE  TypeOK'
  <1>1. pc[g] # "idle"
    BY DEF Execute, Dispatch, RunReturns, RunSucceeds, RunErrs, Settle, Complete, Retry,
           Bury, Reject, SettleFails
  <1>2. record[g] \in JobRecord
    BY <1>1, BusyRecord DEF Busy
  <1>3. /\ record[g].id \in JobId
        /\ record[g].attempts \in Nat
        /\ record[g].attempts + 1 \in Nat
    BY <1>2 DEF JobRecord
  <1>4. CASE Dispatch(g)
    BY <1>3, <1>4 DEF Dispatch, TypeOK, Pc, database, process, poller, others
  <1>5. CASE RunReturns(g)
    BY <1>5 DEF RunReturns, RunSucceeds, RunErrs, TypeOK, Pc, database, process, poller,
                others, history
  <1>6. Finish(g) => /\ pc' \in [Goroutine -> Pc]
                     /\ record' \in [Goroutine -> JobRecord \cup {NoRecord}]
                     /\ \A h \in Goroutine : record'[h] = NoRecord <=> pc'[h] = "idle"
    BY NoRecordAssumption DEF Finish, TypeOK, Pc
  <1>8. CASE Complete(g)
    BY <1>6, <1>8, CompleteRows DEF Complete, Finish, TypeOK, process, poller, others
  <1>9. CASE Retry(g)
    <2>1. IsTable(jobQueue', JobId, Row)
      BY <1>3, <1>9, RetryRow DEF TypeOK
    <2> QED
      BY <1>6, <1>9, <2>1 DEF Retry, Finish, TypeOK, process, poller, others
  <1>10. ASSUME NEW attempts \in Nat, BuryWith(g, attempts)
         PROVE  TypeOK'
    <2>1. g \in Busy
      BY <1>1 DEF Busy
    <2> QED
      BY <1>6, <1>10, <2>1, BuryRows
         DEF BuryWith, Finish, TypeOK, process, poller, others
  <1>11. CASE SettleFails(g)
    BY <1>6, <1>11 DEF SettleFails, Finish, OperationFails, TypeOK, process, poller, others,
                       database
  <1> QED
    BY <1>3, <1>4, <1>5, <1>8, <1>9, <1>10, <1>11 DEF Execute, Settle, Bury, Reject

\* Every step of the runner keeps the tables and the goroutines well typed.
LEMMA NextType == TypeOK /\ [Next]_vars => TypeOK'
  <1>1. TypeOK /\ UNCHANGED vars => TypeOK'
    BY DEF TypeOK, vars, database, executors, process, poller, others, history
  <1> QED
    BY <1>1, ProcessType, PollType, ExecuteType DEF Next

\* The variables always have the values their declarations promise.
THEOREM TypeCorrect == Spec => []TypeOK
  <1> QED BY InitType, NextType, PTL DEF Spec

-----------------------------------------------------------------------------
(* The phases of the process *)

\* The steps that touch neither the tables nor the executors nor the claims.
LEMMA QuietSteps ==
    Boot \/ Start \/ Signal \/ CloseBegin \/ CloseEnd \/ ResetFails \/ PollExit
      \/ (\E n \in Names : TriggerJob(n) \/ DirectReturns(n) \/ ScheduledJob(n))
      \/ UNCHANGED vars
    => UNCHANGED <<database, executors, claimed, runs>>
  BY DEF Boot, Start, Signal, CloseBegin, CloseEnd, ResetFails, PollExit, TriggerJob,
         DirectReturns, ScheduledJob, ScheduledReturns, ScheduledTick, ScheduledExit,
         vars, database, executors, process, poller, others, history

\* The goroutine that steps is busy and stays on its record until it finishes.
LEMMA ExecuteFrame ==
    ASSUME TypeOK, NEW g \in Goroutine, Execute(g)
    PROVE  /\ g \in Busy
           /\ \/ /\ Busy' = Busy
                 /\ UNCHANGED <<record, database>>
              \/ /\ Busy' = Busy \ {g}
                 /\ \A h \in Busy' : record'[h] = record[h] /\ pc'[h] = pc[h]
           /\ UNCHANGED <<process, poller, others, boots>>
  <1>1. g \in Busy
    BY DEF Execute, Dispatch, RunReturns, RunSucceeds, RunErrs, Settle, Complete, Retry,
           Bury, Reject, SettleFails, Busy
  <1>2. CASE Dispatch(g)
    BY <1>1, <1>2 DEF Dispatch, TypeOK, Busy
  <1>3. CASE RunReturns(g)
    BY <1>1, <1>3 DEF RunReturns, RunSucceeds, RunErrs, history, TypeOK, Busy
  <1>4. CASE Finish(g)
    BY <1>1, <1>4 DEF Finish, TypeOK, Busy
  <1>5. Settle(g) => Finish(g)
    BY DEF Settle, Complete, Retry, Bury, Reject, BuryWith, SettleFails
  <1> QED
    BY <1>1, <1>2, <1>3, <1>4, <1>5 DEF Execute

\* Every step keeps what the phase of the process says of its goroutines.
LEMMA ShapeNext == TypeOK /\ ProcessShape /\ [Next]_vars => ProcessShape'
  <1> SUFFICES ASSUME TypeOK, ProcessShape, [Next]_vars PROVE ProcessShape'
    OBVIOUS
  <1> USE DEF ProcessShape, Busy
  <1>1. CASE Boot
    BY <1>1 DEF Boot, TypeOK, executors, poller, others
  <1>2. CASE Start
    BY <1>2 DEF Start, TypeOK, executors, history
  <1>3. CASE Signal
    BY <1>3 DEF Signal, TypeOK, executors, poller, others, history
  <1>4. CASE CloseBegin
    BY <1>4 DEF CloseBegin, TypeOK, executors, poller, others, history
  <1>5. CASE CloseEnd
    BY <1>5 DEF CloseEnd, Drained, TypeOK, executors, poller, others, history
  <1>6. CASE Exit
    BY <1>6 DEF Exit, FreshProcess, history
  <1>7. ASSUME NEW j \in JobId, NEW n \in Names, NEW p \in Payload, Enqueue(j, n, p)
        PROVE  ProcessShape'
    BY <1>7 DEF Enqueue, process, executors, poller, others, history
  <1>8. ASSUME NEW n \in Names, TriggerJob(n) \/ DirectReturns(n)
        PROVE  ProcessShape'
    BY <1>8 DEF TriggerJob, DirectReturns, process, executors, poller, history
  <1>9. ASSUME NEW n \in Names, ScheduledJob(n)
        PROVE  ProcessShape'
    BY <1>9 DEF ScheduledJob, ScheduledReturns, ScheduledTick, ScheduledExit, TypeOK,
                process, executors, poller, history
  <1>10. CASE Poll
    BY <1>10 DEF Poll, ResetOrphaned, ResetFails, ClaimPending, ClaimLost, SpawnExecutor,
                 PollExit, process, executors, poller, others, history
  <1>11. ASSUME NEW g \in Goroutine, Execute(g)
         PROVE  ProcessShape'
    BY <1>11, ExecuteFrame DEF process, poller, others
  <1>12. CASE UNCHANGED vars
    BY <1>12 DEF vars, process, executors, poller, others, history
  <1> QED
    BY <1>1, <1>2, <1>3, <1>4, <1>5, <1>6, <1>7, <1>8, <1>9, <1>10, <1>11, <1>12
       DEF Next, Process, Caller

-----------------------------------------------------------------------------
(* Ownership of rows *)

\* A record keeps its row if the row does not change.
LEMMA HoldsStill ==
    ASSUME NEW r, Holds(r), r.id \in DOMAIN jobQueue', jobQueue'[r.id] = jobQueue[r.id]
    PROVE  Holds(r)'
  BY DEF Holds, RecordOf

\* Every step keeps each claimed record with one goroutine and its row as it was
\* claimed; this is where the claim and the writes by id meet.
LEMMA OwnershipNext ==
    TypeOK /\ ProcessShape /\ ClaimOwnership /\ [Next]_vars => ClaimOwnership'
  <1> SUFFICES ASSUME TypeOK, ProcessShape, ClaimOwnership, [Next]_vars
               PROVE  ClaimOwnership'
    OBVIOUS
  <1> USE DEF ClaimOwnership
  <1>1. CASE UNCHANGED <<database, executors, claimed, runs>>
    BY <1>1 DEF database, executors, Busy, Holds, RecordOf
  <1>2. CASE Exit
    BY <1>2 DEF Exit, FreshProcess, Busy
  <1>3. ASSUME NEW j \in JobId, NEW n \in Names, NEW p \in Payload, Enqueue(j, n, p)
        PROVE  ClaimOwnership'
    <2>1. /\ DOMAIN jobQueue \subseteq DOMAIN jobQueue'
          /\ \A k \in DOMAIN jobQueue : jobQueue'[k] = jobQueue[k]
      BY <1>3 DEF Enqueue, Known, Insert
    <2>2. ASSUME NEW r, Holds(r) PROVE Holds(r)'
      BY <2>1, <2>2, HoldsStill DEF Holds
    <2> QED BY <1>3, <2>2 DEF Enqueue, executors, poller, Busy
  <1>4. CASE ResetOrphaned
    BY <1>4 DEF ResetOrphaned, ProcessShape, executors, Busy
  <1>5. ASSUME jobQueue' = Restatus("pending", "running"), NEW r, Holds(r)
        PROVE  Holds(r)'
    BY <1>5, HoldsStill DEF Restatus, Holds
  <1>6. CASE ClaimPending
    <2>1. ASSUME NEW j \in Rows("pending"), NEW r, r = RecordOf(j)
          PROVE  r.id = j /\ Holds(r)'
      <3>1. j \in DOMAIN jobQueue /\ jobQueue[j].status = "pending"
        BY <2>1 DEF Rows
      <3>2. /\ DOMAIN jobQueue' = DOMAIN jobQueue
            /\ jobQueue'[j].name = jobQueue[j].name
            /\ jobQueue'[j].payload = jobQueue[j].payload
            /\ jobQueue'[j].attempts = jobQueue[j].attempts
            /\ jobQueue'[j].status = "running"
        BY <1>6, <3>1, RestatusRows DEF ClaimPending, TypeOK
      <3>3. RecordOf(j)' = RecordOf(j) /\ RecordOf(j).id = j
        BY <3>2 DEF RecordOf
      <3> QED BY <2>1, <3>1, <3>2, <3>3 DEF Holds
    <2>2. \A r \in claimed' : r.id \in Rows("pending") /\ Holds(r)'
      <3>1. claimed' = {RecordOf(j) : j \in Rows("pending")}
        BY <1>6 DEF ClaimPending
      <3> QED BY <2>1, <3>1
    <2>3. Busy' = Busy /\ record' = record
      BY <1>6 DEF ClaimPending, executors, Busy
    <2>4. \A g \in Busy : record[g].id \notin Rows("pending")
      BY DEF Holds, Rows
    <2> QED BY <1>5, <1>6, <2>2, <2>3, <2>4 DEF ClaimPending
  <1>7. CASE ClaimLost
    BY <1>5, <1>7 DEF ClaimLost, executors, poller, Busy
  <1>8. ASSUME NEW g \in Goroutine, SpawnExecutor(g)
        PROVE  ClaimOwnership'
    <2>1. PICK r \in claimed : /\ record' = [record EXCEPT ![g] = r]
                              /\ claimed' = claimed \ {r}
      BY <1>8 DEF SpawnExecutor
    <2>2. /\ Busy' = Busy \cup {g} /\ g \notin Busy
          /\ record'[g] = r
          /\ \A h \in Busy : record'[h] = record[h]
      BY <1>8, <2>1 DEF SpawnExecutor, TypeOK, Busy
    <2>3. ASSUME NEW x, Holds(x) PROVE Holds(x)'
      BY <1>8, <2>3 DEF SpawnExecutor, database, Holds, RecordOf
    <2>4. \A s \in claimed : s.id = r.id => s = r
      BY <2>1 DEF Holds
    <2> QED BY <2>1, <2>2, <2>3, <2>4
  <1>9. ASSUME NEW g \in Goroutine, Execute(g)
        PROVE  ClaimOwnership'
    <2>1. claimed' = claimed /\ g \in Busy
      BY <1>9, ExecuteFrame DEF poller
    <2>2. CASE Busy' = Busy /\ UNCHANGED <<record, database>>
      BY <2>1, <2>2 DEF database, Holds, RecordOf
    <2>3. CASE /\ Busy' = Busy \ {g}
               /\ \A h \in Busy' : record'[h] = record[h]
      <3>1. ASSUME NEW j \in DOMAIN jobQueue, j # record[g].id, ~UNCHANGED jobQueue
            PROVE  j \in DOMAIN jobQueue' /\ jobQueue'[j] = jobQueue[j]
        BY <1>9, <3>1
           DEF Execute, Dispatch, RunReturns, RunSucceeds, RunErrs, Settle, Complete,
               Retry, Bury, Reject, BuryWith, SettleFails, Delete, database
      <3>2. ASSUME NEW r, Holds(r), r.id # record[g].id PROVE Holds(r)'
        BY <3>1, <3>2, HoldsStill DEF Holds
      <3> QED BY <2>1, <2>3, <3>2
    <2> QED BY <1>9, <2>2, <2>3, ExecuteFrame
  <1> QED
    BY <1>1, <1>2, <1>3, <1>4, <1>6, <1>7, <1>8, <1>9, QuietSteps
       DEF Next, Process, Caller, Poll

-----------------------------------------------------------------------------
(* One table per job *)

\* Every step keeps a job in one table: the settling transactions insert a job
\* whose row they delete.
LEMMA OneTableNext ==
    TypeOK /\ ClaimOwnership /\ OneTable /\ [Next]_vars => OneTable'
  <1> SUFFICES ASSUME TypeOK, ClaimOwnership, OneTable, [Next]_vars PROVE OneTable'
    OBVIOUS
  <1> USE DEF OneTable
  <1>1. CASE UNCHANGED database
    BY <1>1 DEF database
  <1>2. ASSUME NEW j \in JobId, NEW n \in Names, NEW p \in Payload, Enqueue(j, n, p)
        PROVE  OneTable'
    BY <1>2 DEF Enqueue, Known, Insert
  <1>3. CASE ResetOrphaned \/ ClaimPending \/ ClaimLost
    BY <1>3 DEF ResetOrphaned, ClaimPending, ClaimLost, Restatus
  <1>4. ASSUME NEW g \in Goroutine, Execute(g)
        PROVE  OneTable'
    <2>1. g \in Busy /\ record[g].id \in DOMAIN jobQueue
      BY <1>4, ExecuteFrame DEF ClaimOwnership, Holds
    <2>2. record[g].attempts \in Nat /\ record[g].attempts + 1 \in Nat
      BY <2>1, BusyRecord DEF JobRecord
    <2>3. CASE Complete(g)
      <3>1. /\ DOMAIN jobQueue' = DOMAIN jobQueue \ {record[g].id}
            /\ DOMAIN jobHistory' = DOMAIN jobHistory \cup {record[g].id}
        BY <2>3, CompleteRows
      <3>2. jobGraveyard' = jobGraveyard
        BY <2>3 DEF Complete
      <3> QED BY <2>1, <3>1, <3>2
    <2>4. ASSUME NEW attempts \in Nat, BuryWith(g, attempts) PROVE OneTable'
      <3>1. /\ DOMAIN jobQueue' = DOMAIN jobQueue \ {record[g].id}
            /\ DOMAIN jobGraveyard' = DOMAIN jobGraveyard \cup {record[g].id}
        BY <2>1, <2>4, BuryRows
      <3>2. jobHistory' = jobHistory
        BY <2>4 DEF BuryWith
      <3> QED BY <2>1, <3>1, <3>2
    <2>5. CASE Retry(g)
      BY <2>5 DEF Retry
    <2>6. Dispatch(g) \/ RunReturns(g) \/ SettleFails(g) => UNCHANGED database
      BY DEF Dispatch, RunReturns, RunSucceeds, RunErrs, SettleFails
    <2> QED
      BY <1>1, <1>4, <2>2, <2>3, <2>4, <2>5, <2>6 DEF Execute, Settle, Bury, Reject
  <1>5. Exit \/ (\E g \in Goroutine : SpawnExecutor(g)) => UNCHANGED database
    BY DEF Exit, SpawnExecutor
  <1> QED
    BY <1>1, <1>2, <1>3, <1>4, <1>5, QuietSteps DEF Next, Process, Caller, Poll

-----------------------------------------------------------------------------
(* Attempts and runs *)

\* What is known of the row of a busy executor.
LEMMA HeldRow ==
    ASSUME Inv, NEW g \in Busy
    PROVE  /\ record[g] \in JobRecord
           /\ record[g].id \in JobId
           /\ record[g].attempts \in Nat
           /\ record[g].id \in DOMAIN jobQueue
           /\ jobQueue[record[g].id].attempts = record[g].attempts
           /\ jobQueue[record[g].id].status = "running"
           /\ record[g].id \notin DOMAIN jobHistory \cup DOMAIN jobGraveyard
           /\ phase # "initialized" /\ pollLoop # "reset"
           /\ \A r \in claimed : r.id # record[g].id
           /\ \A h \in Busy : record[h].id = record[g].id => h = g
  <1>1. TypeOK /\ ProcessShape /\ ClaimOwnership /\ OneTable
    BY DEF Inv
  <1>2. record[g] \in JobRecord
    BY <1>1, BusyRecord
  <1>3. record[g].id \in JobId /\ record[g].attempts \in Nat
    BY <1>2 DEF JobRecord
  <1>4. Holds(record[g]) /\ \A h \in Busy : record[h].id = record[g].id => h = g
    BY <1>1 DEF ClaimOwnership
  <1>5. /\ record[g].id \in DOMAIN jobQueue
        /\ jobQueue[record[g].id].status = "running"
        /\ jobQueue[record[g].id].attempts = record[g].attempts
    BY <1>2, <1>4 DEF Holds, RecordOf, JobRecord
  <1>6. /\ phase # "initialized" /\ pollLoop # "reset"
        /\ \A r \in claimed : r.id # record[g].id
    BY <1>1 DEF ProcessShape, ClaimOwnership
  <1>7. record[g].id \notin DOMAIN jobHistory \cup DOMAIN jobGraveyard
    BY <1>1, <1>5 DEF OneTable
  <1> QED BY <1>2, <1>3, <1>4, <1>5, <1>6, <1>7

\* Numbers of the accounting.
LEMMA Numbers ==
    ASSUME Inv
    PROVE  /\ runs \in [JobId -> Nat] /\ boots \in Nat
           /\ MaxAttempts \in Nat /\ MaxAttempts > 0
           /\ \A j \in DOMAIN jobQueue : j \in JobId /\ jobQueue[j].attempts \in Nat
           /\ \A j \in DOMAIN jobHistory : j \in JobId /\ jobHistory[j].attempts \in Nat
           /\ \A j \in DOMAIN jobGraveyard : j \in JobId /\ jobGraveyard[j].attempts \in Nat
  BY WorkerAssumption DEF Inv, TypeOK, IsTable, Row, SettledRow

\* A step that changes no table and calls no Run keeps the accounting if the
\* rows it leaves untouched were untouched.
LEMMA AccountingFrame ==
    ASSUME Inv, UNCHANGED <<database, runs, boots>>,
           \A j \in DOMAIN jobQueue : Untouched(j)' => Untouched(j),
           ExecutorBound'
    PROVE  Accounting'
  BY DEF Inv, Accounting, AttemptAccounting, UntouchedBound, UnknownNotRun, Known, database

\* A step that leaves tables, executors, claims and runs alone keeps the
\* accounting; a boot allows each job one unrecorded run more.
LEMMA AccountingProcess ==
    ASSUME Inv, Next, UNCHANGED <<database, executors, claimed, runs>>
    PROVE  Accounting'
  <1>1. ExecutorBound'
    BY DEF Inv, Accounting, ExecutorBound, Busy, executors
  <1>2. CASE Boot
    <2>1. boots' = boots + 1
      BY <1>2 DEF Boot
    <2> QED
      BY <1>1, <2>1, Numbers
         DEF Inv, Accounting, AttemptAccounting, UntouchedBound, UnknownNotRun, Known,
             database
  <1>3. CASE ~Boot
    <2>1. boots' = boots
      BY <1>3, ExecuteFrame
         DEF Next, Process, Caller, Poll, Start, Signal, CloseBegin, CloseEnd, Exit, Enqueue,
             TriggerJob, DirectReturns, ScheduledJob, ScheduledReturns, ScheduledTick,
             ScheduledExit, ResetOrphaned, ResetFails, ClaimPending, ClaimLost,
             SpawnExecutor, PollExit, history, Inv
    <2>2. /\ phase' = "initialized" => phase = "initialized"
          /\ pollLoop' = "reset" => phase = "initialized" \/ pollLoop = "reset"
      BY <1>3, ExecuteFrame
         DEF Next, Process, Caller, Poll, Start, Signal, CloseBegin, CloseEnd, Exit, Enqueue,
             TriggerJob, DirectReturns, ScheduledJob, ScheduledReturns, ScheduledTick,
             ScheduledExit, ResetOrphaned, ResetFails, ClaimPending, ClaimLost,
             SpawnExecutor, PollExit, process, poller, FreshProcess, Inv
    <2>3. \A j \in DOMAIN jobQueue : Untouched(j)' => Untouched(j)
      BY <2>2 DEF Untouched, Busy, database, executors
    <2> QED BY <1>1, <2>1, <2>3, AccountingFrame
  <1> QED BY <1>2, <1>3

\* A crash loses the runs in progress: each was one run more than recorded, and
\* the next boot accounts for it.
LEMMA AccountingExit == Inv /\ Exit => Accounting'
  <1> SUFFICES ASSUME Inv, Exit PROVE Accounting'
    OBVIOUS
  <1>1. /\ UNCHANGED <<database, runs, boots>> /\ Busy' = {} /\ claimed' = {}
        /\ phase' = "down" /\ pollLoop' = "none"
    BY DEF Exit, FreshProcess, history, Busy
  <1>2. ExecutorBound'
    BY <1>1 DEF ExecutorBound
  <1>3. \A j \in DOMAIN jobQueue : Untouched(j)' => Untouched(j)
    BY <1>1 DEF Untouched, database
  <1> QED BY <1>1, <1>2, <1>3, AccountingFrame

\* A new job has no attempts and no runs.
LEMMA AccountingEnqueue ==
    ASSUME Inv, NEW j \in JobId, NEW n \in Names, NEW p \in Payload, Enqueue(j, n, p)
    PROVE  Accounting'
  <1>1. /\ DOMAIN jobQueue' = DOMAIN jobQueue \cup {j}
        /\ jobQueue'[j].attempts = 0
        /\ \A k \in DOMAIN jobQueue : k # j /\ jobQueue'[k] = jobQueue[k]
        /\ ~Known(j)
        /\ UNCHANGED <<jobHistory, jobGraveyard, executors, process, poller, runs, boots>>
    BY DEF Enqueue, Insert, Known, history
  <1>2. boots > 0 /\ runs[j] = 0
    BY <1>1 DEF Inv, ProcessShape, Accounting, UnknownNotRun, Enqueue
  <1>3. \A k \in DOMAIN jobQueue : Untouched(k)' => Untouched(k)
    BY <1>1 DEF Untouched, Busy, executors, process, poller
  <1>4. AttemptAccounting'
    BY <1>1, <1>2, Numbers DEF Inv, Accounting, AttemptAccounting
  <1>5. UntouchedBound'
    BY <1>1, <1>2, <1>3, Numbers DEF Inv, Accounting, UntouchedBound
  <1>6. ExecutorBound' /\ UnknownNotRun'
    BY <1>1 DEF Inv, Accounting, ExecutorBound, UnknownNotRun, Known, Busy, executors
  <1> QED BY <1>4, <1>5, <1>6 DEF Accounting

\* Resets and claims change the status of rows and not their attempts.
LEMMA AccountingPoll == Inv /\ Poll => Accounting'
  <1> SUFFICES ASSUME Inv, Poll PROVE Accounting'
    OBVIOUS
  <1>1. \A from, to \in {"pending", "running"} : jobQueue' = Restatus(from, to) =>
            /\ DOMAIN jobQueue' = DOMAIN jobQueue
            /\ \A j \in DOMAIN jobQueue :
                  /\ jobQueue'[j].attempts = jobQueue[j].attempts
                  /\ jobQueue'[j].status =
                        IF jobQueue[j].status = from THEN to ELSE jobQueue[j].status
    BY RestatusRows DEF Inv, TypeOK
  <1>2. ASSUME DOMAIN jobQueue' = DOMAIN jobQueue,
               \A j \in DOMAIN jobQueue : jobQueue'[j].attempts = jobQueue[j].attempts,
               UNCHANGED <<jobHistory, jobGraveyard, executors, runs, boots>>,
               UntouchedBound'
        PROVE  Accounting'
    BY <1>2 DEF Inv, Accounting, AttemptAccounting, ExecutorBound, UnknownNotRun, Known,
                Busy, executors
  <1>3. CASE ResetOrphaned
    <2>1. \A j \in DOMAIN jobQueue : Untouched(j)
      BY <1>3 DEF ResetOrphaned, Untouched
    <2> QED
      BY <1>1, <1>2, <1>3, <2>1
         DEF ResetOrphaned, Inv, Accounting, UntouchedBound, executors, history
  <1>4. CASE ClaimPending
    <2>1. \A r \in claimed' : r.id \in Rows("pending")
      BY <1>4 DEF ClaimPending, RecordOf
    <2>2. phase' # "initialized" /\ pollLoop' # "reset"
      BY <1>4 DEF ClaimPending, Inv, ProcessShape, process
    <2>3. \A j \in DOMAIN jobQueue : Untouched(j)' => Untouched(j)
      BY <1>1, <1>4, <2>1, <2>2
         DEF ClaimPending, Untouched, Rows, Busy, executors, Inv, TypeOK, IsTable, Row
    <2> QED
      BY <1>1, <1>2, <1>4, <2>3
         DEF ClaimPending, Inv, Accounting, UntouchedBound, executors, history
  <1>5. CASE ClaimLost
    <2>1. \A j \in DOMAIN jobQueue : Untouched(j)' => Untouched(j)
      BY <1>1, <1>5
         DEF ClaimLost, Untouched, Rows, Busy, executors, process, poller, Inv, TypeOK,
             IsTable, Row
    <2> QED
      BY <1>1, <1>2, <1>5, <2>1 DEF ClaimLost, Inv, Accounting, UntouchedBound, executors
  <1>6. ASSUME NEW g \in Goroutine, SpawnExecutor(g)
        PROVE  Accounting'
    <2>1. PICK r \in claimed : /\ record' = [record EXCEPT ![g] = r]
                              /\ claimed' = claimed \ {r}
      BY <1>6 DEF SpawnExecutor
    <2>2. /\ Busy' = Busy \cup {g} /\ g \notin Busy
          /\ record'[g] = r /\ pc'[g] = "spawned"
          /\ \A h \in Busy : record'[h] = record[h] /\ pc'[h] = pc[h]
          /\ pollLoop' # "reset"
          /\ UNCHANGED <<database, runs, boots, phase>>
      BY <1>6, <2>1 DEF SpawnExecutor, Inv, TypeOK, Busy, process, history
    <2>3. \A j \in DOMAIN jobQueue : Untouched(j)' => Untouched(j)
      BY <2>1, <2>2 DEF Untouched, database
    <2>4. ExecutorBound'
      BY <2>2 DEF Inv, Accounting, ExecutorBound
    <2> QED BY <2>2, <2>3, <2>4, AccountingFrame
  <1>7. CASE ResetFails \/ PollExit
    BY <1>7, QuietSteps, AccountingProcess DEF Next
  <1> QED BY <1>3, <1>4, <1>5, <1>6, <1>7 DEF Poll

\* Running, settling and failing to settle keep attempts and runs in step.
LEMMA AccountingExecute ==
    ASSUME Inv, NEW g \in Goroutine, Execute(g)
    PROVE  Accounting'
  <1>0. PICK id : id = record[g].id
    OBVIOUS
  <1>1. /\ g \in Busy /\ TypeOK /\ claimed' = claimed /\ phase' = phase
        /\ pollLoop' = pollLoop /\ boots' = boots
    BY ExecuteFrame DEF Inv, process, poller
  <1>2. /\ Busy' = Busy \/ Busy' = Busy \ {g}
        /\ \A h \in Busy' \ {g} : record'[h] = record[h] /\ pc'[h] = pc[h]
    BY ExecuteFrame
       DEF Execute, Dispatch, RunReturns, RunSucceeds, RunErrs, Settle, Complete, Retry,
           Bury, Reject, BuryWith, SettleFails, Finish, Inv, TypeOK, Busy
  <1>3. /\ id = record[g].id /\ id \in JobId /\ id \in DOMAIN jobQueue /\ record[g].attempts \in Nat
        /\ jobQueue[id].attempts = record[g].attempts
        /\ jobQueue[id].status = "running"
        /\ id \notin DOMAIN jobHistory \cup DOMAIN jobGraveyard
        /\ phase # "initialized" /\ pollLoop # "reset"
        /\ \A r \in claimed : r.id # id
        /\ \A h \in Busy \ {g} : record[h].id # id /\ record[h].id \in JobId
    BY <1>0, <1>1, HeldRow
  <1>4. /\ AttemptAccounting /\ UntouchedBound /\ ExecutorBound /\ UnknownNotRun
    BY DEF Inv, Accounting
  <1>5. /\ \A k \in DOMAIN jobQueue \ {id} :
                k \in DOMAIN jobQueue' /\ jobQueue'[k] = jobQueue[k]
        /\ DOMAIN jobQueue' \subseteq DOMAIN jobQueue
        /\ \A k \in JobId \ {id} : runs'[k] = runs[k]
    BY <1>1, <1>3, CompleteRows, BuryRows, RetryRow, Numbers, ZenonT(20)
       DEF Execute, Dispatch, RunReturns, RunSucceeds, RunErrs, Settle, Complete, Retry,
           Bury, Reject, BuryWith, SettleFails, Finish, database, history, Delete
  <1>6. \A k \in DOMAIN jobQueue \ {id} : Untouched(k)' => Untouched(k)
    <2>1. g \in Busy' => record'[g] = record[g]
      BY ExecuteFrame DEF Inv
    <2> QED BY <1>1, <1>2, <1>3, <1>5, <2>1 DEF Untouched
  <1>7. \A h \in Busy' \ {g} :
            /\ pc'[h] \in {"running", "completing", "retrying", "burying"} =>
                    record'[h].attempts < runs'[record'[h].id]
            /\ pc'[h] = "retrying" => record'[h].attempts + 1 < MaxAttempts
            /\ pc'[h] = "burying" => record'[h].attempts + 1 = MaxAttempts
    BY <1>2, <1>3, <1>4, <1>5 DEF ExecutorBound
  \* What is left to show is about the job of g.
  <1>8. ASSUME /\ DOMAIN jobHistory' \subseteq DOMAIN jobHistory \cup {id}
               /\ DOMAIN jobGraveyard' \subseteq DOMAIN jobGraveyard \cup {id}
               /\ \A k \in DOMAIN jobHistory : k \in DOMAIN jobHistory' /\ jobHistory'[k] = jobHistory[k]
               /\ \A k \in DOMAIN jobGraveyard : k \in DOMAIN jobGraveyard' /\ jobGraveyard'[k] = jobGraveyard[k],
               Known(id)',
               id \in DOMAIN jobQueue' =>
                    /\ jobQueue'[id].attempts < MaxAttempts
                    /\ jobQueue'[id].attempts <= runs'[id]
                    /\ runs'[id] <= jobQueue'[id].attempts + boots
                    /\ Untouched(id)' => runs'[id] < jobQueue'[id].attempts + boots,
               id \in DOMAIN jobHistory' =>
                    /\ jobHistory'[id].attempts \in 1 .. MaxAttempts
                    /\ jobHistory'[id].attempts <= runs'[id]
                    /\ runs'[id] < jobHistory'[id].attempts + boots,
               id \in DOMAIN jobGraveyard' =>
                    /\ jobGraveyard'[id].attempts <= MaxAttempts
                    /\ jobGraveyard'[id].attempts <= runs'[id]
                    /\ runs'[id] < jobGraveyard'[id].attempts + boots,
               g \in Busy' =>
                    /\ pc'[g] \in {"running", "completing", "retrying", "burying"} =>
                            record'[g].attempts < runs'[record'[g].id]
                    /\ pc'[g] = "retrying" => record'[g].attempts + 1 < MaxAttempts
                    /\ pc'[g] = "burying" => record'[g].attempts + 1 = MaxAttempts
        PROVE  Accounting'
    <2>1. AttemptAccounting'
      <3>1. \A j \in DOMAIN jobQueue' :
                /\ jobQueue'[j].attempts < MaxAttempts
                /\ jobQueue'[j].attempts <= runs'[j]
                /\ runs'[j] <= jobQueue'[j].attempts + boots
        BY <1>4, <1>5, <1>8, Numbers DEF AttemptAccounting
      <3>2. \A j \in DOMAIN jobHistory' :
                /\ jobHistory'[j].attempts \in 1 .. MaxAttempts
                /\ jobHistory'[j].attempts <= runs'[j]
                /\ runs'[j] < jobHistory'[j].attempts + boots
        BY <1>3, <1>4, <1>5, <1>8, Numbers DEF AttemptAccounting
      <3>3. \A j \in DOMAIN jobGraveyard' :
                /\ jobGraveyard'[j].attempts <= MaxAttempts
                /\ jobGraveyard'[j].attempts <= runs'[j]
                /\ runs'[j] < jobGraveyard'[j].attempts + boots
        BY <1>3, <1>4, <1>5, <1>8, Numbers DEF AttemptAccounting
      <3> QED BY <1>1, <3>1, <3>2, <3>3 DEF AttemptAccounting
    <2>2. UntouchedBound'
      BY <1>1, <1>4, <1>5, <1>6, <1>8, Numbers DEF UntouchedBound
    <2>3. ExecutorBound'
      BY <1>7, <1>8 DEF ExecutorBound
    <2>4. UnknownNotRun'
      BY <1>4, <1>5, <1>8 DEF UnknownNotRun, Known
    <2> QED BY <2>1, <2>2, <2>3, <2>4 DEF Accounting
  <1>9. CASE Dispatch(g)
    <2>1. /\ UNCHANGED database /\ record' = record /\ Busy' = Busy
          /\ Known(id)'
      BY <1>3, <1>9, ExecuteFrame DEF Dispatch, database, Known, Inv, TypeOK, Busy
    <2>2. Untouched(id)
      BY <1>1, <1>3, <1>9 DEF Dispatch, Untouched
    <2>3. runs[id] < jobQueue[id].attempts + boots
      BY <1>3, <1>4, <2>2 DEF UntouchedBound
    <2>4. CASE Runnable(record[g])
      <3>1. runs'[id] = runs[id] + 1 /\ pc'[g] = "running"
        BY <1>1, <1>3, <1>9, <2>4, Numbers DEF Dispatch, TypeOK, Busy
      <3>2. ~Untouched(id)'
        BY <1>1, <1>2, <1>3, <2>1, <3>1 DEF Untouched, database
      <3> QED
        BY <1>3, <1>4, <1>8, <2>1, <2>3, <3>1, <3>2, Numbers
           DEF AttemptAccounting, database
    <2>5. CASE ~Runnable(record[g])
      <3>1. runs'[id] = runs[id] /\ pc'[g] = "rejecting"
        BY <1>1, <1>9, <2>5 DEF Dispatch, TypeOK, Busy
      <3> QED
        BY <1>3, <1>4, <1>8, <2>1, <2>3, <3>1, Numbers DEF AttemptAccounting, database
    <2> QED BY <2>4, <2>5
  <1>10. CASE RunReturns(g)
    <2>1. /\ UNCHANGED <<database, record, runs>> /\ Busy' = Busy /\ Known(id)'
      BY <1>3, <1>10, ExecuteFrame
         DEF RunReturns, RunSucceeds, RunErrs, database, history, Known, Inv, TypeOK, Busy
    <2>2. /\ pc[g] = "running"
          /\ pc'[g] \in {"completing", "retrying", "burying"}
          /\ pc'[g] = "burying" => record[g].attempts + 1 >= MaxAttempts
          /\ pc'[g] = "retrying" => ~(record[g].attempts + 1 >= MaxAttempts)
      BY <1>1, <1>10 DEF RunReturns, RunSucceeds, RunErrs, TypeOK, Busy
    <2>3. record[g].attempts < runs[id] /\ record[g].attempts < MaxAttempts
      BY <1>1, <1>3, <1>4, <2>2 DEF ExecutorBound, AttemptAccounting
    <2>4. ~Untouched(id)'
      BY <1>1, <1>2, <1>3, <2>1, <2>2 DEF Untouched, database
    <2> QED
      BY <1>3, <1>4, <1>8, <2>1, <2>2, <2>3, <2>4, Numbers
         DEF AttemptAccounting, database
  <1>11. Finish(g) => g \notin Busy' /\ UNCHANGED runs
    BY <1>1 DEF Finish, Busy, TypeOK
  <1>12. record[g].attempts < MaxAttempts /\ runs[id] <= record[g].attempts + boots
         /\ record[g].attempts <= runs[id]
    BY <1>3, <1>4 DEF AttemptAccounting
  <1>13. CASE Complete(g)
    <2>1. pc[g] = "completing" /\ Finish(g) /\ jobGraveyard' = jobGraveyard
      BY <1>13 DEF Complete
    <2>2. record[g].attempts < runs[id]
      BY <1>1, <1>3, <1>4, <2>1 DEF ExecutorBound
    <2>3. /\ id \notin DOMAIN jobQueue'
          /\ DOMAIN jobHistory' = DOMAIN jobHistory \cup {id}
          /\ jobHistory'[id].attempts = record[g].attempts + 1
          /\ \A j \in DOMAIN jobHistory \ {id} : jobHistory'[j] = jobHistory[j]
      BY <1>1, <1>3, <1>13, CompleteRows
    <2> QED
      BY <1>3, <1>8, <1>11, <1>12, <2>1, <2>2, <2>3, Numbers DEF Known
  <1>14. CASE Retry(g)
    <2>1. pc[g] = "retrying" /\ Finish(g) /\ UNCHANGED <<jobHistory, jobGraveyard>>
      BY <1>14 DEF Retry
    <2>2. record[g].attempts < runs[id] /\ record[g].attempts + 1 < MaxAttempts
      BY <1>1, <1>3, <1>4, <2>1 DEF ExecutorBound
    <2>3. id \in DOMAIN jobQueue' /\ jobQueue'[id].attempts = record[g].attempts + 1
      BY <1>1, <1>3, <1>14, RetryRow DEF TypeOK
    <2> QED
      BY <1>3, <1>8, <1>11, <1>12, <2>1, <2>2, <2>3, Numbers DEF Known
  <1>15. ASSUME NEW attempts \in Nat, BuryWith(g, attempts), attempts <= MaxAttempts,
                attempts <= runs[id], runs[id] < attempts + boots
         PROVE  Accounting'
    <2>1. Finish(g) /\ jobHistory' = jobHistory
      BY <1>15 DEF BuryWith
    <2>2. /\ id \notin DOMAIN jobQueue'
          /\ DOMAIN jobGraveyard' = DOMAIN jobGraveyard \cup {id}
          /\ jobGraveyard'[id].attempts = attempts
          /\ \A j \in DOMAIN jobGraveyard \ {id} : jobGraveyard'[j] = jobGraveyard[j]
      BY <1>1, <1>3, <1>15, BuryRows
    <2> QED
      BY <1>3, <1>8, <1>11, <1>15, <2>1, <2>2, Numbers DEF Known
  <1>16. CASE Bury(g)
    <2>1. pc[g] = "burying" /\ BuryWith(g, record[g].attempts + 1)
      BY <1>16 DEF Bury
    <2>2. record[g].attempts < runs[id] /\ record[g].attempts + 1 = MaxAttempts
      BY <1>1, <1>3, <1>4, <2>1 DEF ExecutorBound
    <2>3. record[g].attempts + 1 \in Nat
      BY <1>3
    <2>4. record[g].attempts + 1 <= runs[id] /\ runs[id] < record[g].attempts + 1 + boots
      BY <1>3, <1>12, <2>2, Numbers
    <2>5. record[g].attempts + 1 <= MaxAttempts
      BY <1>3, <2>2, Numbers
    <2> QED BY <1>15, <2>1, <2>3, <2>4, <2>5
  <1>17. CASE Reject(g)
    <2>1. pc[g] = "rejecting" /\ BuryWith(g, record[g].attempts)
      BY <1>17 DEF Reject
    <2>2. Untouched(id)
      BY <1>1, <1>3, <2>1 DEF Untouched
    <2>3. runs[id] < record[g].attempts + boots
      BY <1>3, <1>4, <2>2 DEF UntouchedBound
    <2>4. record[g].attempts <= MaxAttempts
      BY <1>3, <1>12, Numbers
    <2> QED BY <1>3, <1>12, <1>15, <2>1, <2>3, <2>4
  <1>18. CASE SettleFails(g)
    <2>1. UNCHANGED database /\ Finish(g) /\ Known(id)'
      BY <1>3, <1>18 DEF SettleFails, database, Known
    <2>2. ~Untouched(id)' 
      BY <1>1, <1>2, <1>3, <1>11, <2>1 DEF Untouched, database
    <2> QED
      BY <1>3, <1>4, <1>8, <1>11, <2>1, <2>2, Numbers DEF AttemptAccounting, database
  <1> QED
    BY <1>9, <1>10, <1>13, <1>14, <1>16, <1>17, <1>18 DEF Execute, Settle

\* Every step keeps the accounting.
LEMMA AccountingNext == Inv /\ [Next]_vars => Accounting'
  <1> SUFFICES ASSUME Inv, [Next]_vars PROVE Accounting'
    OBVIOUS
  <1>1. CASE UNCHANGED vars
    BY <1>1 DEF vars, database, executors, process, poller, history, Inv, Accounting,
                AttemptAccounting, UntouchedBound, ExecutorBound, UnknownNotRun, Untouched,
                Known, Busy
  <1>2. CASE Next
    BY <1>2, QuietSteps, AccountingProcess, AccountingExit, AccountingEnqueue,
       AccountingPoll, AccountingExecute
       DEF Next, Process, Caller
  <1> QED BY <1>1, <1>2

-----------------------------------------------------------------------------
(* The invariant *)

\* The inductive invariant holds at first.
LEMMA InitInv == Init => Inv
  <1> SUFFICES ASSUME Init PROVE Inv
    OBVIOUS
  <1>1. Busy = {} /\ DOMAIN jobQueue = {} /\ DOMAIN jobHistory = {} /\ DOMAIN jobGraveyard = {}
    BY DEF Init, Busy, EmptyTable
  <1>2. ProcessShape /\ ClaimOwnership /\ OneTable
    BY <1>1 DEF Init, ProcessShape, ClaimOwnership, OneTable
  <1>3. Accounting
    BY <1>1 DEF Init, Accounting, AttemptAccounting, UntouchedBound, ExecutorBound,
                UnknownNotRun
  <1> QED BY <1>2, <1>3, InitType DEF Inv

\* Every step keeps the inductive invariant.
LEMMA NextInv == Inv /\ [Next]_vars => Inv'
  BY NextType, ShapeNext, OwnershipNext, OneTableNext, AccountingNext DEF Inv

\* The inductive invariant holds in every reachable state.
LEMMA Invariance == Spec => []Inv
  <1> QED BY InitInv, NextInv, PTL DEF Spec

\* A claimed job is worked on by one goroutine at a time.
THEOREM OwnershipHolds == Spec => []ClaimOwnership
  <1>1. Inv => ClaimOwnership
    BY DEF Inv
  <1> QED BY <1>1, Invariance, PTL

\* A job is in at most one of the three tables.
THEOREM OneTableHolds == Spec => []OneTable
  <1>1. Inv => OneTable
    BY DEF Inv
  <1> QED BY <1>1, Invariance, PTL

\* The recorded attempts account for all runs but one of each process.
THEOREM AttemptsAccounted == Spec => []AttemptAccounting
  <1>1. Inv => AttemptAccounting
    BY DEF Inv, Accounting
  <1> QED BY <1>1, Invariance, PTL

\* After Close no goroutine of the runtime is left.
THEOREM ClosedQuietly == Spec => []ClosedIsQuiet
  <1>1. Inv => ClosedIsQuiet
    BY DEF Inv, ProcessShape, ClosedIsQuiet
  <1> QED BY <1>1, Invariance, PTL

-----------------------------------------------------------------------------
(* The runner implements the lifecycle *)

\* In which table a job is decides its stage and its recorded attempts.
LEMMA StageCases ==
    ASSUME OneTable, NEW j \in JobId
    PROVE  /\ j \in DOMAIN jobQueue =>
                Stage[j] = "open" /\ RecordedAttempts[j] = jobQueue[j].attempts
           /\ j \in DOMAIN jobHistory =>
                Stage[j] = "completed" /\ RecordedAttempts[j] = jobHistory[j].attempts
           /\ j \in DOMAIN jobGraveyard =>
                Stage[j] = "buried" /\ RecordedAttempts[j] = jobGraveyard[j].attempts
           /\ ~Known(j) => Stage[j] = "absent" /\ RecordedAttempts[j] = 0
  BY DEF OneTable, Stage, RecordedAttempts, Attempts, Known

\* The same after a step.
LEMMA StageCasesNext ==
    ASSUME OneTable', NEW j \in JobId
    PROVE  /\ j \in DOMAIN jobQueue' =>
                Stage'[j] = "open" /\ RecordedAttempts'[j] = jobQueue'[j].attempts
           /\ j \in DOMAIN jobHistory' =>
                Stage'[j] = "completed" /\ RecordedAttempts'[j] = jobHistory'[j].attempts
           /\ j \in DOMAIN jobGraveyard' =>
                Stage'[j] = "buried" /\ RecordedAttempts'[j] = jobGraveyard'[j].attempts
           /\ ~Known(j)' => Stage'[j] = "absent" /\ RecordedAttempts'[j] = 0
  BY DEF OneTable, Stage, RecordedAttempts, Attempts, Known

\* Only Enqueue, Complete, Retry, Bury and Reject are visible.
LEMMA InvisibleSteps ==
    ASSUME Inv, [Next]_vars,
           ~ \E j \in JobId, n \in Names, p \in Payload : Enqueue(j, n, p),
           ~ \E g \in Goroutine : Complete(g) \/ Retry(g) \/ Bury(g) \/ Reject(g)
    PROVE  /\ DOMAIN jobQueue' = DOMAIN jobQueue
           /\ \A j \in DOMAIN jobQueue : jobQueue'[j].attempts = jobQueue[j].attempts
           /\ UNCHANGED <<jobHistory, jobGraveyard>>
  <1>1. CASE UNCHANGED database
    BY <1>1 DEF database
  <1>2. CASE ResetOrphaned \/ ClaimPending \/ ClaimLost
    BY <1>2, RestatusRows DEF ResetOrphaned, ClaimPending, ClaimLost, Inv, TypeOK
  <1>3. ASSUME NEW g \in Goroutine,
               Dispatch(g) \/ RunReturns(g) \/ SettleFails(g) \/ SpawnExecutor(g)
        PROVE  UNCHANGED database
    BY <1>3 DEF Dispatch, RunReturns, RunSucceeds, RunErrs, SettleFails, SpawnExecutor
  <1>4. CASE Exit
    BY <1>1, <1>4 DEF Exit
  <1> QED
    BY <1>1, <1>2, <1>3, <1>4, QuietSteps DEF Next, Process, Caller, Poll, Execute, Settle

\* A step that moves no job and changes no attempts is a stutter of the lifecycle.
LEMMA InvisibleMapped ==
    ASSUME DOMAIN jobQueue' = DOMAIN jobQueue,
           \A j \in DOMAIN jobQueue : jobQueue'[j].attempts = jobQueue[j].attempts,
           UNCHANGED <<jobHistory, jobGraveyard>>,
           OneTable, OneTable'
    PROVE  UNCHANGED <<Stage, RecordedAttempts>>
  <1>1. \A j \in JobId : Stage'[j] = Stage[j] /\ RecordedAttempts'[j] = RecordedAttempts[j]
    BY StageCases, StageCasesNext DEF Known
  <1> QED BY <1>1 DEF Stage, RecordedAttempts

\* A step that moves one job as an action of the lifecycle does is that action.
LEMMA VisibleMapped ==
    ASSUME NEW j \in JobId, NEW stage, NEW count,
           Stage'[j] = stage, RecordedAttempts'[j] = count,
           \A k \in JobId \ {j} :
                Stage'[k] = Stage[k] /\ RecordedAttempts'[k] = RecordedAttempts[k]
    PROVE  /\ Stage' = [Stage EXCEPT ![j] = stage]
           /\ RecordedAttempts' = [RecordedAttempts EXCEPT ![j] = count]
  <1>1. /\ Stage = [k \in JobId |-> Stage[k]]
        /\ RecordedAttempts = [k \in JobId |-> RecordedAttempts[k]]
    BY DEF Stage, RecordedAttempts
  <1>2. /\ Stage' = [k \in JobId |-> Stage'[k]]
        /\ RecordedAttempts' = [k \in JobId |-> RecordedAttempts'[k]]
    BY DEF Stage, RecordedAttempts
  <1> QED BY <1>1, <1>2

\* Enqueue is Accept.
LEMMA EnqueueMapped ==
    ASSUME Inv, Inv', NEW j \in JobId, NEW n \in Names, NEW p \in Payload, Enqueue(j, n, p)
    PROVE  JL!Accept(j)
  <1>1. /\ DOMAIN jobQueue' = DOMAIN jobQueue \cup {j}
        /\ jobQueue'[j].attempts = 0
        /\ \A k \in DOMAIN jobQueue : jobQueue'[k] = jobQueue[k]
        /\ ~Known(j)
        /\ UNCHANGED <<jobHistory, jobGraveyard>>
    BY DEF Enqueue, Insert, Known
  <1>2. OneTable /\ OneTable'
    BY DEF Inv
  <1>3. Stage[j] = "absent" /\ RecordedAttempts[j] = 0
    BY <1>1, <1>2, StageCases
  <1>4. Stage'[j] = "open" /\ RecordedAttempts'[j] = 0
    BY <1>1, <1>2, StageCasesNext
  <1>5. \A k \in JobId \ {j} :
            Stage'[k] = Stage[k] /\ RecordedAttempts'[k] = RecordedAttempts[k]
    BY <1>1, <1>2, StageCases, StageCasesNext DEF Known
  <1>6. /\ Stage' = [Stage EXCEPT ![j] = "open"]
        /\ RecordedAttempts' = [RecordedAttempts EXCEPT ![j] = 0]
    BY <1>4, <1>5, VisibleMapped
  <1>7. RecordedAttempts' = RecordedAttempts
    BY <1>3, <1>6 DEF RecordedAttempts
  <1> QED BY <1>3, <1>6, <1>7 DEF JL!Accept

\* Complete, Retry, Bury and Reject are the lifecycle's steps of the same meaning.
LEMMA SettleMapped ==
    ASSUME Inv, Inv', NEW g \in Goroutine, Complete(g) \/ Retry(g) \/ Bury(g) \/ Reject(g)
    PROVE  \/ JL!Complete(record[g].id)
           \/ JL!FailAttempt(record[g].id)
           \/ JL!Exhaust(record[g].id)
           \/ JL!Reject(record[g].id)
  <1>0. PICK id : id = record[g].id
    OBVIOUS
  <1>1. /\ g \in Busy /\ TypeOK /\ OneTable /\ OneTable'
    BY ExecuteFrame DEF Inv, Execute, Settle
  <1>2. /\ id = record[g].id /\ id \in JobId /\ id \in DOMAIN jobQueue
        /\ record[g].attempts \in Nat
        /\ jobQueue[id].attempts = record[g].attempts
        /\ id \notin DOMAIN jobHistory \cup DOMAIN jobGraveyard
    BY <1>0, <1>1, HeldRow
  <1>3. Stage[id] = "open" /\ RecordedAttempts[id] = record[g].attempts
    BY <1>1, <1>2, StageCases
  <1>4. ASSUME \A k \in JobId \ {id} :
                    /\ k \in DOMAIN jobQueue' <=> k \in DOMAIN jobQueue
                    /\ k \in DOMAIN jobHistory' <=> k \in DOMAIN jobHistory
                    /\ k \in DOMAIN jobGraveyard' <=> k \in DOMAIN jobGraveyard
                    /\ k \in DOMAIN jobQueue => jobQueue'[k] = jobQueue[k]
                    /\ k \in DOMAIN jobHistory => jobHistory'[k] = jobHistory[k]
                    /\ k \in DOMAIN jobGraveyard => jobGraveyard'[k] = jobGraveyard[k]
        PROVE  \A k \in JobId \ {id} :
                    Stage'[k] = Stage[k] /\ RecordedAttempts'[k] = RecordedAttempts[k]
    BY <1>1, <1>4, StageCases, StageCasesNext DEF Known
  <1>5. CASE Complete(g)
    <2>1. /\ DOMAIN jobQueue' = DOMAIN jobQueue \ {id}
          /\ \A j \in DOMAIN jobQueue \ {id} : jobQueue'[j] = jobQueue[j]
          /\ DOMAIN jobHistory' = DOMAIN jobHistory \cup {id}
          /\ jobHistory'[id].attempts = record[g].attempts + 1
          /\ \A j \in DOMAIN jobHistory \ {id} : jobHistory'[j] = jobHistory[j]
          /\ jobGraveyard' = jobGraveyard
      BY <1>1, <1>2, <1>5, CompleteRows DEF Complete
    <2>2. Stage'[id] = "completed" /\ RecordedAttempts'[id] = record[g].attempts + 1
      BY <1>1, <1>2, <2>1, StageCasesNext
    <2>3. \A k \in JobId \ {id} :
            Stage'[k] = Stage[k] /\ RecordedAttempts'[k] = RecordedAttempts[k]
      BY <1>4, <2>1
    <2>4. /\ Stage' = [Stage EXCEPT ![id] = "completed"]
          /\ RecordedAttempts' = [RecordedAttempts EXCEPT ![id] = record[g].attempts + 1]
      BY <1>2, <2>2, <2>3, VisibleMapped
    <2> QED BY <1>2, <1>3, <2>4 DEF JL!Complete
  <1>6. CASE Retry(g)
    <2>1. /\ DOMAIN jobQueue' = DOMAIN jobQueue
          /\ jobQueue'[id].attempts = record[g].attempts + 1
          /\ \A j \in DOMAIN jobQueue \ {id} : jobQueue'[j] = jobQueue[j]
          /\ UNCHANGED <<jobHistory, jobGraveyard>>
      <3>1. IsTable(jobQueue, JobId, Row) /\ record[g].attempts + 1 \in Nat
        BY <1>1, <1>2 DEF TypeOK
      <3> QED BY <1>2, <1>6, <3>1, RetryRow DEF Retry
    <2>2. Stage'[id] = "open" /\ RecordedAttempts'[id] = record[g].attempts + 1
      BY <1>1, <1>2, <2>1, StageCasesNext
    <2>3. \A k \in JobId \ {id} :
            Stage'[k] = Stage[k] /\ RecordedAttempts'[k] = RecordedAttempts[k]
      BY <1>4, <2>1
    <2>4. /\ Stage' = [Stage EXCEPT ![id] = "open"]
          /\ RecordedAttempts' = [RecordedAttempts EXCEPT ![id] = record[g].attempts + 1]
      BY <1>2, <2>2, <2>3, VisibleMapped
    <2>5. Stage' = Stage
      BY <1>3, <2>4 DEF Stage
    <2>6. record[g].attempts + 1 < MaxAttempts
      BY <1>1, <1>6 DEF Inv, Accounting, ExecutorBound, Retry
    <2> QED BY <1>2, <1>3, <2>4, <2>5, <2>6 DEF JL!FailAttempt
  <1>7. ASSUME NEW attempts \in Nat, BuryWith(g, attempts)
        PROVE  /\ Stage' = [Stage EXCEPT ![id] = "buried"]
               /\ RecordedAttempts' = [RecordedAttempts EXCEPT ![id] = attempts]
    <2>1. /\ DOMAIN jobQueue' = DOMAIN jobQueue \ {id}
          /\ \A j \in DOMAIN jobQueue \ {id} : jobQueue'[j] = jobQueue[j]
          /\ DOMAIN jobGraveyard' = DOMAIN jobGraveyard \cup {id}
          /\ jobGraveyard'[id].attempts = attempts
          /\ \A j \in DOMAIN jobGraveyard \ {id} : jobGraveyard'[j] = jobGraveyard[j]
          /\ jobHistory' = jobHistory
      BY <1>1, <1>2, <1>7, BuryRows DEF BuryWith
    <2>2. Stage'[id] = "buried" /\ RecordedAttempts'[id] = attempts
      BY <1>1, <1>2, <2>1, StageCasesNext
    <2>3. \A k \in JobId \ {id} :
            Stage'[k] = Stage[k] /\ RecordedAttempts'[k] = RecordedAttempts[k]
      BY <1>4, <2>1
    <2> QED BY <1>2, <2>2, <2>3, VisibleMapped
  <1>8. CASE Bury(g)
    <2>1. BuryWith(g, record[g].attempts + 1) /\ record[g].attempts + 1 = MaxAttempts
      BY <1>1, <1>8 DEF Bury, Inv, Accounting, ExecutorBound
    <2>2. record[g].attempts + 1 \in Nat
      BY <1>2
    <2>3. /\ Stage' = [Stage EXCEPT ![id] = "buried"]
          /\ RecordedAttempts' = [RecordedAttempts EXCEPT ![id] = record[g].attempts + 1]
      BY <1>7, <2>1, <2>2
    <2> QED BY <1>2, <1>3, <2>1, <2>3 DEF JL!Exhaust
  <1>9. CASE Reject(g)
    <2>1. /\ Stage' = [Stage EXCEPT ![id] = "buried"]
          /\ RecordedAttempts' = [RecordedAttempts EXCEPT ![id] = record[g].attempts]
      BY <1>2, <1>7, <1>9 DEF Reject
    <2>2. RecordedAttempts' = RecordedAttempts
      BY <1>3, <2>1 DEF RecordedAttempts
    <2> QED BY <1>2, <1>3, <2>1, <2>2 DEF JL!Reject
  <1> QED BY <1>5, <1>6, <1>8, <1>9

\* Every step of the runner is a step of the lifecycle or leaves it unchanged.
LEMMA StepRefines == Inv /\ Inv' /\ [Next]_vars => [JL!Next]_(JL!vars)
  <1> SUFFICES ASSUME Inv, Inv', [Next]_vars PROVE [JL!Next]_(JL!vars)
    OBVIOUS
  <1>1. CASE \E j \in JobId, n \in Names, p \in Payload : Enqueue(j, n, p)
    BY <1>1, EnqueueMapped DEF JL!Next
  <1>2. ASSUME NEW g \in Goroutine, Complete(g) \/ Retry(g) \/ Bury(g) \/ Reject(g)
        PROVE  JL!Next
    <2>1. g \in Busy
      BY <1>2, ExecuteFrame DEF Inv, Execute, Settle
    <2>2. record[g].id \in JobId
      BY <2>1, HeldRow
    <2> QED BY <1>2, <2>2, SettleMapped DEF JL!Next
  <1>3. CASE /\ ~ \E j \in JobId, n \in Names, p \in Payload : Enqueue(j, n, p)
             /\ ~ \E g \in Goroutine : Complete(g) \/ Retry(g) \/ Bury(g) \/ Reject(g)
    <2>1. OneTable /\ OneTable'
      BY DEF Inv
    <2>2. UNCHANGED <<Stage, RecordedAttempts>>
      BY <1>3, <2>1, InvisibleSteps, InvisibleMapped
    <2> QED BY <2>2 DEF JL!vars
  <1> QED BY <1>1, <1>2, <1>3

\* The job runner, with its claims, crashes, restarts and failing writes,
\* implements the lifecycle of a job.
THEOREM LifecycleImplemented == Spec => ImplementsLifecycle
  <1>1. Init => JL!Init
    <2> SUFFICES ASSUME Init PROVE JL!Init
      OBVIOUS
    <2>1. \A j \in JobId : Stage[j] = "absent" /\ RecordedAttempts[j] = 0
      BY InitInv, StageCases DEF Init, Inv, Known, EmptyTable
    <2> QED BY <2>1 DEF JL!Init, Stage, RecordedAttempts
  <1> QED BY <1>1, Invariance, StepRefines, PTL DEF Spec, ImplementsLifecycle, JL!Spec

\* What is settled stays settled, unchanged, and is not run again.
THEOREM SettledForGood == Spec => SettledIsFinal
  <1>1. Inv /\ Inv' /\ [Next]_vars =>
            [\A j \in JobId : Settled(j) =>
                /\ Settled(j)'
                /\ runs'[j] = runs[j]
                /\ Attempts(j)' = Attempts(j)]_vars
    <2> SUFFICES ASSUME Inv, Inv', Next, NEW j \in JobId, Settled(j)
                 PROVE  Settled(j)' /\ runs'[j] = runs[j] /\ Attempts(j)' = Attempts(j)
      OBVIOUS
    <2>1. OneTable /\ OneTable' /\ runs \in [JobId -> Nat]
      BY DEF Inv, TypeOK
    <2>2. /\ j \in DOMAIN jobHistory =>
                j \in DOMAIN jobHistory' /\ jobHistory'[j] = jobHistory[j]
          /\ j \in DOMAIN jobGraveyard =>
                j \in DOMAIN jobGraveyard' /\ jobGraveyard'[j] = jobGraveyard[j]
      <3>1. CASE \E k \in JobId, n \in Names, p \in Payload : Enqueue(k, n, p)
        BY <3>1 DEF Enqueue
      <3>2. ASSUME NEW g \in Goroutine, Complete(g) \/ Retry(g) \/ Bury(g) \/ Reject(g)
            PROVE  /\ j \in DOMAIN jobHistory =>
                        j \in DOMAIN jobHistory' /\ jobHistory'[j] = jobHistory[j]
                   /\ j \in DOMAIN jobGraveyard =>
                        j \in DOMAIN jobGraveyard' /\ jobGraveyard'[j] = jobGraveyard[j]
        <4>1. g \in Busy
          BY <3>2, ExecuteFrame DEF Inv, Execute, Settle
        <4>2. j # record[g].id
          BY <2>1, <4>1, HeldRow DEF Settled
        <4> QED
          BY <3>2, <4>2 DEF Complete, Retry, Bury, Reject, BuryWith, Insert
      <3>3. CASE /\ ~ \E k \in JobId, n \in Names, p \in Payload : Enqueue(k, n, p)
                 /\ ~ \E g \in Goroutine : Complete(g) \/ Retry(g) \/ Bury(g) \/ Reject(g)
        BY <3>3, InvisibleSteps
      <3> QED BY <3>1, <3>2, <3>3
    <2>3. Settled(j)' /\ Attempts(j)' = Attempts(j)
      BY <2>1, <2>2 DEF Settled, OneTable, Attempts
    <2>4. runs'[j] = runs[j]
      <3>1. CASE UNCHANGED runs
        BY <3>1
      <3>2. ASSUME NEW g \in Goroutine, Dispatch(g)
            PROVE  runs'[j] = runs[j]
        <4>1. g \in Busy
          BY <3>2, ExecuteFrame DEF Inv, Execute
        <4>2. j # record[g].id
          BY <2>1, <4>1, HeldRow DEF Settled
        <4> QED BY <2>1, <3>2, <4>2 DEF Dispatch
      <3>3. UNCHANGED runs \/ \E g \in Goroutine : Dispatch(g)
        BY QuietSteps
           DEF Next, Process, Caller, Poll, Execute, RunReturns, RunSucceeds, RunErrs,
               Settle, Complete, Retry, Bury, Reject, BuryWith, SettleFails, Finish, Exit,
               Enqueue, ResetOrphaned, ClaimPending, ClaimLost, SpawnExecutor, history
      <3> QED BY <3>1, <3>2, <3>3
    <2> QED BY <2>3, <2>4
  <1> QED BY <1>1, Invariance, PTL DEF Spec, SettledIsFinal

-----------------------------------------------------------------------------
(* No row is stranded without a failure *)

\* A row that is running has a goroutine working on it.
Worked(j) ==
    \/ \E g \in Busy : record[g].id = j
    \/ \E r \in claimed : r.id = j

\* Every step of a process without failures keeps somebody on each running row.
LEMMA StrandingNext == Inv /\ NoSilentStranding /\ [Next]_vars => NoSilentStranding'
  <1> SUFFICES ASSUME Inv, NoSilentStranding, [Next]_vars,
                      pollLoop' \in {"select", "spawn"}, ~faulted', ~cancelled',
                      NEW j \in Rows("running")'
               PROVE  Worked(j)'
    BY DEF NoSilentStranding, Worked
  <1>0. TypeOK /\ ProcessShape /\ j \in DOMAIN jobQueue' /\ jobQueue'[j].status = "running"
    BY DEF Inv, Rows
  <1>1. \A k \in Rows("running") :
            pollLoop \in {"select", "spawn"} /\ ~faulted /\ ~cancelled => Worked(k)
    BY DEF NoSilentStranding, Worked
  <1>2. CASE \/ Boot \/ Start \/ Signal \/ CloseBegin \/ CloseEnd \/ ResetFails \/ PollExit
             \/ \E n \in Names : TriggerJob(n) \/ DirectReturns(n) \/ ScheduledJob(n)
             \/ UNCHANGED vars
    <2>1. UNCHANGED <<database, executors, claimed, runs>>
      BY <1>2, QuietSteps
    <2>2. Worked(j) => Worked(j)'
      BY <2>1 DEF Worked, Busy, executors
    <2>3. j \in Rows("running")
      BY <1>0, <2>1 DEF Rows, database
    <2>4. /\ ~Boot /\ ~Start /\ ~Signal /\ ~CloseBegin /\ ~CloseEnd /\ ~ResetFails
          /\ ~PollExit
      BY <1>0 DEF Boot, Start, Signal, CloseBegin, CloseEnd, Drained, ResetFails, PollExit,
                  OperationFails, process, poller, ProcessShape, TypeOK
    <2>5. pollLoop \in {"select", "spawn"} /\ ~faulted /\ ~cancelled
      BY <1>2, <2>4
         DEF TriggerJob, DirectReturns, ScheduledJob, ScheduledReturns, ScheduledTick,
             ScheduledExit, process, poller, history, vars
    <2> QED BY <1>1, <2>2, <2>3, <2>5
  <1>3. ASSUME NEW k \in JobId, NEW n \in Names, NEW p \in Payload, Enqueue(k, n, p)
        PROVE  Worked(j)'
    <2>1. j \in Rows("running")
      BY <1>0, <1>3 DEF Enqueue, Insert, Rows
    <2> QED
      BY <1>1, <1>3, <2>1 DEF Enqueue, Worked, Busy, executors, process, poller, history
  <1>4. CASE ResetOrphaned
    <2>1. IsTable(jobQueue, JobId, Row)
      BY <1>0 DEF TypeOK
    <2> QED BY <1>0, <1>4, <2>1, RestatusRows DEF ResetOrphaned
  <1>5. CASE ClaimPending
    <2>1. j \in DOMAIN jobQueue /\ jobQueue[j].status \in {"pending", "running"}
      BY <1>0, <1>5 DEF ClaimPending, Restatus, TypeOK, IsTable, Row
    <2>2. CASE jobQueue[j].status = "pending"
      <3>1. RecordOf(j) \in claimed' /\ RecordOf(j).id = j
        BY <1>5, <2>1, <2>2 DEF ClaimPending, Rows, RecordOf
      <3> QED BY <3>1 DEF Worked
    <2>3. CASE jobQueue[j].status = "running"
      <3>1. j \in Rows("running") /\ claimed = {}
        BY <1>0, <1>5, <2>1, <2>3 DEF Rows, ClaimPending, ProcessShape
      <3> QED
        BY <1>1, <1>5, <3>1 DEF ClaimPending, Worked, Busy, executors, process, history
    <2> QED BY <2>1, <2>2, <2>3
  <1>6. ~ClaimLost /\ ~Exit
    BY <1>0 DEF ClaimLost, OperationFails, Exit, FreshProcess, process, TypeOK
  <1>7. ASSUME NEW g \in Goroutine, SpawnExecutor(g)
        PROVE  Worked(j)'
    <2>1. Worked(j)
      BY <1>0, <1>1, <1>7 DEF SpawnExecutor, Rows, database, process, history
    <2>2. PICK r \in claimed : /\ record' = [record EXCEPT ![g] = r]
                              /\ claimed' = claimed \ {r}
      BY <1>7 DEF SpawnExecutor
    <2>3. /\ g \in Busy' /\ record'[g] = r
          /\ \A h \in Busy : h \in Busy' /\ record'[h] = record[h]
      BY <1>0, <1>7, <2>2 DEF SpawnExecutor, TypeOK, Busy
    <2> QED BY <2>1, <2>2, <2>3 DEF Worked
  <1>8. ASSUME NEW g \in Goroutine, Execute(g)
        PROVE  Worked(j)'
    <2>1. /\ pollLoop' = pollLoop /\ claimed' = claimed /\ cancelled' = cancelled
          /\ g \in Busy
      BY <1>0, <1>8, ExecuteFrame DEF process, poller
    <2>2. faulted' = faulted /\ ~SettleFails(g)
      BY <1>0, <1>8, <2>1
         DEF Execute, Dispatch, RunReturns, RunSucceeds, RunErrs, Settle, Complete, Retry,
             Bury, Reject, BuryWith, SettleFails, OperationFails, history, TypeOK
    <2>3. CASE Dispatch(g) \/ RunReturns(g)
      <3>1. UNCHANGED <<database, record>> /\ Busy' = Busy
        BY <1>0, <2>3 DEF Dispatch, RunReturns, RunSucceeds, RunErrs, TypeOK, Busy
      <3> QED BY <1>0, <1>1, <2>1, <2>2, <3>1 DEF Worked, Rows, database
    <2>4. CASE Complete(g) \/ Retry(g) \/ Bury(g) \/ Reject(g)
      <3>1. j # record[g].id /\ j \in DOMAIN jobQueue /\ jobQueue[j] = jobQueue'[j]
        <4>1. CASE Retry(g)
          <5>1. IsTable(jobQueue, JobId, Row) /\ record[g].attempts + 1 \in Nat
            BY <1>0, <2>1, HeldRow DEF TypeOK
          <5> QED BY <1>0, <4>1, <5>1, RetryRow
        <4>2. CASE Complete(g) \/ Bury(g) \/ Reject(g)
          BY <1>0, <4>2 DEF Complete, Bury, Reject, BuryWith, Delete
        <4> QED BY <2>4, <4>1, <4>2
      <3>2. /\ Busy' = Busy \ {g}
            /\ \A h \in Busy \ {g} : record'[h] = record[h]
        <4>1. pc' = [pc EXCEPT ![g] = "idle"] /\ record' = [record EXCEPT ![g] = NoRecord]
          BY <2>4 DEF Complete, Retry, Bury, Reject, BuryWith, Finish
        <4>2. /\ pc \in [Goroutine -> Pc]
              /\ record \in [Goroutine -> JobRecord \cup {NoRecord}]
          BY <1>0 DEF TypeOK
        <4> QED BY <4>1, <4>2 DEF Busy
      <3>3. Worked(j)
        BY <1>0, <1>1, <2>1, <2>2, <3>1 DEF Rows
      <3> QED BY <2>1, <3>1, <3>2, <3>3 DEF Worked
    <2> QED BY <1>8, <2>2, <2>3, <2>4 DEF Execute, Settle
  <1> QED
    BY <1>2, <1>3, <1>4, <1>5, <1>6, <1>7, <1>8, QuietSteps
       DEF Next, Process, Caller, Poll

\* Only a failing operation, a cancelled context or the end of the process
\* leaves a row running with nobody working on it.
THEOREM NotStranded == Spec => []NoSilentStranding
  <1>1. Init => NoSilentStranding
    BY DEF Init, NoSilentStranding, Rows
  <1> QED BY <1>1, StrandingNext, Invariance, PTL DEF Spec
=============================================================================
