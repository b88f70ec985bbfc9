---------------------------- MODULE OverlapProofs ----------------------------
(***************************************************************************)
(* A theorem about two processes over one worker database, for any jobs,   *)
(* names, goroutines and attempts, and for processes that no longer own    *)
(* what they work on.                                                      *)
(***************************************************************************)
EXTENDS WorkerOverlap, TLAPS

-----------------------------------------------------------------------------
(* A transaction that takes a job out of the queue has put it elsewhere. *)

\* The old process.
LEMMA KeptByA ==
    ASSUME NEW j, A!Next, A!Known(j)
    PROVE  A!Known(j)'
  <1>1. CASE A!Process \/ \E n \in Names : A!ScheduledJob(n)
    BY <1>1 DEF A!Process, A!Boot, A!Start, A!Signal, A!CloseBegin, A!CloseEnd, A!Exit,
       A!ScheduledJob, A!ScheduledReturns, A!ScheduledTick, A!ScheduledExit, A!database,
       A!Known
  <1>2. CASE A!Caller
    BY <1>2 DEF A!Caller, A!Enqueue, A!TriggerJob, A!DirectReturns, A!Insert, A!database,
       A!Known
  <1>3. CASE A!Poll
    BY <1>3 DEF A!Poll, A!ResetOrphaned, A!ResetFails, A!ClaimPending, A!ClaimLost,
       A!SpawnExecutor, A!PollExit, A!Restatus, A!database, A!Known
  <1>4. ASSUME NEW g \in Goroutine, A!Execute(g) PROVE A!Known(j)'
    <2>1. CASE A!Dispatch(g) \/ A!RunReturns(g) \/ A!SettleFails(g)
      BY <2>1 DEF A!Dispatch, A!RunReturns, A!RunSucceeds, A!RunErrs, A!SettleFails,
         A!database, A!Known
    <2>2. CASE A!Complete(g)
      BY <2>2 DEF A!Complete, A!Insert, A!Delete, A!Known
    <2>3. CASE A!Retry(g)
      BY <2>3 DEF A!Retry, A!Known
    <2>4. CASE A!Bury(g) \/ A!Reject(g)
      BY <2>4 DEF A!Bury, A!Reject, A!BuryWith, A!Insert, A!Delete, A!Known
    <2> QED BY <1>4, <2>1, <2>2, <2>3, <2>4 DEF A!Execute, A!Settle
  <1> QED BY <1>1, <1>2, <1>3, <1>4 DEF A!Next

\* The new process.
LEMMA KeptByB ==
    ASSUME NEW j, B!Next, B!Known(j)
    PROVE  B!Known(j)'
  <1>1. CASE B!Process \/ \E n \in Names : B!ScheduledJob(n)
    BY <1>1 DEF B!Process, B!Boot, B!Start, B!Signal, B!CloseBegin, B!CloseEnd, B!Exit,
       B!ScheduledJob, B!ScheduledReturns, B!ScheduledTick, B!ScheduledExit, B!database,
       B!Known
  <1>2. CASE B!Caller
    BY <1>2 DEF B!Caller, B!Enqueue, B!TriggerJob, B!DirectReturns, B!Insert, B!database,
       B!Known
  <1>3. CASE B!Poll
    BY <1>3 DEF B!Poll, B!ResetOrphaned, B!ResetFails, B!ClaimPending, B!ClaimLost,
       B!SpawnExecutor, B!PollExit, B!Restatus, B!database, B!Known
  <1>4. ASSUME NEW g \in Goroutine, B!Execute(g) PROVE B!Known(j)'
    <2>1. CASE B!Dispatch(g) \/ B!RunReturns(g) \/ B!SettleFails(g)
      BY <2>1 DEF B!Dispatch, B!RunReturns, B!RunSucceeds, B!RunErrs, B!SettleFails,
         B!database, B!Known
    <2>2. CASE B!Complete(g)
      BY <2>2 DEF B!Complete, B!Insert, B!Delete, B!Known
    <2>3. CASE B!Retry(g)
      BY <2>3 DEF B!Retry, B!Known
    <2>4. CASE B!Bury(g) \/ B!Reject(g)
      BY <2>4 DEF B!Bury, B!Reject, B!BuryWith, B!Insert, B!Delete, B!Known
    <2> QED BY <1>4, <2>1, <2>2, <2>3, <2>4 DEF B!Execute, B!Settle
  <1> QED BY <1>1, <1>2, <1>3, <1>4 DEF B!Next

-----------------------------------------------------------------------------
(* Both processes *)

\* A job that one of the processes accepted is never lost, although a goroutine of
\* the other may settle a row that was reset under it (insert_history.sql or
\* insert_graveyard.sql with delete_queue_job.sql in one transaction).
THEOREM AcceptedForGood == Spec => AcceptedIsKept
  <1>1. [Next]_vars => [\A j \in JobId : A!Known(j) => A!Known(j)']_vars
    <2> SUFFICES ASSUME Next, NEW j \in JobId, A!Known(j) PROVE A!Known(j)'
      OBVIOUS
    <2>1. B!Known(j) /\ (B!Known(j)' => A!Known(j)')
      BY DEF A!Known, B!Known
    <2> QED BY <2>1, KeptByA, KeptByB DEF Next, StepA, StepB
  <1> QED BY <1>1, PTL DEF Spec, AcceptedIsKept
=============================================================================
