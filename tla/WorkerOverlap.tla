---------------------------- MODULE WorkerOverlap ----------------------------
(***************************************************************************)
(* Two processes over one worker database, as when a new process is started *)
(* while the old one still drains.  App.Start starts the worker before it   *)
(* binds the port, so nothing keeps the second process from resetting and   *)
(* claiming rows; module WorkerRuntime models each process.                 *)
(***************************************************************************)
EXTENDS Naturals

CONSTANTS JobId, Names, Scheduled, Goroutine, NoRecord, MaxAttempts, MaxBoots

VARIABLES
    jobQueue, jobHistory, jobGraveyard, runs,    \* shared
    phaseA, registeredA, cancelledA, pollLoopA, claimedA, pcA,
    recordA, scheduledA, directA, bootsA, faultedA,         \* the old process
    phaseB, registeredB, cancelledB, pollLoopB, claimedB, pcB,
    recordB, scheduledB, directB, bootsB, faultedB          \* the new process

processA == <<phaseA, registeredA, cancelledA, pollLoopA, claimedA, pcA,
               recordA, scheduledA, directA, bootsA, faultedA>>
processB == <<phaseB, registeredB, cancelledB, pollLoopB, claimedB, pcB,
               recordB, scheduledB, directB, bootsB, faultedB>>
vars == <<jobQueue, jobHistory, jobGraveyard, runs, processA, processB>>

A == INSTANCE WorkerProperties
        WITH phase <- phaseA, registered <- registeredA, cancelled <- cancelledA,
             pollLoop <- pollLoopA, claimed <- claimedA, pc <- pcA,
             record <- recordA, scheduled <- scheduledA, direct <- directA,
             boots <- bootsA, faulted <- faultedA

B == INSTANCE WorkerProperties
        WITH phase <- phaseB, registered <- registeredB, cancelled <- cancelledB,
             pollLoop <- pollLoopB, claimed <- claimedB, pc <- pcB,
             record <- recordB, scheduled <- scheduledB, direct <- directB,
             boots <- bootsB, faulted <- faultedB

Init == A!Init /\ B!Init

StepA == A!Next /\ UNCHANGED processB
StepB == B!Next /\ UNCHANGED processA

Next == StepA \/ StepB

Spec == Init /\ [][Next]_vars

-----------------------------------------------------------------------------
\* CONTRACT.md:70, "orphaned running jobs are reset during startup": a row the
\* reset of the new process takes back has no goroutine of the old one.
ResetOnlyOrphans ==
    [][StepB /\ pollLoopB = "reset" =>
        \A g \in A!Busy : jobQueue[recordA[g].id]' = jobQueue[recordA[g].id]]_vars

\* A job one of the processes accepted is never lost, whichever of them settle
\* it, and in whatever order: each settling transaction inserts the job into a
\* final table before it deletes it from the queue.
AcceptedIsKept == [][\A j \in JobId : A!Known(j) => A!Known(j)']_vars
=============================================================================
