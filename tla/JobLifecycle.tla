---------------------------- MODULE JobLifecycle ----------------------------
(***************************************************************************)
(* What the durable job queue of core/worker promises about one job, seen  *)
(* from outside: a job is accepted once, stays open while its attempts     *)
(* fail, and is settled exactly once, as completed or as buried.  Claiming, *)
(* goroutines, restarts and the two statuses of an open row are invisible. *)
(***************************************************************************)
EXTENDS Naturals

CONSTANTS JobId,        \* identifiers of jobs (fresh UUIDs in the code)
          MaxAttempts   \* configured number of attempts of a job

VARIABLES stage,        \* "absent", "open", "completed" or "buried"
          attempts      \* recorded attempts of a job

vars == <<stage, attempts>>

Stage == {"absent", "open", "completed", "buried"}

Init ==
    /\ stage = [j \in JobId |-> "absent"]
    /\ attempts = [j \in JobId |-> 0]

Accept(j) ==
    /\ stage[j] = "absent"
    /\ stage' = [stage EXCEPT ![j] = "open"]
    /\ UNCHANGED attempts

\* An attempt succeeded.
Complete(j) ==
    /\ stage[j] = "open"
    /\ stage' = [stage EXCEPT ![j] = "completed"]
    /\ attempts' = [attempts EXCEPT ![j] = @ + 1]

\* An attempt failed and another one is left.
FailAttempt(j) ==
    /\ stage[j] = "open"
    /\ attempts[j] + 1 < MaxAttempts
    /\ attempts' = [attempts EXCEPT ![j] = @ + 1]
    /\ UNCHANGED stage

\* The last attempt failed.
Exhaust(j) ==
    /\ stage[j] = "open"
    /\ attempts[j] + 1 = MaxAttempts
    /\ stage' = [stage EXCEPT ![j] = "buried"]
    /\ attempts' = [attempts EXCEPT ![j] = @ + 1]

\* The job cannot be run at all: no attempt is counted.
Reject(j) ==
    /\ stage[j] = "open"
    /\ stage' = [stage EXCEPT ![j] = "buried"]
    /\ UNCHANGED attempts

Next ==
    \E j \in JobId :
        Accept(j) \/ Complete(j) \/ FailAttempt(j) \/ Exhaust(j) \/ Reject(j)

Spec == Init /\ [][Next]_vars
=============================================================================
