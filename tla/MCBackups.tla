----------------------------- MODULE MCBackups -----------------------------
(* A small instance of the backup jobs. *)
EXTENDS Backups

BothDatabases == <<"app", "worker">>
DailyOnly == <<"daily">>
DailyPeriod == [s \in {"daily"} |-> 1]
=============================================================================
