------------------------------- MODULE Tables -------------------------------
(***************************************************************************)
(* SQL tables as the code uses them: a function whose domain is the set of *)
(* primary keys present and whose values are the rows.                     *)
(***************************************************************************)

\* A table whose keys are in Key and whose rows are in Row.
IsTable(table, Key, Row) ==
    /\ DOMAIN table \subseteq Key
    /\ table \in [DOMAIN table -> Row]

EmptyTable == [key \in {} |-> {}]

\* INSERT of a row under a key (callers guard against an existing key).
Insert(table, key, row) ==
    [k \in DOMAIN table \cup {key} |-> IF k = key THEN row ELSE table[k]]

\* DELETE ... WHERE id = key; a missing key deletes nothing.
Delete(table, key) ==
    [k \in DOMAIN table \ {key} |-> table[k]]
=============================================================================
