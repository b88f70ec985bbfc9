---------------------------- MODULE MCMigrations ----------------------------
(* Releases of a small history: two that follow each other, a branch, an     *)
(* edited file and malformed directories.                                    *)
EXTENDS Migrations, TLC

CONSTANTS p1, p2, a, b

File(s, v) == [kind |-> "file", sequence |-> s, version |-> v]

MCReleases == {
    {},
    {File(1, a)},
    {File(1, a), File(2, a), [kind |-> "dotfile", sequence |-> 0, version |-> a]},
    {File(1, a), File(2, b)},
    {File(1, a), File(2, a), File(3, a)},
    {File(1, b)},
    {File(2, a)},
    {File(1, a), File(1, b)},
    {File(1, a), [kind |-> "directory", sequence |-> 0, version |-> a]},
    {File(1, a), File(0, a)}
}

Symmetry == Permutations({p1, p2})
=============================================================================
