---------------------------- MODULE MCBackupStore ----------------------------
(* Instances of BackupStore for TLC. *)
EXTENDS BackupStore, TLC

CONSTANTS r1, r2, r3

\* Retention as the shipped backup.yml has it, scaled down: the databases by
\* number, the files by age too, the instance without a bound.
MCKeep == [postgres |-> 2, clickhouse |-> 1, instance |-> 0, files |-> 1]
MCDays == [postgres |-> 0, clickhouse |-> 0, instance |-> 0, files |-> 1]
Asked(drill, force, keep) ==
    [want |-> {}, drill |-> drill, force |-> force, keep |-> keep]
MCRequests == {Asked(FALSE, FALSE, FALSE), Asked(FALSE, TRUE, FALSE),
               Asked(TRUE, FALSE, TRUE), [Asked(FALSE, TRUE, FALSE) EXCEPT !.want = {"postgres"}]}
MCSymmetry == Permutations(Runs)
=============================================================================
