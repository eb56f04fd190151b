------------------------------ MODULE MCTwoTasks ------------------------------
(***************************************************************************)
(* Two tasks and two annotators: batches of an administrator, offboarding  *)
(* across tasks, and who may hold what.                                    *)
(***************************************************************************)
EXTENDS StoreProperties, TLC

CONSTANTS t1, t2, ann, bob

MCTask == {t1, t2}
MCUser == {ann, bob}
Symmetry == Permutations(MCUser)

=============================================================================
