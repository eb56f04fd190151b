--------------------------- MODULE MCRestoreAudit ---------------------------
(***************************************************************************)
(* One task and two annotators: an author and somebody who claims the task *)
(* after the author's result was revoked.                                  *)
(***************************************************************************)
EXTENDS RestoreAudit, TLC

CONSTANTS t1, ann, bob

MCTask == {t1}
MCUser == {ann, bob}
Symmetry == Permutations(MCUser)

=============================================================================
