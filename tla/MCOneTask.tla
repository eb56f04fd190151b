------------------------------ MODULE MCOneTask ------------------------------
(***************************************************************************)
(* One task and three interchangeable annotators: enough for an author, a  *)
(* second transcriber and somebody who takes the task over.                *)
(***************************************************************************)
EXTENDS StoreProperties, TLC

CONSTANTS t1, ann, bob, eve

MCTask == {t1}
MCUser == {ann, bob, eve}
Symmetry == Permutations(MCUser)

=============================================================================
