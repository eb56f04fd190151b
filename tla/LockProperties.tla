--------------------------- MODULE LockProperties ---------------------------
(* What the order of the locks is for: requests of annotators,              *)
(* administrators and the preprocessing meet on the same rows and none of    *)
(* them is lost to a deadlock, nor decides on what another changes.         *)
EXTENDS LockOrder, TLC

(* Transactions differ only in the request they happen to serve.            *)
Interchangeable == Permutations(Transactions)

(* No set of requests wait for each other: "Raw DeadlockDetected/500 is      *)
(* never an acceptable business result".                                    *)
NoCircularWait == \A circle \in SUBSET Transactions : ~Circle(circle)

(* The statements that ask for a row after rows that others take later than  *)
(* it: the event of an abandonment refers to the task whose round and draft  *)
(* the abandonment holds; a deactivation comes to the annotator's results,   *)
(* and to the second annotators of them, after a task it released; a         *)
(* revocation refers to a second annotator who claimed after it looked.      *)
AsksLate(c) ==
    LET kind == Head(todo[c]).row[1]
    IN  \/ doing[c].does = "abandon"    /\ kind = "task"
        \/ doing[c].does = "deactivate" /\ kind \in {"task", "annotator"}
        \/ doing[c].does = "revoke"     /\ kind = "annotator"

(* Whatever requests meet, a circle of waiting goes through one of these     *)
(* three statements; all other requests keep the order of the locks.        *)
CirclesAreKnown ==
    \A circle \in SUBSET Transactions :
        Circle(circle) => \E c \in circle : AsksLate(c)

(* The locks are enough for what is decided under them: nobody works on a    *)
(* task beside another, a cross-check in progress has its annotator and an   *)
(* annotator at a cross-check has the round.                                *)
WorkMatchesRounds == Consistent

(* The locks make the transactions as good as atomic, which AnnotationStore  *)
(* takes for granted: they exclude what must not overlap, and what waits is  *)
(* let go, but for the three statements above.                              *)
LocksSuffice == CirclesAreKnown /\ WorkMatchesRounds

(* Every request is answered: no order of the others keeps it waiting for    *)
(* ever.                                                                    *)
RequestsEnd == \A c \in Transactions : ~Unused(c) ~> Unused(c)
=============================================================================
