-------------------------- MODULE ProcessingProperties --------------------------
(***************************************************************************)
(* What the processing lease and the parking of rejected audio promise.    *)
(***************************************************************************)
EXTENDS ProcessingLease

\* A result enters the row only from the process that was given the task last,
\* though others that once held it may still be computing (docstring of
\* processing.py: an expired holder cannot finalise after a successor).
StoredByTheLast ==
    <<row'.text, row'.rejected, row'.eligible>> # <<row.text, row.rejected, row.eligible>>
        => \E w \in Worker : worker'[w] # worker[w] /\ worker[w].token = row.version

\* A lease that has not run out is ended by its holder alone.
EndedByTheHolder ==
    row.token # 0 /\ row'.token # row.token /\ row.until > now
        => \E w \in Worker : worker'[w] # worker[w] /\ worker[w].token = row.token

\* The lease excludes: what is stored and what ends early is the holder's doing,
\* whatever time it was when the transactions that wait for the row began.
LeaseExcludes == [][StoredByTheLast /\ EndedByTheHolder]_vars

\* What was transcribed once is not transcribed again: the checkpoint grows
\* from run to run and from process to process, unless it could not be read
\* because somebody had the task at that moment.
CheckpointGrows ==
    [][row.text \subseteq row'.text
        \/ \E w \in Worker : worker[w].blind /\ worker'[w] # worker[w]]_vars

\* Audio is deleted only under a rejection that is recorded, and stays so: the
\* task is out of the pool and nobody works on it.
DeletedIsRejected ==
    audio = "gone" => row.rejected /\ ~ row.eligible /\ row.stage = "free"

\* The file is found parked only while its rejection is being committed, after
\* it was, or when the process died in between.
ParkedForAReason ==
    audio = "parked" => row.rejected \/ Locked \/ faults.crashes > 0

\* The file on disk follows the row, though no transaction spans the two.
AudioFollowsRow == DeletedIsRejected /\ ParkedForAReason
=============================================================================
