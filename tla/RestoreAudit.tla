---------------------------- MODULE RestoreAudit ----------------------------
(***************************************************************************)
(* The annotation store with an observer that remembers, for every task,   *)
(* how many admin actions had been recorded when it was last claimed.      *)
(***************************************************************************)
EXTENDS StoreProperties

VARIABLE claimedAt

auditVars == <<vars, claimedAt>>

AuditInit == Init /\ claimedAt = [t \in Task |-> None]

IsClaim(t) == /\ ~ Assigned(task[t]) /\ Assigned(task'[t])
              /\ task'[t].assignment.mode = "annotation"

AuditNext ==
    /\ Next
    /\ claimedAt' = [t \in Task |-> IF IsClaim(t) THEN actions ELSE claimedAt[t]]

AuditSpec == AuditInit /\ [][AuditNext]_auditVars

\* Restoring presupposes that the task was not claimed since it was revoked.
RestoredUnclaimed ==
    [][\A t \in Task, n \in VersionNo :
         /\ task[t].version[n].lifecycle = "revoked"
         /\ task'[t].version[n].lifecycle = "published"
         => claimedAt[t] < task[t].version[n].revokedBy]_auditVars

=============================================================================
