-------------------------- MODULE AnnotationStore --------------------------
(***************************************************************************)
(* The annotation store: every task, the annotators and administrators who *)
(* work on them, and the two things a server keeps outside a task: which   *)
(* annotators are active and what each admin action recorded.              *)
(*                                                                         *)
(* A transaction is one action: it locks annotator, assignment, task and   *)
(* version rows in that order and rolls back as a whole.  Submitting a     *)
(* cross-check is not one transaction: the server reads both versions,     *)
(* compares them holding no lock, and stores the verdict in a second       *)
(* transaction; what it read is kept in submission.                        *)
(*                                                                         *)
(* Left to other modules: sessions and their fences, lease tokens, the     *)
(* operation log that replays retried requests, and the choice among       *)
(* claimable tasks (scope, filters, order, SKIP LOCKED), which is any      *)
(* claimable task here.  A refused request changes nothing and is no step. *)
(***************************************************************************)
EXTENDS TaskTransactions

CONSTANTS
    Task,       \* annotation_tasks
    MaxSaves,   \* bound on the revision up to which a draft is saved
    MaxCuts,    \* bound on how often preprocessing replaces a segmentation
    Backfilled  \* were imported authors in the database when the migration
                \* filled task_annotation_participants?

ASSUME StoreAssumption ==
    /\ Task # {} /\ IsFiniteSet(Task)
    /\ MaxSaves \in Nat
    /\ MaxCuts \in Nat
    /\ Backfilled \in BOOLEAN

VARIABLES
    task,       \* the rows of each task
    annotator,  \* annotators.status
    crossCheck, \* cross_check_settings.enabled
    submission, \* per annotator, what a running submit_cross_check has read
    actions,    \* number of revoke and deactivate actions so far
    action      \* admin_actions of those types with their items

vars == <<task, annotator, crossCheck, submission, actions, action>>

\* Items map a task to the version withdrawn and to the clean draft made.
ActionRow == [type      : {"none", "revoke_annotations", "deactivate_annotator"},
              annotator : User \cup {NoUser},
              before    : [Task -> {None} \cup VersionNo],
              after     : [Task -> {None} \cup VersionNo]]

NoItems == [t \in Task |-> None]

NoActionRow == [type |-> "none", annotator |-> NoUser,
                before |-> NoItems, after |-> NoItems]

SubmissionRow == [open           : BOOLEAN,
                  task           : Task,
                  version        : {None} \cup VersionNo,
                  round          : {None} \cup RoundNo,
                  original       : {None} \cup VersionNo,
                  originalInput  : Nat,
                  secondaryInput : Nat,
                  outcome        : Outcome,
                  needsReview    : BOOLEAN]

NoSubmission == [open |-> FALSE, task |-> CHOOSE t \in Task : TRUE,
                 version |-> None, round |-> None, original |-> None,
                 originalInput |-> 0, secondaryInput |-> 0,
                 outcome |-> "annotated", needsReview |-> FALSE]

-----------------------------------------------------------------------------
(* Initial states: tasks preprocessed or imported, nobody at work          *)

HeldBy(u) == {t \in Task : task[t].assignment.user = u}

KnownAuthors(owner, editor) ==
    IF Backfilled THEN {owner, editor} \cap User ELSE {}

StartingTasks ==
    {PreprocessedTask}
      \cup {ImportedDraft(last, KnownAuthors(NoUser, last.editor)) : last \in LastEdit}
      \cup {ImportedAssigned(holder, last, KnownAuthors(holder, last.editor)) :
               holder \in User, last \in LastEdit}
      \cup {ImportedResult(owner, last, outcome,
                           KnownAuthors(owner, last.editor)) :
               owner \in User \cup {NoUser}, last \in TouchedEdit,
               outcome \in Outcome}

Init ==
    /\ task \in [Task -> StartingTasks]
    /\ \A u \in User : Cardinality(HeldBy(u)) <= 1
    /\ annotator = [u \in User |-> "active"]
    /\ crossCheck \in BOOLEAN
    /\ submission = [u \in User |-> NoSubmission]
    /\ actions = 0
    /\ action = [a \in ActionNo |-> NoActionRow]

-----------------------------------------------------------------------------
(* Helpers                                                                 *)

\* _lock_active_annotator
Active(u) == annotator[u] = "active"

SetTask(t, ts) == task' = [task EXCEPT ![t] = ts]

SetTasks(S, Row(_)) == task' = [t \in Task |-> IF t \in S THEN Row(t) ELSE task[t]]

\* Store a numbered admin action with its items.
Record(type, u, before, after) ==
    /\ actions' = actions + 1
    /\ action' = [action EXCEPT ![actions + 1] =
                    [type |-> type, annotator |-> u,
                     before |-> before, after |-> after]]

UnchangedButTask == UNCHANGED <<annotator, crossCheck, submission, actions, action>>

-----------------------------------------------------------------------------
(* Annotators                                                              *)

ForgotOtherTask(u) == TRUE

\* u holds no assignment, of any mode.
HoldsNothing(u) == HeldBy(u) = {}

\* A pending draft; somebody who holds a task gets that one back instead.
Claim(u, t, d, began) ==
    /\ Active(u)
    /\ HoldsNothing(u)
    /\ CanClaim(task[t], u, d)
    /\ began <= actions
    /\ SetTask(t, Claimed(task[t], u, d, began))
    /\ UnchangedButTask

\* The settings as the claim reads them: switched on, at a rate above zero.
CrossCheckAllowed == crossCheck

ClaimCrossCheck(u, t) ==
    /\ Active(u)
    /\ HoldsNothing(u)
    /\ CrossCheckAllowed
    /\ CanCrossCheck(task[t], u)
    /\ SetTask(t, CrossCheckStarted(task[t], u))
    /\ UnchangedButTask

SaveDraft(u, t) ==
    /\ Active(u)
    /\ CanSave(task[t], u)
    /\ task[t].version[task[t].assignment.version].revision < MaxSaves
    /\ SetTask(t, Saved(task[t], u))
    /\ UnchangedButTask

Complete(u, t, outcome) ==
    /\ Active(u)
    /\ CanComplete(task[t], u)
    /\ SetTask(t, Completed(task[t], u, outcome))
    /\ UnchangedButTask

Abandon(u, t) ==
    /\ Active(u)
    /\ CanAbandon(task[t], u)
    /\ SetTask(t, AbandonedBy(task[t]))
    /\ UnchangedButTask

\* Whatever he holds already refuses the reopening.
Reopen(u, t) ==
    /\ Active(u)
    /\ HoldsNothing(u)
    /\ CanReopen(task[t], u)
    /\ SetTask(t, Reopened(task[t], u))
    /\ UnchangedButTask

\* What the comparison may find.  A skip of an annotated original always needs
\* review; so does a comparison that cannot be computed.
Findings(outcome) == IF outcome = "skipped" THEN {TRUE} ELSE BOOLEAN

\* Read both versions in one transaction, then compare them without a lock.
BeginSubmit(u, t, outcome, needsReview) ==
    /\ Active(u)
    /\ ~ submission[u].open
    /\ CanSnapshot(task[t], u)
    /\ needsReview \in Findings(outcome)
    /\ LET read == SubmitSnapshot(task[t]) IN
       submission' = [submission EXCEPT ![u] =
         [open |-> TRUE, task |-> t, version |-> read.version,
          round |-> read.round, original |-> read.original,
          originalInput |-> read.originalInput,
          secondaryInput |-> read.secondaryInput,
          outcome |-> outcome, needsReview |-> needsReview]]
    /\ UNCHANGED <<task, annotator, crossCheck, actions, action>>

CommitSubmit(u) ==
    LET s == submission[u] IN
    /\ Active(u)
    /\ s.open
    /\ CanFreeze(task[s.task], u, s)
    /\ SetTask(s.task, Frozen(task[s.task], u, s, s.outcome, s.needsReview))
    /\ submission' = [submission EXCEPT ![u] = NoSubmission]
    /\ UNCHANGED <<annotator, crossCheck, actions, action>>

\* The second transaction is refused, or the server dies before it.
FailSubmit(u) ==
    /\ submission[u].open
    /\ submission' = [submission EXCEPT ![u] = NoSubmission]
    /\ UNCHANGED <<task, annotator, crossCheck, actions, action>>

-----------------------------------------------------------------------------
(* Preprocessing and the command line                                      *)

Refresh(t) ==
    /\ CanRefresh(task[t])
    /\ task[t].version[task[t].baseline].cut < MaxCuts
    /\ SetTask(t, Refreshed(task[t]))
    /\ UnchangedButTask

\* manage_state release: as abandoning, whoever the holder is.
ReleaseByCli(u, t) ==
    /\ CanAbandon(task[t], u)
    /\ SetTask(t, AbandonedBy(task[t]))
    /\ UnchangedButTask

-----------------------------------------------------------------------------
(* Administrators                                                          *)

UpdateSettings ==
    /\ crossCheck' = ~ crossCheck
    /\ UNCHANGED <<task, annotator, submission, actions, action>>

\* A batch is revoked as a whole or not at all.
Revoke(S, author, block, releaseConflicts) ==
    LET a == actions + 1
        row(t) == Revoked(task[t], author, a, block)
    IN  /\ actions < MaxActions
        /\ S # {}
        /\ \A t \in S : CanRevoke(task[t], author, releaseConflicts)
        /\ SetTasks(S, row)
        /\ Record("revoke_annotations", author,
                  [t \in Task |-> IF t \in S THEN task[t].current ELSE None],
                  [t \in Task |-> IF t \in S THEN row(t).versions ELSE None])
        /\ UNCHANGED <<annotator, crossCheck, submission>>

ForgotOffboarded(author) == TRUE

\* Nobody to check for an administrator's edit.
AuthorStillActive(author) == author # NoUser => Active(author)

\* Restored(...) of the tasks S that revoke action a withdrew.
Restore(S, a) ==
    LET r == action[a]
        row(t) == Restored(task[t], a, r.annotator, r.before[t], r.after[t])
    IN  /\ S # {}
        /\ a <= actions
        /\ r.type = "revoke_annotations"
        /\ \A t \in S : r.before[t] # None
        /\ AuthorStillActive(r.annotator)
        /\ \A t \in S :
             CanRestore(task[t], a, r.annotator, r.before[t], r.after[t])
        /\ SetTasks(S, row)
        /\ UnchangedButTask

ReleaseAssignment(t) ==
    /\ CanRelease(task[t])
    /\ SetTask(t, Released(task[t]))
    /\ UnchangedButTask

\* Offboarding touches every task the annotator holds, has reserved or has
\* published, in one transaction.
Deactivate(u) ==
    LET a == actions + 1
        row(t) == Offboarded(task[t], u, a)
        withdrawn == {t \in Task : PublishedBy(LetGo(task[t], u), u)}
    IN  /\ actions < MaxActions
        /\ Active(u)
        /\ \A t \in Task : CanOffboard(task[t], u)
        /\ SetTasks(Task, row)
        /\ annotator' = [annotator EXCEPT ![u] = "deactivated"]
        /\ Record("deactivate_annotator", u,
                  [t \in Task |-> IF t \in withdrawn THEN task[t].current ELSE None],
                  [t \in Task |-> IF t \in withdrawn THEN row(t).versions ELSE None])
        /\ UNCHANGED <<crossCheck, submission>>

Decide(t, k, decision, base, outcome) ==
    /\ CanDecide(task[t], k)
    /\ CanReplace(task[t], k, decision)
    /\ decision = "edited" =>
         /\ RoomForVersion(task[t])
         /\ base \in {task[t].round[k].original, task[t].round[k].secondary}
    /\ SetTask(t, Decided(task[t], k, decision, base, outcome))
    /\ UnchangedButTask

Cancel(t, k) ==
    /\ CanCancel(task[t], k)
    /\ SetTask(t, Cancelled(task[t], k))
    /\ UnchangedButTask

-----------------------------------------------------------------------------
AnnotatorStep(u) ==
    \/ \E t \in Task, d \in VersionNo, began \in 0 .. MaxActions :
         Claim(u, t, d, began)
    \/ \E t \in Task : ClaimCrossCheck(u, t)
    \/ \E t \in Task : SaveDraft(u, t)
    \/ \E t \in Task, outcome \in Outcome : Complete(u, t, outcome)
    \/ \E t \in Task : Abandon(u, t)
    \/ \E t \in Task : Reopen(u, t)
    \/ \E t \in Task, outcome \in Outcome, needsReview \in BOOLEAN :
         BeginSubmit(u, t, outcome, needsReview)
    \/ CommitSubmit(u)
    \/ FailSubmit(u)

OperatorStep ==
    \/ \E t \in Task : Refresh(t)
    \/ \E u \in User, t \in Task : ReleaseByCli(u, t)

AdminStep ==
    \/ UpdateSettings
    \/ \E S \in SUBSET Task, author \in User \cup {NoUser},
          block \in BOOLEAN, releaseConflicts \in BOOLEAN :
         Revoke(S, author, block, releaseConflicts)
    \/ \E S \in SUBSET Task, a \in ActionNo : Restore(S, a)
    \/ \E t \in Task : ReleaseAssignment(t)
    \/ \E u \in User : Deactivate(u)
    \/ \E t \in Task, k \in RoundNo, decision \in Decision,
          base \in VersionNo, outcome \in Outcome :
         Decide(t, k, decision, base, outcome)
    \/ \E t \in Task, k \in RoundNo : Cancel(t, k)

Next ==
    \/ \E u \in User : AnnotatorStep(u)
    \/ OperatorStep
    \/ AdminStep

Spec == Init /\ [][Next]_vars

=============================================================================
