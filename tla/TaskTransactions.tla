-------------------------- MODULE TaskTransactions --------------------------
(***************************************************************************)
(* The transactions of the task store, seen from one task: for each of     *)
(* them a guard "Can..." (its conditions and early errors) and the task    *)
(* row it leaves behind.  Row locks make a transaction atomic, so each is  *)
(* one step; conditions that look beyond the task (who the caller is, what *)
(* else he holds) are added where AnnotationStore turns these into         *)
(* actions.                                                                *)
(*                                                                         *)
(* Unique indexes, foreign keys and CHECK constraints are not guards here: *)
(* the properties of AnnotationStore say that the code never needs them to *)
(* refuse a step, except for the ON CONFLICT DO NOTHING of a claim, which  *)
(* is the guard "nobody holds the task, the caller holds nothing".         *)
(***************************************************************************)
EXTENDS TaskRows

(***************************************************************************)
(* Definitions named Forgot... are faults a programmer could have made     *)
(* instead of the definition that follows; no specification uses them, the *)
(* properties are shown to notice each of them.                            *)
(***************************************************************************)

-----------------------------------------------------------------------------
(* Annotators: ordinary work                                               *)

\* No task_annotator_blocks row keeps u from the task.
NotBarred(ts, u) == ts.blockedBy[u] = None

\* A pending draft d that u may take: unassigned, not blocked for u, reserved
\* for u or for nobody.
CanClaim(ts, u, d) ==
    /\ ts.status = "pending"
    /\ d \in Drafts(ts)
    /\ ~ Assigned(ts)
    /\ NotBarred(ts, u)
    /\ ts.reserved \in {u, NoUser}

\* "began" is the newest admin action that had begun when this transaction
\* did: the claimed event is stamped with the transaction's start.
Claimed(ts, u, d, began) ==
    [ts EXCEPT
        !.assignment   = [user |-> u, version |-> d, mode |-> "annotation",
                          round |-> None],
        !.reserved     = NoUser,
        !.participants = @ \cup {u},
        !.claimedAfter = IF began > @ THEN began ELSE @]

CanSave(ts, u) ==
    /\ ts.assignment.user = u
    /\ ts.assignment.mode = "cross_check" => InProgress(ts, ts.assignment.round)

\* A version row as u's work leaves it.
Edited(v, u) ==
    [v EXCEPT !.revision = v.revision + 1, !.human = TRUE, !.modifiedBy = u]

Submitted(v, u, lifecycle, outcome) ==
    [Edited(v, u) EXCEPT !.lifecycle = lifecycle, !.target = outcome,
                         !.submitter = u]

Saved(ts, u) ==
    [ts EXCEPT !.version[ts.assignment.version] = Edited(@, u)]

ForgotHolder(ts, u) == ts.assignment.mode # "cross_check"
ForgotMode(ts, u)   == ts.assignment.user = u

CanComplete(ts, u) ==
    /\ ts.assignment.user = u
    /\ ts.assignment.mode # "cross_check"

ForgotToSupersede(v) == v

\* UPDATE annotation_versions SET lifecycle = 'superseded'
\*  WHERE lifecycle = 'published'
SupersedeIfPublished(v) ==
    IF v.lifecycle = "published" THEN [v EXCEPT !.lifecycle = "superseded"]
                                 ELSE v

\* Supersede what was published, publish the working version, let it go.
Completed(ts, u, outcome) ==
    LET w == ts.assignment.version IN
    [ts EXCEPT
        !.version = [n \in VersionNo |->
            IF n = w
            THEN Submitted(ts.version[n], u, "published", outcome)
            ELSE SupersedeIfPublished(ts.version[n])],
        !.status     = outcome,
        !.current    = w,
        !.reserved   = NoUser,
        !.assignment = NoAssignment]

CanAbandon(ts, u) == CanSave(ts, u)

\* A pool draft keeps its content for the next claimer; a correction or a
\* second transcription is thrown away.
AbandonedBy(ts) ==
    LET a == ts.assignment IN
    CASE a.mode = "cross_check" -> Unassign(CancelInProgressCrossCheck(ts))
      [] a.mode = "revision"    -> Unassign(AbandonDrafts(ts, {a.version}))
      [] a.mode = "annotation"  -> Unassign(ts)

CanReopen(ts, u) ==
    /\ ts.current # None
    /\ ts.version[ts.current].submitter = u
    /\ OpenRounds(ts) = {}
    /\ Drafts(ts) = {}
    /\ RoomForVersion(ts)

Reopened(ts, u) ==
    [AddVersion(ts, [NoVersionRow EXCEPT
            !.lifecycle = "draft", !.target = ts.status, !.base = ts.current,
            !.cut = ts.version[ts.current].cut])
       EXCEPT !.assignment = [user |-> u, version |-> ts.versions + 1,
                              mode |-> "revision", round |-> None]]

-----------------------------------------------------------------------------
(* Annotators: cross-checking                                              *)

ForgotParticipants(ts, u) == TRUE

\* No task_annotation_participants row: u has never worked on the task.
NotParticipant(ts, u) == u \notin ts.participants

CanCrossCheck(ts, u) ==
    /\ ts.status = "annotated"
    /\ ts.reserved = NoUser
    /\ ts.current # None
    /\ ts.version[ts.current].lifecycle = "published"
    /\ ts.version[ts.current].target = "annotated"
    /\ ts.version[ts.current].submitter \notin {NoUser, u}
    /\ ts.version[ts.baseline].lifecycle = "baseline"
    /\ ~ Assigned(ts)
    /\ Drafts(ts) = {}
    /\ OpenRounds(ts) = {}
    /\ NotParticipant(ts, u)
    /\ NotBarred(ts, u)
    /\ \A k \in RoundNo :
         /\ ts.round[k].original = ts.current
              => ts.round[k].state \in {"none", "cancelled", "invalidated"}
         /\ ts.round[k].final = ts.current
              => ts.round[k].state \notin {"passed", "adjudicated"}
    /\ RoomForVersion(ts)
    /\ ts.rounds < MaxRounds

\* copy_baseline_draft: the baseline's segments, nobody's text.
BlindDraft(ts) ==
    [NoVersionRow EXCEPT
        !.lifecycle = "draft", !.purpose = "cross_check",
        !.base = ts.baseline, !.cut = ts.version[ts.baseline].cut]

SecondAssignment(u, d, k) ==
    [user |-> u, version |-> d, mode |-> "cross_check", round |-> k]

\* A blind second draft, its round and its assignment.
CrossCheckStarted(ts, u) ==
    LET d == ts.versions + 1
        k == ts.rounds + 1
    IN  [AddVersion(ts, BlindDraft(ts)) EXCEPT
             !.rounds = k,
             !.round[k] = [NoRoundRow EXCEPT
                 !.state = "in_progress",
                 !.original = ts.current,
                 !.originalAnnotator = ts.version[ts.current].submitter,
                 !.secondary = d,
                 !.secondaryAnnotator = u],
             !.assignment = SecondAssignment(u, d, k),
             !.participants = @ \cup {u}]

\* What submit_cross_check reads before it compares outside any lock.
SubmitSnapshot(ts) ==
    LET a == ts.assignment
        k == a.round
    IN  [version |-> a.version, round |-> k,
         original |-> ts.round[k].original,
         originalInput |-> ts.version[ts.round[k].original].revision,
         secondaryInput |-> ts.version[a.version].revision]

CanSnapshot(ts, u) ==
    LET a == ts.assignment IN
    /\ a.user = u
    /\ a.mode = "cross_check"
    /\ InProgress(ts, a.round)
    /\ ts.round[a.round].secondary = a.version
    /\ ts.round[a.round].original = ts.current
    /\ ts.version[a.version].lifecycle = "draft"
    /\ ts.version[a.version].purpose = "cross_check"

ForgotRevisions(ts, snap) == ts.current = snap.original

\* The texts compared are the texts there are: same pointer, same revisions.
InputsUnchanged(ts, snap) ==
    /\ ts.current = snap.original
    /\ ts.version[snap.original].revision = snap.originalInput
    /\ ts.version[snap.version].revision = snap.secondaryInput

\* Everything the snapshot saw must still be so when the verdict is stored.
CanFreeze(ts, u, snap) ==
    /\ ts.assignment.user = u
    /\ ts.assignment.mode = "cross_check"
    /\ ts.assignment.version = snap.version
    /\ ts.assignment.round = snap.round
    /\ InProgress(ts, snap.round)
    /\ ts.round[snap.round].original = snap.original
    /\ ts.round[snap.round].secondary = snap.version
    /\ ts.version[snap.version].lifecycle = "draft"
    /\ ts.version[snap.version].purpose = "cross_check"
    /\ InputsUnchanged(ts, snap)

WithVerdict(r, snap, needsReview) ==
    [r EXCEPT !.state = IF needsReview THEN "awaiting_review" ELSE "passed",
              !.originalInput  = snap.originalInput,
              !.secondaryInput = snap.secondaryInput]

\* Freeze the second transcription without publishing it; the round passes
\* or waits for review.
Frozen(ts, u, snap, outcome, needsReview) ==
    [ts EXCEPT
        !.version[snap.version] =
            Submitted(@, u, "cross_check_submitted", outcome),
        !.round[snap.round] = WithVerdict(@, snap, needsReview),
        !.assignment = NoAssignment]

-----------------------------------------------------------------------------
(* Preprocessing                                                           *)

ForgotHumanText(ts) == FALSE

HasHumanDraft(ts) == \E d \in Drafts(ts) : ts.version[d].human

Protected(ts) ==
    \/ ts.current # None
    \/ Assigned(ts)
    \/ HasHumanDraft(ts)
    \/ \E n \in VersionsIn(ts, Lifecycle) :
         \/ ts.version[n].lifecycle = "cross_check_submitted"
         \/ ts.version[n].purpose \in {"cross_check", "adjudication"}

CanRefresh(ts) == ~ Protected(ts) /\ Drafts(ts) # {}

Recut(v, cut, bump) ==
    [v EXCEPT !.revision = v.revision + bump, !.cut = cut]

\* New machine segments replace the draft's and the baseline's.
Refreshed(ts) ==
    LET cut == ts.version[ts.baseline].cut + 1 IN
    [ts EXCEPT !.version = [n \in VersionNo |->
        IF n \in Drafts(ts)
        THEN Recut(ts.version[n], cut, 1)
        ELSE IF n = ts.baseline
        THEN Recut(ts.version[n], cut, 0)
        ELSE ts.version[n]]]

-----------------------------------------------------------------------------
(* Administrators                                                          *)

\* Take the task from its holder and throw every open draft away.
CanReleaseDraft(ts) ==
    ts.assignment.mode = "cross_check" => InProgress(ts, ts.assignment.round)

DraftReleased(ts) ==
    Unassign(AbandonDrafts(
        IF ts.assignment.mode = "cross_check"
        THEN CancelInProgressCrossCheck(ts) ELSE ts, VersionNo))

\* What is left of a task whose assignment was released: an unpublished one
\* goes back to the pool with a clean draft.
NeedsCleanDraft(ts) == ts.status = "pending" /\ ts.current = None

CanRelease(ts) ==
    /\ Assigned(ts)
    /\ CanReleaseDraft(ts)
    /\ NeedsCleanDraft(ts) => RoomForVersion(ts)

Released(ts) ==
    IF NeedsCleanDraft(ts)
    THEN [CloneCleanDraft(DraftReleased(ts)) EXCEPT !.reserved = NoUser]
    ELSE DraftReleased(ts)

ForgotAwaitingReview(ts) == {k \in RoundNo : ts.round[k].state = "in_progress"}

\* The rounds a revoke terminates.
RoundsToInvalidate(ts) == OpenRounds(ts)

\* Terminate open rounds because the original result is going away.
CrossCheckInvalidated(ts) ==
    LET open    == RoundsToInvalidate(ts)
        running == {k \in open : ts.round[k].state = "in_progress"}
        kept    == [AbandonDrafts(ts, {ts.round[k].secondary : k \in running})
                      EXCEPT !.round = [k \in RoundNo |->
                        IF k \in open
                        THEN [ts.round[k] EXCEPT !.state = "invalidated"]
                        ELSE ts.round[k]]]
    IN  IF running # {} THEN Unassign(kept) ELSE kept

\* author NoUser asks for an administrator's edit to be withdrawn.
CanRevoke(ts, author, releaseConflicts) ==
    /\ ts.current # None
    /\ ts.version[ts.current].lifecycle = "published"
    /\ IF author = NoUser THEN AdminEdited(ts.version[ts.current])
                          ELSE ts.version[ts.current].submitter = author
    /\ releaseConflicts \/ (~ Assigned(ts) /\ Drafts(ts) = {} /\ OpenRounds(ts) = {})
    /\ CanReleaseDraft(CrossCheckInvalidated(ts))
    /\ RoomForVersion(ts)

\* Mark the published version revoked and take it out of the corpus.
Withdrawn(ts, a) ==
    [ts EXCEPT
        !.version[ts.current] = [@ EXCEPT !.lifecycle = "revoked",
                                          !.revokedBy = a],
        !.status = "pending", !.current = None, !.reserved = NoUser]

\* Withdraw the published result under admin action a: open work on it ends,
\* the version is marked, the task returns to the pool with a clean draft and
\* its author may be barred from taking it again.
Revoked(ts, author, a, block) ==
    LET cleared == DraftReleased(CrossCheckInvalidated(ts))
        clean   == CloneCleanDraft(Withdrawn(cleared, a))
    IN  IF block /\ author # NoUser
        THEN [clean EXCEPT !.blockedBy[author] = a] ELSE clean

ForgotRevision(v) == v.lifecycle = "draft" /\ ~ v.human

Untouched(v) == v.lifecycle = "draft" /\ v.revision = 0 /\ ~ v.human

\* Undo revoke action a, which recorded author, before (the revoked version)
\* and after (the clean draft).
CanRestore(ts, a, author, before, after) ==
    /\ ts.status = "pending"
    /\ ts.current = None
    /\ ~ Assigned(ts)
    /\ OpenRounds(ts) = {}
    /\ ts.claimedAfter < a
    /\ Untouched(ts.version[after])
    /\ ts.version[before].lifecycle = "revoked"
    /\ IF author = NoUser THEN AdminEdited(ts.version[before])
                          ELSE ts.version[before].submitter = author
    /\ ts.version[before].revokedBy = a

ForgotBars(ts, a, author) == ts.blockedBy
ForgotColumn(v) == v.lifecycle

\* DELETE FROM task_annotator_blocks WHERE the bar is author's and a's.
BarsWithout(ts, a, author) ==
    [u \in User |-> IF u = author /\ ts.blockedBy[u] = a THEN None
                                                          ELSE ts.blockedBy[u]]

StatusOfVersion(v) == v.target

Reinstated(v) == [v EXCEPT !.lifecycle = "published", !.revokedBy = None]

Restored(ts, a, author, before, after) ==
    [ts EXCEPT
        !.version = [n \in VersionNo |->
            IF n = before THEN Reinstated(ts.version[n])
            ELSE IF n = after THEN [ts.version[n] EXCEPT !.lifecycle = "abandoned"]
            ELSE ts.version[n]],
        !.status    = StatusOfVersion(ts.version[before]),
        !.current   = before,
        !.blockedBy = BarsWithout(ts, a, author)]

CanDecide(ts, k) ==
    /\ ts.round[k].state = "awaiting_review"
    /\ ~ Assigned(ts)
    /\ ts.current = ts.round[k].original
    /\ Drafts(ts) = {}

\* Both UPDATEs of a decision that moves the pointer must find their row.
CanReplace(ts, k, decision) ==
    /\ decision # "original" => ts.version[ts.current].lifecycle = "published"
    /\ decision = "secondary" =>
         ts.version[ts.round[k].secondary].lifecycle = "cross_check_submitted"

\* The version an administrator's edit of base becomes.
AdminEdit(ts, base, outcome) ==
    [NoVersionRow EXCEPT
       !.lifecycle = "published", !.purpose = "adjudication",
       !.target = outcome, !.base = base, !.revision = 1, !.human = TRUE,
       !.cut = ts.version[base].cut]

Close(ts, k, decision, final) ==
    [ts EXCEPT !.round[k] = [@ EXCEPT !.state = "adjudicated",
                               !.decision = decision, !.final = final]]

\* Another version takes the place of the published one.
Replaced(ts, final, status) ==
    [ts EXCEPT !.version[ts.current] = [@ EXCEPT !.lifecycle = "superseded"],
               !.status = status, !.current = final]

Publish(ts, n) ==
    [ts EXCEPT !.version[n] = [@ EXCEPT !.lifecycle = "published"]]

\* Keep the original, publish the second transcription, or publish an edit
\* made from one of them.
Decided(ts, k, decision, base, outcome) ==
    LET second == ts.round[k].secondary
        edit   == ts.versions + 1
    IN  CASE decision = "original" -> Close(ts, k, decision, ts.current)
          [] decision = "secondary" ->
               Close(Publish(Replaced(ts, second, ts.version[second].target),
                             second), k, decision, second)
          [] decision = "edited" ->
               Close(Replaced(AddVersion(ts, AdminEdit(ts, base, outcome)),
                              edit, outcome), k, decision, edit)

CanCancel(ts, k) ==
    /\ ts.round[k].state = "in_progress"
    /\ Assigned(ts) => ts.assignment.user = ts.round[k].secondaryAnnotator

Cancelled(ts, k) ==
    Unassign(AbandonDrafts(SetRoundState(ts, k, "cancelled"),
                           {ts.round[k].secondary}))

ForgotReservation(ts, u) == ts.reserved

ReservationWithout(ts, u) == IF ts.reserved = u THEN NoUser ELSE ts.reserved

\* Offboarding u: release what he holds, drop his reservations, withdraw what
\* he has published.  The whole action fails if somebody else is working on
\* one of his published results.
LetGo(ts, u) ==
    LET free == IF ts.assignment.user # u THEN ts
                ELSE IF NeedsCleanDraft(ts)
                THEN CloneCleanDraft(DraftReleased(ts)) ELSE DraftReleased(ts)
    IN  [free EXCEPT !.reserved = ReservationWithout(free, u)]

PublishedBy(ts, u) ==
    ts.current # None /\ ts.version[ts.current].submitter = u

CanOffboard(ts, u) ==
    /\ ts.assignment.user = u =>
         CanReleaseDraft(ts) /\ (NeedsCleanDraft(ts) => RoomForVersion(ts))
    /\ PublishedBy(LetGo(ts, u), u) =>
         /\ ~ Assigned(LetGo(ts, u))
         /\ CanRevoke(CrossCheckInvalidated(LetGo(ts, u)), u, FALSE)

Offboarded(ts, u, a) ==
    LET free == LetGo(ts, u) IN
    IF PublishedBy(free, u)
    THEN Revoked(CrossCheckInvalidated(free), u, a, TRUE)
    ELSE free

=============================================================================
