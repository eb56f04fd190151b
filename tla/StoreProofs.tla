------------------------------ MODULE StoreProofs ------------------------------
(***************************************************************************)
(* Types, the corpus, and work under way in the annotation store, for      *)
(* every set of tasks and annotators and for every value of the bounds.    *)
(*                                                                         *)
(* Types: TypeOK is inductive as it stands because it says that an open    *)
(* round names both its versions.  One lemma per row update of TaskRows,   *)
(* one per transaction of TaskTransactions, then the steps of the store.   *)
(*                                                                         *)
(* Corpus: a task publishes exactly the version its pointer names.         *)
(* CorpusInv is the inductive invariant.  Transactions that only end open  *)
(* work are seen through one relation, Discards; those that put another    *)
(* version into the corpus through one lemma, NewResultKeeps.              *)
(*                                                                         *)
(* Work: drafts, assignments and rounds stay in step.  Every transaction   *)
(* is described column by column, as a relation between the task before    *)
(* and the task after; the invariants are then shown for those relations,  *)
(* and for the store from one lemma, TaskMoves, that says which of them    *)
(* each action is.                                                         *)
(*                                                                         *)
(* Evidence: what the rows of a task tell afterwards, that is history,     *)
(* credit, evidence of cross-checks, the audit trail, cuts, bars and       *)
(* offboarding.  The steps are first reduced to what may happen to one     *)
(* version (RowMove) and to the rounds of a task (PlainStep, RoundsClosed); *)
(* the properties follow from these few moves.                             *)
(***************************************************************************)
EXTENDS StoreProperties, FiniteSetTheorems, TLAPS

-----------------------------------------------------------------------------
(* Types of one task                                                       *)

\* A row whose version column alone is replaced.
LEMMA NewVersions ==
    ASSUME NEW ts, TaskTyped(ts), NEW vs \in [VersionNo -> VersionRow]
    PROVE  TaskTyped([ts EXCEPT !.version = vs])
  BY DEF TaskTyped, TaskRow, OpenRounds

\* A row whose round column alone is replaced, opening no further round.
LEMMA NewRounds ==
    ASSUME NEW ts, TaskTyped(ts), NEW rs \in [RoundNo -> RoundRow],
           \A k \in RoundNo : rs[k].state \in OpenState =>
               /\ rs[k].original \in VersionNo
               /\ rs[k].secondary \in VersionNo
    PROVE  TaskTyped([ts EXCEPT !.round = rs])
  BY DEF TaskTyped, TaskRow, OpenRounds

\* A row whose assignment alone is replaced.
LEMMA NewAssignment ==
    ASSUME NEW ts, TaskTyped(ts), NEW a \in AssignmentRow
    PROVE  TaskTyped([ts EXCEPT !.assignment = a])
  BY DEF TaskTyped, TaskRow, OpenRounds

\* A row with new status and pointer.
LEMMA NewPointer ==
    ASSUME NEW ts, TaskTyped(ts), NEW s \in Status,
           NEW c \in {None} \cup VersionNo
    PROVE  TaskTyped([ts EXCEPT !.status = s, !.current = c])
  BY DEF TaskTyped, TaskRow, OpenRounds

LEMMA NewReservation ==
    ASSUME NEW ts, TaskTyped(ts), NEW u \in User \cup {NoUser}
    PROVE  TaskTyped([ts EXCEPT !.reserved = u])
  BY DEF TaskTyped, TaskRow, OpenRounds

LEMMA NewBars ==
    ASSUME NEW ts, TaskTyped(ts), NEW b \in [User -> {None} \cup ActionNo]
    PROVE  TaskTyped([ts EXCEPT !.blockedBy = b])
  BY DEF TaskTyped, TaskRow, OpenRounds

LEMMA NoAssignmentType == NoAssignment \in AssignmentRow
  BY DEF NoAssignment, AssignmentRow, Mode

LEMMA UnassignType ==
    ASSUME NEW ts, TaskTyped(ts)
    PROVE  TaskTyped(Unassign(ts))
  BY NewAssignment, NoAssignmentType DEF Unassign

LEMMA AddVersionType ==
    ASSUME NEW ts, TaskTyped(ts), RoomForVersion(ts), NEW row \in VersionRow
    PROVE  TaskTyped(AddVersion(ts, row))
  <1> DEFINE vs == [ts.version EXCEPT ![ts.versions + 1] = row]
             n  == ts.versions + 1
  <1>1. n \in {0} \cup VersionNo
    BY BoundsAssumption DEF RoomForVersion, TaskTyped, TaskRow, VersionNo
  <1>2. vs \in [VersionNo -> VersionRow]
    BY DEF TaskTyped, TaskRow
  <1>3. AddVersion(ts, row) = [ts EXCEPT !.versions = n, !.version = vs]
    BY DEF AddVersion
  <1> HIDE DEF vs, n
  <1>4. QED
    BY <1>1, <1>2, <1>3 DEF TaskTyped, TaskRow, OpenRounds

LEMMA AbandonDraftsType ==
    ASSUME NEW ts, TaskTyped(ts), NEW gone
    PROVE  TaskTyped(AbandonDrafts(ts, gone))
  <1> DEFINE vs == [n \in VersionNo |-> IF n \in gone
                       THEN AbandonIfDraft(ts.version[n]) ELSE ts.version[n]]
  <1>1. \A v \in VersionRow : AbandonIfDraft(v) \in VersionRow
    BY DEF AbandonIfDraft, VersionRow, Lifecycle
  <1>2. vs \in [VersionNo -> VersionRow]
    BY <1>1 DEF TaskTyped, TaskRow
  <1>3. AbandonDrafts(ts, gone) = [ts EXCEPT !.version = vs]
    BY DEF AbandonDrafts
  <1> HIDE DEF vs
  <1>4. QED
    BY <1>2, <1>3, NewVersions

\* Changing the state of a round that was open.
LEMMA SetRoundStateType ==
    ASSUME NEW ts, TaskTyped(ts), NEW k \in OpenRounds(ts),
           NEW state \in RoundState
    PROVE  TaskTyped(SetRoundState(ts, k, state))
  <1> DEFINE r  == [ts.round[k] EXCEPT !.state = state]
             rs == [ts.round EXCEPT ![k] = r]
  <1>0. k \in RoundNo /\ ts.round \in [RoundNo -> RoundRow]
    BY DEF OpenRounds, TaskTyped, TaskRow
  <1>1. /\ r \in RoundRow
        /\ r.original = ts.round[k].original
        /\ r.secondary = ts.round[k].secondary
    BY <1>0 DEF RoundRow
  <1>2. rs \in [RoundNo -> RoundRow]
    BY <1>0, <1>1
  <1>3. \A j \in RoundNo : rs[j].state \in OpenState =>
            rs[j].original \in VersionNo /\ rs[j].secondary \in VersionNo
    BY <1>0, <1>1 DEF TaskTyped, OpenRounds
  <1>4. SetRoundState(ts, k, state) = [ts EXCEPT !.round = rs]
    BY DEF SetRoundState
  <1> HIDE DEF rs
  <1>5. QED
    BY <1>2, <1>3, <1>4, NewRounds

LEMMA CloneCleanDraftType ==
    ASSUME NEW ts, TaskTyped(ts), RoomForVersion(ts)
    PROVE  TaskTyped(CloneCleanDraft(ts))
  <1> DEFINE row == [NoVersionRow EXCEPT !.lifecycle = "draft",
                       !.base = ts.baseline,
                       !.cut = ts.version[ts.baseline].cut]
  <1>1. row \in VersionRow
    BY DEF TaskTyped, TaskRow, VersionRow, NoVersionRow, Lifecycle, Purpose,
           Status
  <1> HIDE DEF row
  <1>2. TaskTyped(AddVersion(ts, row))
    BY <1>1, AddVersionType
  <1>3. QED
    BY <1>2 DEF CloneCleanDraft, row

LEMMA InProgressIsOpen ==
    ASSUME NEW ts, NEW k, InProgress(ts, k)
    PROVE  k \in OpenRounds(ts)
  BY DEF InProgress, OpenRounds, OpenState

LEMMA CancelInProgressCrossCheckType ==
    ASSUME NEW ts, TaskTyped(ts), InProgress(ts, ts.assignment.round)
    PROVE  TaskTyped(CancelInProgressCrossCheck(ts))
  <1>1. "cancelled" \in RoundState
    BY DEF RoundState
  <1>2. TaskTyped(SetRoundState(ts, ts.assignment.round, "cancelled"))
    BY <1>1, InProgressIsOpen, SetRoundStateType
  <1>3. QED
    BY <1>2, AbandonDraftsType DEF CancelInProgressCrossCheck

-----------------------------------------------------------------------------
(* Transactions of annotators                                              *)

LEMMA ClaimedType ==
    ASSUME NEW ts, TaskTyped(ts), NEW u \in User, NEW d \in VersionNo,
           NEW began \in {None} \cup ActionNo
    PROVE  TaskTyped(Claimed(ts, u, d, began))
  <1> DEFINE a == [user |-> u, version |-> d, mode |-> "annotation",
                   round |-> None]
             c == IF began > ts.claimedAfter THEN began ELSE ts.claimedAfter
  <1>1. a \in AssignmentRow
    BY DEF AssignmentRow, Mode
  <1>2. c \in {None} \cup ActionNo
    BY DEF TaskTyped, TaskRow
  <1>3. ts.participants \cup {u} \in SUBSET User
    BY DEF TaskTyped, TaskRow
  <1>4. Claimed(ts, u, d, began) =
          [ts EXCEPT !.assignment = a, !.reserved = NoUser,
                     !.participants = ts.participants \cup {u},
                     !.claimedAfter = c]
    BY DEF Claimed
  <1> HIDE DEF a, c
  <1>5. QED
    BY <1>1, <1>2, <1>3, <1>4 DEF TaskTyped, TaskRow, OpenRounds

LEMMA EditedType ==
    ASSUME NEW v \in VersionRow, NEW u \in User
    PROVE  Edited(v, u) \in VersionRow
  <1>1. v.revision + 1 \in Nat
    BY DEF VersionRow
  <1>2. QED
    BY <1>1 DEF Edited, VersionRow

LEMMA SubmittedType ==
    ASSUME NEW v \in VersionRow, NEW u \in User, NEW l \in Lifecycle,
           NEW outcome \in Outcome
    PROVE  Submitted(v, u, l, outcome) \in VersionRow
  <1>1. Edited(v, u) \in VersionRow
    BY EditedType
  <1>2. outcome \in Status
    BY DEF Status
  <1>3. QED
    BY <1>1, <1>2 DEF Submitted, VersionRow

LEMMA SavedType ==
    ASSUME NEW ts, TaskTyped(ts), NEW u \in User
    PROVE  TaskTyped(Saved(ts, u))
  <1> DEFINE w  == ts.assignment.version
             vs == [ts.version EXCEPT ![w] = Edited(@, u)]
  <1>1. w \in VersionNo => Edited(ts.version[w], u) \in VersionRow
    BY EditedType DEF TaskTyped, TaskRow
  <1>2. vs \in [VersionNo -> VersionRow]
    BY <1>1 DEF TaskTyped, TaskRow
  <1>3. Saved(ts, u) = [ts EXCEPT !.version = vs]
    BY DEF Saved
  <1> HIDE DEF vs
  <1>4. QED
    BY <1>2, <1>3, NewVersions

LEMMA CompletedType ==
    ASSUME NEW ts, TaskTyped(ts), NEW u \in User, NEW outcome \in Outcome
    PROVE  TaskTyped(Completed(ts, u, outcome))
  <1> DEFINE w  == ts.assignment.version
             vs == [n \in VersionNo |->
                      IF n = w
                      THEN Submitted(ts.version[n], u, "published", outcome)
                      ELSE SupersedeIfPublished(ts.version[n])]
  <1>1. \A v \in VersionRow : SupersedeIfPublished(v) \in VersionRow
    BY DEF SupersedeIfPublished, VersionRow, Lifecycle
  <1>2. \A v \in VersionRow :
          Submitted(v, u, "published", outcome) \in VersionRow
    BY SubmittedType DEF Lifecycle
  <1>3. vs \in [VersionNo -> VersionRow]
    BY <1>1, <1>2 DEF TaskTyped, TaskRow
  <1>4. w \in {None} \cup VersionNo /\ outcome \in Status
    BY DEF TaskTyped, TaskRow, AssignmentRow, Status
  <1>5. Completed(ts, u, outcome) =
          [ts EXCEPT !.version = vs, !.status = outcome, !.current = w,
                     !.reserved = NoUser, !.assignment = NoAssignment]
    BY DEF Completed
  <1> HIDE DEF vs, w
  <1>6. QED
    BY <1>3, <1>4, <1>5, NoAssignmentType DEF TaskTyped, TaskRow, OpenRounds

LEMMA AbandonedByType ==
    ASSUME NEW ts, TaskTyped(ts), NEW u, CanAbandon(ts, u)
    PROVE  TaskTyped(AbandonedBy(ts))
  <1>1. ts.assignment.mode \in Mode
    BY DEF TaskTyped, TaskRow, AssignmentRow
  <1>2. CASE ts.assignment.mode = "cross_check"
    <2>1. TaskTyped(CancelInProgressCrossCheck(ts))
      BY <1>2, CancelInProgressCrossCheckType DEF CanAbandon, CanSave
    <2>2. QED
      BY <1>2, <2>1, UnassignType DEF AbandonedBy
  <1>3. CASE ts.assignment.mode = "revision"
    <2>1. TaskTyped(AbandonDrafts(ts, {ts.assignment.version}))
      BY AbandonDraftsType
    <2>2. QED
      BY <1>3, <2>1, UnassignType DEF AbandonedBy
  <1>4. CASE ts.assignment.mode = "annotation"
    BY <1>4, UnassignType DEF AbandonedBy
  <1>5. QED
    BY <1>1, <1>2, <1>3, <1>4 DEF Mode

LEMMA NextVersionNo ==
    ASSUME NEW ts, TaskTyped(ts), RoomForVersion(ts)
    PROVE  ts.versions + 1 \in VersionNo
  BY BoundsAssumption DEF RoomForVersion, TaskTyped, TaskRow, VersionNo

LEMMA ReopenedType ==
    ASSUME NEW ts, TaskTyped(ts), NEW u \in User, CanReopen(ts, u)
    PROVE  TaskTyped(Reopened(ts, u))
  <1> DEFINE row == [NoVersionRow EXCEPT !.lifecycle = "draft",
                       !.target = ts.status, !.base = ts.current,
                       !.cut = ts.version[ts.current].cut]
             a   == [user |-> u, version |-> ts.versions + 1,
                     mode |-> "revision", round |-> None]
  <1>1. row \in VersionRow
    BY DEF CanReopen, TaskTyped, TaskRow, VersionRow, NoVersionRow, Lifecycle,
           Purpose, Status
  <1>2. a \in AssignmentRow
    BY NextVersionNo DEF CanReopen, AssignmentRow, Mode
  <1>3. Reopened(ts, u) = [AddVersion(ts, row) EXCEPT !.assignment = a]
    BY DEF Reopened
  <1> HIDE DEF row, a
  <1>4. TaskTyped(AddVersion(ts, row))
    BY <1>1, AddVersionType DEF CanReopen
  <1>5. QED
    BY <1>2, <1>3, <1>4, NewAssignment

LEMMA CrossCheckStartedType ==
    ASSUME NEW ts, TaskTyped(ts), NEW u \in User, CanCrossCheck(ts, u)
    PROVE  TaskTyped(CrossCheckStarted(ts, u))
  <1> DEFINE d   == ts.versions + 1
             k   == ts.rounds + 1
             row == BlindDraft(ts)
             r   == [NoRoundRow EXCEPT
                       !.state = "in_progress", !.original = ts.current,
                       !.originalAnnotator = ts.version[ts.current].submitter,
                       !.secondary = d, !.secondaryAnnotator = u]
             a   == SecondAssignment(u, d, k)
             ad  == AddVersion(ts, row)
             rs  == [ad.round EXCEPT ![k] = r]
  <1>1. row \in VersionRow
    BY DEF BlindDraft, TaskTyped, TaskRow, VersionRow, NoVersionRow, Lifecycle,
           Purpose, Status
  <1>2. d \in VersionNo
    BY NextVersionNo DEF CanCrossCheck
  <1>3. k \in RoundNo
    BY BoundsAssumption DEF CanCrossCheck, TaskTyped, TaskRow, RoundNo
  <1>4. ts.current \in VersionNo
    BY DEF CanCrossCheck, TaskTyped, TaskRow
  <1>5. /\ r \in RoundRow
        /\ r.original \in VersionNo
        /\ r.secondary \in VersionNo
    BY <1>2, <1>4 DEF TaskTyped, TaskRow, VersionRow, RoundRow, NoRoundRow,
         RoundState, OpenState
  <1>6. a \in AssignmentRow
    BY <1>2, <1>3 DEF SecondAssignment, AssignmentRow, Mode
  <1>7. CrossCheckStarted(ts, u) =
          [ad EXCEPT !.rounds = k, !.round = rs, !.assignment = a,
                     !.participants = @ \cup {u}]
    BY DEF CrossCheckStarted
  <1> HIDE DEF row, a, r, k, d
  <1>8. TaskTyped(ad)
    BY <1>1, AddVersionType DEF CanCrossCheck
  <1> HIDE DEF ad
  <1>9. rs \in [RoundNo -> RoundRow]
    BY <1>5, <1>8 DEF TaskTyped, TaskRow
  <1>10. \A j \in RoundNo : rs[j].state \in OpenState =>
            rs[j].original \in VersionNo /\ rs[j].secondary \in VersionNo
    BY <1>5, <1>8 DEF TaskTyped, TaskRow, OpenRounds
  <1>11. ad.participants \cup {u} \in SUBSET User
    BY <1>8 DEF TaskTyped, TaskRow
  <1> HIDE DEF rs
  <1>12. QED
    BY <1>3, <1>6, <1>7, <1>8, <1>9, <1>10, <1>11
       DEF TaskTyped, TaskRow, OpenRounds

LEMMA WithVerdictType ==
    ASSUME NEW r \in RoundRow, NEW snap, snap.originalInput \in Nat,
           snap.secondaryInput \in Nat, NEW needsReview \in BOOLEAN
    PROVE  /\ WithVerdict(r, snap, needsReview) \in RoundRow
           /\ WithVerdict(r, snap, needsReview).original = r.original
           /\ WithVerdict(r, snap, needsReview).secondary = r.secondary
  BY DEF WithVerdict, RoundRow, RoundState, OpenState

LEMMA FrozenType ==
    ASSUME NEW ts, TaskTyped(ts), NEW u \in User, NEW snap,
           snap.originalInput \in Nat, snap.secondaryInput \in Nat,
           CanFreeze(ts, u, snap), NEW outcome \in Outcome,
           NEW needsReview \in BOOLEAN
    PROVE  TaskTyped(Frozen(ts, u, snap, outcome, needsReview))
  <1> DEFINE d  == snap.version
             k  == snap.round
             v  == Submitted(ts.version[d], u, "cross_check_submitted", outcome)
             r  == WithVerdict(ts.round[k], snap, needsReview)
             vs == [ts.version EXCEPT ![d] = v]
             rs == [ts.round EXCEPT ![k] = r]
  <1>1. d \in VersionNo => v \in VersionRow
    BY SubmittedType DEF TaskTyped, TaskRow, Lifecycle
  <1>2. vs \in [VersionNo -> VersionRow]
    BY <1>1 DEF TaskTyped, TaskRow
  <1>3. k \in OpenRounds(ts) /\ k \in RoundNo
    BY InProgressIsOpen DEF CanFreeze, InProgress
  <1>4. ts.round[k] \in RoundRow
    BY <1>3 DEF TaskTyped, TaskRow
  <1>5. /\ r \in RoundRow
        /\ r.original = ts.round[k].original
        /\ r.secondary = ts.round[k].secondary
    BY <1>4, WithVerdictType
  <1> HIDE DEF r
  <1>6. rs \in [RoundNo -> RoundRow]
    BY <1>3, <1>5 DEF TaskTyped, TaskRow
  <1>7. \A j \in RoundNo : rs[j].state \in OpenState =>
            rs[j].original \in VersionNo /\ rs[j].secondary \in VersionNo
    BY <1>3, <1>5 DEF TaskTyped, TaskRow, OpenRounds
  <1>8. Frozen(ts, u, snap, outcome, needsReview) =
          [ts EXCEPT !.version = vs, !.round = rs,
                     !.assignment = NoAssignment]
    BY DEF Frozen, r
  <1> HIDE DEF vs, rs
  <1>9. QED
    BY <1>2, <1>6, <1>7, <1>8, NoAssignmentType
       DEF TaskTyped, TaskRow, OpenRounds

\* What a submission reads is typed: an open round names its versions.
LEMMA SnapshotType ==
    ASSUME NEW ts, TaskTyped(ts), NEW u, CanSnapshot(ts, u)
    PROVE  LET read == SubmitSnapshot(ts) IN
           /\ read.version \in VersionNo
           /\ read.round \in RoundNo
           /\ read.original \in VersionNo
           /\ read.originalInput \in Nat
           /\ read.secondaryInput \in Nat
  <1>1. ts.assignment.round \in OpenRounds(ts)
    BY InProgressIsOpen DEF CanSnapshot
  <1>2. /\ ts.assignment.round \in RoundNo
        /\ ts.round[ts.assignment.round].original \in VersionNo
        /\ ts.assignment.version \in VersionNo
    BY <1>1 DEF TaskTyped, OpenRounds, CanSnapshot
  <1>3. QED
    BY <1>2 DEF SubmitSnapshot, TaskTyped, TaskRow, VersionRow

-----------------------------------------------------------------------------
(* Preprocessing and administrators                                        *)

LEMMA RefreshedType ==
    ASSUME NEW ts, TaskTyped(ts)
    PROVE  TaskTyped(Refreshed(ts))
  <1> DEFINE cut == ts.version[ts.baseline].cut + 1
             vs  == [n \in VersionNo |->
                       IF n \in Drafts(ts) THEN Recut(ts.version[n], cut, 1)
                       ELSE IF n = ts.baseline
                            THEN Recut(ts.version[n], cut, 0)
                            ELSE ts.version[n]]
  <1>1. cut \in Nat
    BY DEF TaskTyped, TaskRow, VersionRow
  <1>2. \A v \in VersionRow, b \in {0, 1} : Recut(v, cut, b) \in VersionRow
    <2> SUFFICES ASSUME NEW v \in VersionRow, NEW b \in {0, 1}
                 PROVE  Recut(v, cut, b) \in VersionRow
      OBVIOUS
    <2>1. v.revision + b \in Nat
      BY DEF VersionRow
    <2>2. QED
      BY <1>1, <2>1 DEF Recut, VersionRow
  <1>3. Refreshed(ts) = [ts EXCEPT !.version = vs]
    BY DEF Refreshed
  <1> HIDE DEF cut
  <1>4. vs \in [VersionNo -> VersionRow]
    BY <1>2 DEF TaskTyped, TaskRow
  <1> HIDE DEF vs
  <1>5. QED
    BY <1>3, <1>4, NewVersions

LEMMA DraftReleasedType ==
    ASSUME NEW ts, TaskTyped(ts), CanReleaseDraft(ts)
    PROVE  TaskTyped(DraftReleased(ts))
  <1> DEFINE rest == IF ts.assignment.mode = "cross_check"
                     THEN CancelInProgressCrossCheck(ts) ELSE ts
  <1>1. TaskTyped(rest)
    BY CancelInProgressCrossCheckType DEF CanReleaseDraft
  <1> HIDE DEF rest
  <1>2. TaskTyped(AbandonDrafts(rest, VersionNo))
    BY <1>1, AbandonDraftsType
  <1>3. TaskTyped(Unassign(AbandonDrafts(rest, VersionNo)))
    BY <1>2, UnassignType
  <1>4. QED
    BY <1>3 DEF DraftReleased, rest

\* Releasing a draft uses no version number up.
LEMMA DraftReleasedKeeps ==
    ASSUME NEW ts, TaskTyped(ts)
    PROVE  /\ DraftReleased(ts).versions = ts.versions
           /\ DraftReleased(ts).current = ts.current
  BY DEF DraftReleased, Unassign, AbandonDrafts, CancelInProgressCrossCheck,
         SetRoundState, TaskTyped, TaskRow

LEMMA ReleasedType ==
    ASSUME NEW ts, TaskTyped(ts), CanRelease(ts)
    PROVE  TaskTyped(Released(ts))
  <1>1. TaskTyped(DraftReleased(ts))
    BY DraftReleasedType DEF CanRelease
  <1>2. CASE NeedsCleanDraft(ts)
    <2>1. RoomForVersion(DraftReleased(ts))
      BY <1>2, DraftReleasedKeeps DEF CanRelease, RoomForVersion
    <2>2. TaskTyped(CloneCleanDraft(DraftReleased(ts)))
      BY <1>1, <2>1, CloneCleanDraftType
    <2>3. QED
      BY <1>2, <2>2, NewReservation DEF Released
  <1>3. CASE ~ NeedsCleanDraft(ts)
    BY <1>1, <1>3 DEF Released
  <1>4. QED
    BY <1>2, <1>3

LEMMA CrossCheckInvalidatedType ==
    ASSUME NEW ts, TaskTyped(ts)
    PROVE  TaskTyped(CrossCheckInvalidated(ts))
  <1> DEFINE open == RoundsToInvalidate(ts)
             running == {k \in open : ts.round[k].state = "in_progress"}
             gone == {ts.round[k].secondary : k \in running}
             rs   == [k \in RoundNo |-> IF k \in open
                        THEN [ts.round[k] EXCEPT !.state = "invalidated"]
                        ELSE ts.round[k]]
             dropped == AbandonDrafts(ts, gone)
             kept == [dropped EXCEPT !.round = rs]
  <1>1. TaskTyped(dropped)
    BY AbandonDraftsType
  <1>2. \A r \in RoundRow : /\ [r EXCEPT !.state = "invalidated"] \in RoundRow
                            /\ [r EXCEPT !.state = "invalidated"].state
                                 \notin OpenState
    BY DEF RoundRow, RoundState, OpenState
  <1>3. rs \in [RoundNo -> RoundRow]
    BY <1>2 DEF TaskTyped, TaskRow
  <1>4. \A k \in RoundNo : rs[k].state \in OpenState =>
            rs[k].original \in VersionNo /\ rs[k].secondary \in VersionNo
    BY <1>2 DEF TaskTyped, TaskRow, OpenRounds
  <1>5. CrossCheckInvalidated(ts) =
           IF running # {} THEN Unassign(kept) ELSE kept
    BY DEF CrossCheckInvalidated
  <1> HIDE DEF dropped, rs, running
  <1>6. TaskTyped(kept)
    BY <1>1, <1>3, <1>4, NewRounds
  <1> HIDE DEF kept
  <1>7. QED
    BY <1>5, <1>6, UnassignType

LEMMA CrossCheckInvalidatedKeeps ==
    ASSUME NEW ts, TaskTyped(ts)
    PROVE  /\ CrossCheckInvalidated(ts).versions = ts.versions
           /\ CrossCheckInvalidated(ts).current = ts.current
           /\ CrossCheckInvalidated(ts).status = ts.status
  BY DEF CrossCheckInvalidated, Unassign, AbandonDrafts, TaskTyped, TaskRow

LEMMA WithdrawnType ==
    ASSUME NEW ts, TaskTyped(ts), NEW a \in ActionNo
    PROVE  /\ TaskTyped(Withdrawn(ts, a))
           /\ Withdrawn(ts, a).versions = ts.versions
  <1> DEFINE c  == ts.current
             v  == [ts.version[c] EXCEPT !.lifecycle = "revoked",
                                         !.revokedBy = a]
             vs == [ts.version EXCEPT ![c] = v]
  <1>1. \A r \in VersionRow :
          [r EXCEPT !.lifecycle = "revoked", !.revokedBy = a] \in VersionRow
    BY DEF VersionRow, Lifecycle
  <1>2. vs \in [VersionNo -> VersionRow]
    BY <1>1 DEF TaskTyped, TaskRow
  <1>3. "pending" \in Status
    BY DEF Status
  <1>4. Withdrawn(ts, a) = [ts EXCEPT !.version = vs, !.status = "pending",
                              !.current = None, !.reserved = NoUser]
    BY DEF Withdrawn
  <1> HIDE DEF vs
  <1>5. QED
    BY <1>2, <1>3, <1>4 DEF TaskTyped, TaskRow, OpenRounds

LEMMA RevokedType ==
    ASSUME NEW ts, TaskTyped(ts), NEW author, NEW conflicts \in BOOLEAN,
           CanRevoke(ts, author, conflicts), NEW a \in ActionNo, NEW block
    PROVE  TaskTyped(Revoked(ts, author, a, block))
  <1> DEFINE kept    == CrossCheckInvalidated(ts)
             cleared == DraftReleased(kept)
             clean   == CloneCleanDraft(Withdrawn(cleared, a))
             barred  == [clean.blockedBy EXCEPT ![author] = a]
  <1>1. TaskTyped(kept)
    BY CrossCheckInvalidatedType
  <1>2. TaskTyped(cleared)
    BY <1>1, DraftReleasedType DEF CanRevoke
  <1>3. RoomForVersion(Withdrawn(cleared, a))
    <2>1. kept.versions = ts.versions
      BY CrossCheckInvalidatedKeeps
    <2>2. cleared.versions = kept.versions
      BY <1>1, DraftReleasedKeeps
    <2>3. Withdrawn(cleared, a).versions = cleared.versions
      BY <1>2, WithdrawnType
    <2>4. QED
      BY <2>1, <2>2, <2>3 DEF CanRevoke, RoomForVersion
  <1>4. TaskTyped(clean)
    BY <1>2, <1>3, WithdrawnType, CloneCleanDraftType
  <1>5. Revoked(ts, author, a, block) =
          IF block /\ author # NoUser
          THEN [clean EXCEPT !.blockedBy = barred] ELSE clean
    BY DEF Revoked
  <1> HIDE DEF clean
  <1>6. barred \in [User -> {None} \cup ActionNo]
    BY <1>4 DEF TaskTyped, TaskRow
  <1> HIDE DEF barred
  <1>7. QED
    BY <1>4, <1>5, <1>6, NewBars

LEMMA RestoredType ==
    ASSUME NEW ts, TaskTyped(ts), NEW a, NEW author,
           NEW before \in VersionNo, NEW after
    PROVE  TaskTyped(Restored(ts, a, author, before, after))
  <1> DEFINE vs == [n \in VersionNo |->
                      IF n = before THEN Reinstated(ts.version[n])
                      ELSE IF n = after
                      THEN [ts.version[n] EXCEPT !.lifecycle = "abandoned"]
                      ELSE ts.version[n]]
             b  == BarsWithout(ts, a, author)
             st == StatusOfVersion(ts.version[before])
  <1>1. \A v \in VersionRow :
          [v EXCEPT !.lifecycle = "abandoned"] \in VersionRow
    BY DEF VersionRow, Lifecycle
  <1>2. \A v \in VersionRow : Reinstated(v) \in VersionRow
    BY DEF Reinstated, VersionRow, Lifecycle
  <1>4. vs \in [VersionNo -> VersionRow]
    BY <1>1, <1>2 DEF TaskTyped, TaskRow
  <1>5. st \in Status
    BY DEF StatusOfVersion, TaskTyped, TaskRow, VersionRow
  <1>6. b \in [User -> {None} \cup ActionNo]
    BY DEF BarsWithout, TaskTyped, TaskRow
  <1>7. Restored(ts, a, author, before, after) =
          [ts EXCEPT !.version = vs, !.status = st, !.current = before,
                     !.blockedBy = b]
    BY DEF Restored
  <1> HIDE DEF vs, st, b
  <1>8. QED
    BY <1>4, <1>5, <1>6, <1>7 DEF TaskTyped, TaskRow, OpenRounds

LEMMA CloseType ==
    ASSUME NEW ts, TaskTyped(ts), NEW k \in RoundNo, NEW decision \in Decision,
           NEW final \in {None} \cup VersionNo
    PROVE  TaskTyped(Close(ts, k, decision, final))
  <1> DEFINE r  == [ts.round[k] EXCEPT !.state = "adjudicated",
                      !.decision = decision, !.final = final]
             rs == [ts.round EXCEPT ![k] = r]
  <1>0. \A x \in RoundRow :
          LET y == [x EXCEPT !.state = "adjudicated",
                             !.decision = decision, !.final = final]
          IN  y \in RoundRow /\ y.state \notin OpenState
    BY DEF RoundRow, RoundState, OpenState
  <1>1. r \in RoundRow /\ r.state \notin OpenState
    BY <1>0 DEF TaskTyped, TaskRow
  <1>2. rs \in [RoundNo -> RoundRow]
    BY <1>1 DEF TaskTyped, TaskRow
  <1>3. \A j \in RoundNo : rs[j].state \in OpenState =>
            rs[j].original \in VersionNo /\ rs[j].secondary \in VersionNo
    BY <1>1 DEF TaskTyped, TaskRow, OpenRounds
  <1>4. Close(ts, k, decision, final) = [ts EXCEPT !.round = rs]
    BY DEF Close
  <1> HIDE DEF rs
  <1>5. QED
    BY <1>2, <1>3, <1>4, NewRounds

LEMMA ReplacedType ==
    ASSUME NEW ts, TaskTyped(ts), NEW final \in VersionNo, NEW s \in Status
    PROVE  TaskTyped(Replaced(ts, final, s))
  <1> DEFINE vs == [ts.version EXCEPT ![ts.current] =
                      [@ EXCEPT !.lifecycle = "superseded"]]
  <1>0. \A v \in VersionRow :
          [v EXCEPT !.lifecycle = "superseded"] \in VersionRow
    BY DEF VersionRow, Lifecycle
  <1>1. vs \in [VersionNo -> VersionRow]
    BY <1>0 DEF TaskTyped, TaskRow
  <1>2. Replaced(ts, final, s) =
          [ts EXCEPT !.version = vs, !.status = s, !.current = final]
    BY DEF Replaced
  <1> HIDE DEF vs
  <1>3. QED
    BY <1>1, <1>2 DEF TaskTyped, TaskRow, OpenRounds

LEMMA PublishType ==
    ASSUME NEW ts, TaskTyped(ts), NEW n
    PROVE  TaskTyped(Publish(ts, n))
  <1> DEFINE vs == [ts.version EXCEPT ![n] =
                      [@ EXCEPT !.lifecycle = "published"]]
  <1>0. \A v \in VersionRow :
          [v EXCEPT !.lifecycle = "published"] \in VersionRow
    BY DEF VersionRow, Lifecycle
  <1>1. vs \in [VersionNo -> VersionRow]
    BY <1>0 DEF TaskTyped, TaskRow
  <1>2. Publish(ts, n) = [ts EXCEPT !.version = vs]
    BY DEF Publish
  <1> HIDE DEF vs
  <1>3. QED
    BY <1>1, <1>2, NewVersions

LEMMA AdminEditType ==
    ASSUME NEW ts, TaskTyped(ts), NEW base \in VersionNo,
           NEW outcome \in Outcome
    PROVE  AdminEdit(ts, base, outcome) \in VersionRow
  BY DEF AdminEdit, NoVersionRow, TaskTyped, TaskRow, VersionRow, Lifecycle,
         Purpose, Status

LEMMA DecidedType ==
    ASSUME NEW ts, TaskTyped(ts), NEW k \in RoundNo, CanDecide(ts, k),
           NEW decision \in Decision, NEW base \in VersionNo,
           NEW outcome \in Outcome,
           decision = "edited" => RoomForVersion(ts)
    PROVE  TaskTyped(Decided(ts, k, decision, base, outcome))
  <1> DEFINE second == ts.round[k].secondary
             edit   == ts.versions + 1
             withEdit == AddVersion(ts, AdminEdit(ts, base, outcome))
  <1>1. second \in VersionNo /\ ts.current \in VersionNo
    BY DEF CanDecide, TaskTyped, OpenRounds, OpenState
  <1>2. CASE decision = "original"
    BY <1>1, <1>2, CloseType DEF Decided
  <1>3. CASE decision = "secondary"
    <2>1. ts.version[second].target \in Status
      BY <1>1 DEF TaskTyped, TaskRow, VersionRow
    <2>2. TaskTyped(Replaced(ts, second, ts.version[second].target))
      BY <1>1, <2>1, ReplacedType
    <2>3. TaskTyped(Publish(Replaced(ts, second, ts.version[second].target),
                            second))
      BY <2>2, PublishType
    <2>4. QED
      BY <1>1, <1>3, <2>3, CloseType DEF Decided
  <1>4. CASE decision = "edited"
    <2>1. TaskTyped(withEdit)
      BY <1>4, AdminEditType, AddVersionType
    <2>2. edit \in VersionNo /\ outcome \in Status
      BY <1>4, NextVersionNo DEF Status
    <2>3. TaskTyped(Replaced(withEdit, edit, outcome))
      BY <2>1, <2>2, ReplacedType
    <2>4. QED
      BY <1>4, <2>2, <2>3, CloseType DEF Decided
  <1>5. QED
    BY <1>2, <1>3, <1>4 DEF Decision

LEMMA CancelledType ==
    ASSUME NEW ts, TaskTyped(ts), NEW k \in RoundNo, CanCancel(ts, k)
    PROVE  TaskTyped(Cancelled(ts, k))
  <1> DEFINE closed == SetRoundState(ts, k, "cancelled")
  <1>1. k \in OpenRounds(ts) /\ "cancelled" \in RoundState
    BY DEF CanCancel, OpenRounds, OpenState, RoundState
  <1>2. TaskTyped(closed)
    BY <1>1, SetRoundStateType
  <1>3. TaskTyped(AbandonDrafts(closed, {ts.round[k].secondary}))
    BY <1>2, AbandonDraftsType
  <1>4. QED
    BY <1>3, UnassignType DEF Cancelled

LEMMA LetGoType ==
    ASSUME NEW ts, TaskTyped(ts), NEW u, CanOffboard(ts, u)
    PROVE  TaskTyped(LetGo(ts, u))
  <1> DEFINE free == IF ts.assignment.user # u THEN ts
                     ELSE IF NeedsCleanDraft(ts)
                     THEN CloneCleanDraft(DraftReleased(ts))
                     ELSE DraftReleased(ts)
  <1>1. TaskTyped(free)
    <2>1. CASE ts.assignment.user # u
      BY <2>1
    <2>2. CASE ts.assignment.user = u
      <3>1. TaskTyped(DraftReleased(ts))
        BY <2>2, DraftReleasedType DEF CanOffboard
      <3>2. CASE NeedsCleanDraft(ts)
        <4>1. RoomForVersion(DraftReleased(ts))
          BY <2>2, <3>2, DraftReleasedKeeps DEF CanOffboard, RoomForVersion
        <4>2. QED
          BY <2>2, <3>1, <3>2, <4>1, CloneCleanDraftType
      <3>3. QED
        BY <2>2, <3>1, <3>2
    <2>3. QED
      BY <2>1, <2>2
  <1>2. LetGo(ts, u) = [free EXCEPT !.reserved = ReservationWithout(free, u)]
    BY DEF LetGo
  <1> HIDE DEF free
  <1>3. ReservationWithout(free, u) \in User \cup {NoUser}
    BY <1>1 DEF ReservationWithout, TaskTyped, TaskRow
  <1>4. QED
    BY <1>1, <1>2, <1>3, NewReservation

LEMMA OffboardedType ==
    ASSUME NEW ts, TaskTyped(ts), NEW u, CanOffboard(ts, u),
           NEW a \in ActionNo
    PROVE  TaskTyped(Offboarded(ts, u, a))
  <1> DEFINE free == LetGo(ts, u)
  <1>1. TaskTyped(free)
    BY LetGoType
  <1>2. CASE PublishedBy(free, u)
    <2>1. TaskTyped(CrossCheckInvalidated(free))
      BY <1>1, CrossCheckInvalidatedType
    <2>2. CanRevoke(CrossCheckInvalidated(free), u, FALSE)
      BY <1>2 DEF CanOffboard
    <2>3. TaskTyped(Revoked(CrossCheckInvalidated(free), u, a, TRUE))
      BY <2>1, <2>2, RevokedType
    <2>4. QED
      BY <1>2, <2>3 DEF Offboarded
  <1>3. CASE ~ PublishedBy(free, u)
    BY <1>1, <1>3 DEF Offboarded
  <1>4. QED
    BY <1>2, <1>3

-----------------------------------------------------------------------------
(* Initial states                                                          *)

LEMMA TaskWithType ==
    ASSUME NEW vr \in [VersionNo -> VersionRow], NEW b \in VersionNo,
           NEW r \in User \cup {NoUser}, NEW p \in SUBSET User
    PROVE  TaskTyped(TaskWith(2, vr, b, r, p))
  <1>1. 2 \in VersionNo
    BY BoundsAssumption DEF VersionNo
  <1>2. NoRoundRow \in RoundRow /\ NoRoundRow.state \notin OpenState
    BY DEF NoRoundRow, RoundRow, OpenState
  <1>3. [k \in RoundNo |-> NoRoundRow] \in [RoundNo -> RoundRow]
    BY <1>2
  <1>4. [u \in User |-> None] \in [User -> {None} \cup ActionNo]
    OBVIOUS
  <1>5. "pending" \in Status /\ None = 0
    BY DEF Status, None
  <1>6. QED
    BY <1>1, <1>2, <1>3, <1>4, <1>5, NoAssignmentType
       DEF TaskWith, TaskTyped, TaskRow, OpenRounds

LEMMA StartingRowsType ==
    /\ NoVersionRow \in VersionRow
    /\ BaselineRow \in VersionRow
    /\ \A n \in VersionNo : [NoVersionRow EXCEPT !.lifecycle = "draft",
                                                 !.base = n] \in VersionRow
  BY DEF NoVersionRow, BaselineRow, VersionRow, Lifecycle, Purpose, Status,
         None

LEMMA LegacyVersionType ==
    ASSUME NEW last \in LastEdit
    PROVE  /\ [LegacyVersion(last) EXCEPT !.lifecycle = "draft"] \in VersionRow
           /\ \A u \in User \cup {NoUser}, o \in Outcome :
                [LegacyVersion(last) EXCEPT !.lifecycle = "published",
                   !.target = o, !.submitter = u] \in VersionRow
  <1>1. 2 \in VersionNo
    BY BoundsAssumption DEF VersionNo
  <1>2. /\ (last.touched \/ last.editor # NoUser) \in BOOLEAN
        /\ last.editor \in User \cup {NoUser}
    BY DEF LastEdit
  <1>3. LegacyVersion(last) \in VersionRow
    BY <1>1, <1>2
       DEF LegacyVersion, NoVersionRow, VersionRow, Lifecycle, Purpose, Status,
           None
  <1> HIDE DEF LegacyVersion
  <1>4. QED
    BY <1>3 DEF VersionRow, Lifecycle, Status

LEMMA ImportedTaskType ==
    ASSUME NEW row \in VersionRow, NEW r \in User \cup {NoUser},
           NEW p \in SUBSET User
    PROVE  TaskTyped(ImportedTask(row, r, p))
  <1>1. 2 \in VersionNo
    BY BoundsAssumption DEF VersionNo
  <1>2. [n \in VersionNo |-> CASE n = 1 -> row
                               [] n = 2 -> BaselineRow
                               [] OTHER -> NoVersionRow]
          \in [VersionNo -> VersionRow]
    BY StartingRowsType
  <1>3. QED
    BY <1>1, <1>2, TaskWithType DEF ImportedTask

LEMMA StartingTasksForms ==
    ASSUME NEW ts \in StartingTasks
    PROVE  \/ ts = PreprocessedTask
           \/ \E last \in LastEdit :
                ts = ImportedDraft(last, KnownAuthors(NoUser, last.editor))
           \/ \E h \in User, last \in LastEdit :
                ts = ImportedAssigned(h, last, KnownAuthors(h, last.editor))
           \/ \E u \in User \cup {NoUser}, last \in LastEdit, o \in Outcome :
                ts = ImportedResult(u, last, o, KnownAuthors(u, last.editor))
  <1>1. TouchedEdit \subseteq LastEdit
    BY DEF TouchedEdit
  <1>2. QED
    BY <1>1 DEF StartingTasks

LEMMA StartingTasksType == \A ts \in StartingTasks : TaskTyped(ts)
  <1>1. 1 \in VersionNo /\ 2 \in VersionNo
    BY BoundsAssumption DEF VersionNo
  <1>2. TaskTyped(PreprocessedTask)
    BY <1>1, StartingRowsType, TaskWithType DEF PreprocessedTask
  <1>3. \A last \in LastEdit : last.editor \in User \cup {NoUser}
    BY DEF LastEdit
  <1>4. ASSUME NEW last \in LastEdit, NEW p \in SUBSET User
        PROVE  TaskTyped(ImportedDraft(last, p))
    BY <1>3, LegacyVersionType, ImportedTaskType DEF ImportedDraft
  <1>5. ASSUME NEW h \in User, NEW last \in LastEdit, NEW p \in SUBSET User
        PROVE  TaskTyped(ImportedAssigned(h, last, p))
    <2> DEFINE a == [user |-> h, version |-> 1, mode |-> "annotation",
                     round |-> None]
               id == ImportedDraft(last, p)
    <2>1. a \in AssignmentRow
      BY <1>1 DEF AssignmentRow, Mode
    <2>2. TaskTyped([id EXCEPT !.reserved = NoUser])
      BY <1>4, NewReservation
    <2>3. ImportedAssigned(h, last, p) =
            [[id EXCEPT !.reserved = NoUser] EXCEPT !.assignment = a]
      BY <1>4 DEF ImportedAssigned, TaskTyped, TaskRow
    <2> HIDE DEF a, id
    <2>4. TaskTyped([[id EXCEPT !.reserved = NoUser] EXCEPT !.assignment = a])
      BY <2>1, <2>2, NewAssignment
    <2>5. QED
      BY <2>3, <2>4
  <1>6. ASSUME NEW u \in User \cup {NoUser}, NEW last \in LastEdit,
               NEW o \in Outcome, NEW p \in SUBSET User
        PROVE  TaskTyped(ImportedResult(u, last, o, p))
    <2> DEFINE row == [LegacyVersion(last) EXCEPT !.lifecycle = "published",
                         !.target = o, !.submitter = u]
    <2>1. row \in VersionRow
      BY LegacyVersionType
    <2> HIDE DEF row
    <2>2. TaskTyped(ImportedTask(row, NoUser, p))
      BY <2>1, ImportedTaskType
    <2>3. o \in Status
      BY DEF Status
    <2>4. QED
      BY <1>1, <2>2, <2>3, NewPointer DEF ImportedResult, row
  <1>7. \A u, v : KnownAuthors(u, v) \in SUBSET User
    BY DEF KnownAuthors
  <1> SUFFICES ASSUME NEW ts \in StartingTasks PROVE TaskTyped(ts)
    OBVIOUS
  <1>8. CASE ts = PreprocessedTask
    BY <1>2, <1>8
  <1>9. CASE \E last \in LastEdit :
               ts = ImportedDraft(last, KnownAuthors(NoUser, last.editor))
    BY <1>4, <1>7, <1>9
  <1>10. CASE \E h \in User, last \in LastEdit :
                ts = ImportedAssigned(h, last, KnownAuthors(h, last.editor))
    BY <1>5, <1>7, <1>10
  <1>11. CASE \E u \in User \cup {NoUser}, last \in LastEdit, o \in Outcome :
                ts = ImportedResult(u, last, o, KnownAuthors(u, last.editor))
    BY <1>6, <1>7, <1>11
  <1>12. QED
    BY <1>8, <1>9, <1>10, <1>11, StartingTasksForms

LEMMA NoSubmissionType == NoSubmission \in SubmissionRow
  BY StoreAssumption DEF NoSubmission, SubmissionRow, Outcome

LEMMA NoActionRowType == NoActionRow \in ActionRow
  BY DEF NoActionRow, NoItems, ActionRow

LEMMA InitTyped == Init => TypeOK
  <1> SUFFICES ASSUME Init PROVE TypeOK
    OBVIOUS
  <1>1. \A t \in Task : TaskTyped(task[t])
    BY StartingTasksType DEF Init
  <1>2. task \in [Task -> TaskRow]
    BY StartingTasksType DEF Init, TaskTyped
  <1>3. submission \in [User -> SubmissionRow]
    BY NoSubmissionType DEF Init
  <1>4. action \in [ActionNo -> ActionRow]
    BY NoActionRowType DEF Init
  <1>5. annotator \in [User -> {"active", "deactivated"}] /\ crossCheck \in BOOLEAN
    BY DEF Init
  <1>6. actions \in 0 .. MaxActions
    BY BoundsAssumption DEF Init
  <1>7. QED
    BY <1>1, <1>2, <1>3, <1>4, <1>5, <1>6 DEF TypeOK

-----------------------------------------------------------------------------
(* Steps                                                                   *)

\* A step that replaces one task's rows.
LEMMA SetTaskTyped ==
    ASSUME TypeOK, NEW t \in Task, NEW ts, TaskTyped(ts), SetTask(t, ts)
    PROVE  /\ task' \in [Task -> TaskRow]
           /\ \A x \in Task : TaskTyped(task'[x])
  BY DEF TypeOK, SetTask, TaskTyped

LEMMA UnchangedButTaskTyped ==
    ASSUME TypeOK, UnchangedButTask
    PROVE  /\ annotator' \in [User -> {"active", "deactivated"}]
           /\ crossCheck' \in BOOLEAN
           /\ submission' \in [User -> SubmissionRow]
           /\ actions' \in 0 .. MaxActions
           /\ action' \in [ActionNo -> ActionRow]
  BY DEF TypeOK, UnchangedButTask

\* Most transactions replace the rows of one task and nothing else.
LEMMA OneTaskStepTyped ==
    ASSUME TypeOK, NEW t \in Task, NEW ts, TaskTyped(ts), SetTask(t, ts),
           UnchangedButTask
    PROVE  TypeOK'
  <1>1. /\ task' \in [Task -> TaskRow]
        /\ \A x \in Task : TaskTyped(task'[x])
    BY SetTaskTyped
  <1>2. QED
    BY <1>1, UnchangedButTaskTyped DEF TypeOK

LEMMA RecordTyped ==
    ASSUME TypeOK, actions < MaxActions,
           NEW type \in {"revoke_annotations", "deactivate_annotator"},
           NEW u \in User \cup {NoUser},
           NEW before \in [Task -> {None} \cup VersionNo],
           NEW after \in [Task -> {None} \cup VersionNo],
           Record(type, u, before, after)
    PROVE  /\ actions' \in 0 .. MaxActions
           /\ action' \in [ActionNo -> ActionRow]
           /\ actions + 1 \in ActionNo
  <1>1. actions + 1 \in ActionNo /\ actions + 1 \in 0 .. MaxActions
    BY BoundsAssumption DEF TypeOK, ActionNo
  <1>2. [type |-> type, annotator |-> u, before |-> before, after |-> after]
          \in ActionRow
    BY DEF ActionRow
  <1>3. QED
    BY <1>1, <1>2 DEF TypeOK, Record

LEMMA AnnotatorStepTyped ==
    ASSUME TypeOK, NEW u \in User, AnnotatorStep(u)
    PROVE  TypeOK'
  <1>0. \A t \in Task : TaskTyped(task[t])
    BY DEF TypeOK
  <1>1. ASSUME NEW t \in Task, NEW d \in VersionNo, NEW began \in 0 .. MaxActions,
               Claim(u, t, d, began)
        PROVE  TypeOK'
    <2>1. began \in {None} \cup ActionNo
      BY BoundsAssumption DEF None, ActionNo
    <2>2. TaskTyped(Claimed(task[t], u, d, began))
      BY <1>0, <2>1, ClaimedType
    <2>3. QED
      BY <1>1, <2>2, OneTaskStepTyped DEF Claim
  <1>2. ASSUME NEW t \in Task, ClaimCrossCheck(u, t)
        PROVE  TypeOK'
    <2>1. TaskTyped(CrossCheckStarted(task[t], u))
      BY <1>0, <1>2, CrossCheckStartedType DEF ClaimCrossCheck
    <2>2. QED
      BY <1>2, <2>1, OneTaskStepTyped DEF ClaimCrossCheck
  <1>3. ASSUME NEW t \in Task, SaveDraft(u, t)
        PROVE  TypeOK'
    <2>1. TaskTyped(Saved(task[t], u))
      BY <1>0, SavedType
    <2>2. QED
      BY <1>3, <2>1, OneTaskStepTyped DEF SaveDraft
  <1>4. ASSUME NEW t \in Task, NEW outcome \in Outcome, Complete(u, t, outcome)
        PROVE  TypeOK'
    <2>1. TaskTyped(Completed(task[t], u, outcome))
      BY <1>0, CompletedType
    <2>2. QED
      BY <1>4, <2>1, OneTaskStepTyped DEF Complete
  <1>5. ASSUME NEW t \in Task, Abandon(u, t)
        PROVE  TypeOK'
    <2>1. TaskTyped(AbandonedBy(task[t]))
      BY <1>0, <1>5, AbandonedByType DEF Abandon
    <2>2. QED
      BY <1>5, <2>1, OneTaskStepTyped DEF Abandon
  <1>6. ASSUME NEW t \in Task, Reopen(u, t)
        PROVE  TypeOK'
    <2>1. TaskTyped(Reopened(task[t], u))
      BY <1>0, <1>6, ReopenedType DEF Reopen
    <2>2. QED
      BY <1>6, <2>1, OneTaskStepTyped DEF Reopen
  <1>7. ASSUME NEW t \in Task, NEW outcome \in Outcome,
               NEW needsReview \in BOOLEAN,
               BeginSubmit(u, t, outcome, needsReview)
        PROVE  TypeOK'
    <2> DEFINE read == SubmitSnapshot(task[t])
               s == [open |-> TRUE, task |-> t, version |-> read.version,
                     round |-> read.round, original |-> read.original,
                     originalInput |-> read.originalInput,
                     secondaryInput |-> read.secondaryInput,
                     outcome |-> outcome, needsReview |-> needsReview]
    <2>1. /\ read.version \in VersionNo
          /\ read.round \in RoundNo
          /\ read.original \in VersionNo
          /\ read.originalInput \in Nat
          /\ read.secondaryInput \in Nat
      BY <1>0, <1>7, SnapshotType DEF BeginSubmit
    <2>2. submission' = [submission EXCEPT ![u] = s]
      BY <1>7 DEF BeginSubmit
    <2> HIDE DEF read
    <2>3. s \in SubmissionRow
      BY <2>1 DEF SubmissionRow
    <2> HIDE DEF s
    <2>4. submission' \in [User -> SubmissionRow]
      BY <2>2, <2>3 DEF TypeOK
    <2>5. UNCHANGED <<task, annotator, crossCheck, actions, action>>
      BY <1>7 DEF BeginSubmit
    <2>6. QED
      BY <2>4, <2>5 DEF TypeOK
  <1>8. ASSUME CommitSubmit(u)
        PROVE  TypeOK'
    <2> DEFINE s == submission[u]
    <2>1. s \in SubmissionRow
      BY DEF TypeOK
    <2>2. TaskTyped(Frozen(task[s.task], u, s, s.outcome, s.needsReview))
      BY <1>0, <1>8, <2>1, FrozenType DEF CommitSubmit, SubmissionRow
    <2>3. /\ task' \in [Task -> TaskRow]
          /\ \A x \in Task : TaskTyped(task'[x])
      BY <1>8, <2>1, <2>2, SetTaskTyped DEF CommitSubmit, SubmissionRow
    <2>4. submission' \in [User -> SubmissionRow]
      BY <1>8, NoSubmissionType DEF CommitSubmit, TypeOK
    <2>5. QED
      BY <1>8, <2>3, <2>4 DEF CommitSubmit, TypeOK
  <1>9. ASSUME FailSubmit(u)
        PROVE  TypeOK'
    BY <1>9, NoSubmissionType DEF FailSubmit, TypeOK
  <1>10. QED
    BY <1>1, <1>2, <1>3, <1>4, <1>5, <1>6, <1>7, <1>8, <1>9 DEF AnnotatorStep

LEMMA OperatorStepTyped ==
    ASSUME TypeOK, OperatorStep
    PROVE  TypeOK'
  <1>0. \A t \in Task : TaskTyped(task[t])
    BY DEF TypeOK
  <1>1. ASSUME NEW t \in Task, Refresh(t)
        PROVE  TypeOK'
    <2>1. TaskTyped(Refreshed(task[t]))
      BY <1>0, RefreshedType
    <2>2. QED
      BY <1>1, <2>1, OneTaskStepTyped DEF Refresh
  <1>2. ASSUME NEW u \in User, NEW t \in Task, ReleaseByCli(u, t)
        PROVE  TypeOK'
    <2>1. TaskTyped(AbandonedBy(task[t]))
      BY <1>0, <1>2, AbandonedByType DEF ReleaseByCli
    <2>2. QED
      BY <1>2, <2>1, OneTaskStepTyped DEF ReleaseByCli
  <1>3. QED
    BY <1>1, <1>2 DEF OperatorStep

LEMMA RevokeTyped ==
    ASSUME TypeOK, NEW S \in SUBSET Task, NEW author \in User \cup {NoUser},
           NEW block \in BOOLEAN, NEW conflicts \in BOOLEAN,
           Revoke(S, author, block, conflicts)
    PROVE  TypeOK'
  <1> DEFINE a == actions + 1
             row(t) == Revoked(task[t], author, a, block)
             before == [t \in Task |-> IF t \in S THEN task[t].current ELSE None]
             after  == [t \in Task |-> IF t \in S THEN row(t).versions ELSE None]
  <1>0. \A t \in Task : TaskTyped(task[t])
    BY DEF TypeOK
  <1>1. a \in ActionNo
    BY BoundsAssumption DEF Revoke, TypeOK, ActionNo
  <1>2. \A t \in S : TaskTyped(row(t))
    BY <1>0, <1>1, RevokedType DEF Revoke
  <1>3. task' = [t \in Task |-> IF t \in S THEN row(t) ELSE task[t]]
    BY DEF Revoke, SetTasks
  <1>4. Record("revoke_annotations", author, before, after)
    BY DEF Revoke
  <1> HIDE DEF row
  <1>5. /\ task' \in [Task -> TaskRow]
        /\ \A x \in Task : TaskTyped(task'[x])
    BY <1>0, <1>2, <1>3 DEF TaskTyped
  <1>6. before \in [Task -> {None} \cup VersionNo]
    BY <1>0 DEF TaskTyped, TaskRow
  <1>7. after \in [Task -> {None} \cup VersionNo]
    BY <1>2 DEF TaskTyped, TaskRow, None
  <1> HIDE DEF before, after
  <1>8. /\ actions' \in 0 .. MaxActions
        /\ action' \in [ActionNo -> ActionRow]
    BY <1>4, <1>6, <1>7, RecordTyped DEF Revoke
  <1>9. UNCHANGED <<annotator, crossCheck, submission>>
    BY DEF Revoke
  <1>10. QED
    BY <1>5, <1>8, <1>9 DEF TypeOK

LEMMA RestoreTyped ==
    ASSUME TypeOK, NEW S \in SUBSET Task, NEW a \in ActionNo, Restore(S, a)
    PROVE  TypeOK'
  <1> DEFINE r == action[a]
             row(t) == Restored(task[t], a, r.annotator, r.before[t], r.after[t])
  <1>0. \A t \in Task : TaskTyped(task[t])
    BY DEF TypeOK
  <1>1. \A t \in S : r.before[t] \in VersionNo
    BY DEF Restore, TypeOK, ActionRow
  <1>2. \A t \in S : TaskTyped(row(t))
    BY <1>0, <1>1, RestoredType
  <1>3. task' = [t \in Task |-> IF t \in S THEN row(t) ELSE task[t]]
    BY DEF Restore, SetTasks
  <1>4. UnchangedButTask
    BY DEF Restore
  <1> HIDE DEF row
  <1>5. /\ task' \in [Task -> TaskRow]
        /\ \A x \in Task : TaskTyped(task'[x])
    BY <1>0, <1>2, <1>3 DEF TaskTyped
  <1>6. QED
    BY <1>4, <1>5, UnchangedButTaskTyped DEF TypeOK

LEMMA DeactivateTyped ==
    ASSUME TypeOK, NEW u \in User, Deactivate(u)
    PROVE  TypeOK'
  <1> DEFINE a == actions + 1
             row(t) == Offboarded(task[t], u, a)
             withdrawn == {t \in Task : PublishedBy(LetGo(task[t], u), u)}
             before == [t \in Task |->
                          IF t \in withdrawn THEN task[t].current ELSE None]
             after  == [t \in Task |->
                          IF t \in withdrawn THEN row(t).versions ELSE None]
  <1>0. \A t \in Task : TaskTyped(task[t])
    BY DEF TypeOK
  <1>1. a \in ActionNo
    BY BoundsAssumption DEF Deactivate, TypeOK, ActionNo
  <1>2. \A t \in Task : TaskTyped(row(t))
    BY <1>0, <1>1, OffboardedType DEF Deactivate
  <1>3. task' = [t \in Task |-> row(t)]
    BY DEF Deactivate, SetTasks
  <1>4. Record("deactivate_annotator", u, before, after)
    BY DEF Deactivate
  <1> HIDE DEF row, withdrawn
  <1>5. /\ task' \in [Task -> TaskRow]
        /\ \A x \in Task : TaskTyped(task'[x])
    BY <1>2, <1>3 DEF TaskTyped
  <1>6. before \in [Task -> {None} \cup VersionNo]
    BY <1>0 DEF TaskTyped, TaskRow
  <1>7. after \in [Task -> {None} \cup VersionNo]
    BY <1>2 DEF TaskTyped, TaskRow, None
  <1> HIDE DEF before, after
  <1>8. /\ actions' \in 0 .. MaxActions
        /\ action' \in [ActionNo -> ActionRow]
    BY <1>4, <1>6, <1>7, RecordTyped DEF Deactivate
  <1>9. /\ annotator' \in [User -> {"active", "deactivated"}]
        /\ UNCHANGED <<crossCheck, submission>>
    BY DEF Deactivate, TypeOK
  <1>10. QED
    BY <1>5, <1>8, <1>9 DEF TypeOK

LEMMA AdminStepTyped ==
    ASSUME TypeOK, AdminStep
    PROVE  TypeOK'
  <1>0. \A t \in Task : TaskTyped(task[t])
    BY DEF TypeOK
  <1>1. ASSUME UpdateSettings
        PROVE  TypeOK'
    BY <1>1 DEF UpdateSettings, TypeOK
  <1>2. ASSUME NEW t \in Task, ReleaseAssignment(t)
        PROVE  TypeOK'
    <2>1. TaskTyped(Released(task[t]))
      BY <1>0, <1>2, ReleasedType DEF ReleaseAssignment
    <2>2. QED
      BY <1>2, <2>1, OneTaskStepTyped DEF ReleaseAssignment
  <1>3. ASSUME NEW t \in Task, NEW k \in RoundNo, NEW decision \in Decision,
               NEW base \in VersionNo, NEW outcome \in Outcome,
               Decide(t, k, decision, base, outcome)
        PROVE  TypeOK'
    <2>1. TaskTyped(Decided(task[t], k, decision, base, outcome))
      BY <1>0, <1>3, DecidedType DEF Decide
    <2>2. QED
      BY <1>3, <2>1, OneTaskStepTyped DEF Decide
  <1>4. ASSUME NEW t \in Task, NEW k \in RoundNo, Cancel(t, k)
        PROVE  TypeOK'
    <2>1. TaskTyped(Cancelled(task[t], k))
      BY <1>0, <1>4, CancelledType DEF Cancel
    <2>2. QED
      BY <1>4, <2>1, OneTaskStepTyped DEF Cancel
  <1>5. QED
    BY <1>1, <1>2, <1>3, <1>4, RevokeTyped, RestoreTyped, DeactivateTyped
       DEF AdminStep

\* Every reachable state of the store is well typed, whatever the numbers of
\* tasks, annotators, versions, rounds and admin actions.
THEOREM TypeCorrect == Spec => []TypeOK
  <1>1. Init => TypeOK
    BY InitTyped
  <1>2. ASSUME TypeOK, [Next]_vars
        PROVE  TypeOK'
    <2>1. CASE UNCHANGED vars
      BY <1>2, <2>1 DEF vars, TypeOK
    <2>2. CASE Next
      BY <1>2, <2>2, AnnotatorStepTyped, OperatorStepTyped, AdminStepTyped
         DEF Next
    <2>3. QED
      BY <1>2, <2>1, <2>2
  <1>3. QED
    BY <1>1, <1>2, PTL DEF Spec

-----------------------------------------------------------------------------
(* Updates that only throw open work away                                  *)

Discards(ts, tt) ==
    /\ tt.status = ts.status /\ tt.current = ts.current
    /\ tt.versions = ts.versions
    /\ \A n \in VersionNo :
         /\ tt.version[n].target = ts.version[n].target
         /\ \/ tt.version[n].lifecycle = ts.version[n].lifecycle
            \/ /\ ts.version[n].lifecycle = "draft"
               /\ tt.version[n].lifecycle = "abandoned"
    /\ \A k \in RoundNo :
         tt.round[k].state \in OpenState =>
           /\ tt.round[k].state = ts.round[k].state
           /\ tt.round[k].secondary = ts.round[k].secondary

LEMMA DiscardsTrans ==
    ASSUME NEW ts, NEW tt, NEW tu, Discards(ts, tt), Discards(tt, tu)
    PROVE  Discards(ts, tu)
  BY DEF Discards

LEMMA DiscardsKeeps ==
    ASSUME NEW ts, NEW tt, TaskTyped(ts), TaskTyped(tt), CorpusInvOf(ts),
           Discards(ts, tt), ~ Assigned(tt)
    PROVE  CorpusInvOf(tt)
  <1>1. CorpusPointerOf(tt)
    <2>1. VersionsIn(tt, {"published"}) = VersionsIn(ts, {"published"})
      BY DEF Discards, VersionsIn
    <2>2. ts.current \in {None} \cup VersionNo
      BY DEF TaskTyped, TaskRow
    <2>3. tt.current # None => tt.version[tt.current].target = tt.status
      BY <2>2 DEF Discards, CorpusInvOf, CorpusPointerOf
    <2>4. QED
      BY <2>1, <2>3 DEF Discards, CorpusInvOf, CorpusPointerOf
  <1>2. \A n \in VersionNo : n > tt.versions => tt.version[n].lifecycle = "none"
    BY DEF Discards, CorpusInvOf
  <1>3. \A n \in VersionsIn(tt, {"revoked", "cross_check_submitted"}) :
          tt.version[n].target \in Outcome
    BY DEF Discards, CorpusInvOf, VersionsIn
  <1>4. \A j, k \in OpenRounds(tt) : j = k
    BY DEF Discards, CorpusInvOf, OpenRounds
  <1>5. \A k \in RoundNo : tt.round[k].state = "awaiting_review" =>
          tt.version[tt.round[k].secondary].lifecycle = "cross_check_submitted"
    BY DEF Discards, CorpusInvOf, OpenState, TaskTyped, OpenRounds
  <1>6. QED
    BY <1>1, <1>2, <1>3, <1>4, <1>5 DEF CorpusInvOf

LEMMA UnassignDiscards ==
    ASSUME NEW ts, TaskTyped(ts)
    PROVE  Discards(ts, Unassign(ts)) /\ ~ Assigned(Unassign(ts))
  BY DEF Discards, Unassign, Assigned, NoAssignment, TaskTyped, TaskRow

LEMMA AbandonDraftsDiscards ==
    ASSUME NEW ts, TaskTyped(ts), NEW gone
    PROVE  Discards(ts, AbandonDrafts(ts, gone))
  <1> DEFINE tt == AbandonDrafts(ts, gone)
  <1>1. /\ tt.status = ts.status /\ tt.current = ts.current
        /\ tt.versions = ts.versions /\ tt.round = ts.round
        /\ tt.version = [n \in VersionNo |-> IF n \in gone
                           THEN AbandonIfDraft(ts.version[n]) ELSE ts.version[n]]
    BY DEF AbandonDrafts, TaskTyped, TaskRow
  <1>2. \A v \in VersionRow :
          /\ AbandonIfDraft(v).target = v.target
          /\ AbandonIfDraft(v).lifecycle =
               IF v.lifecycle = "draft" THEN "abandoned" ELSE v.lifecycle
    BY DEF AbandonIfDraft, VersionRow
  <1>3. \A n \in VersionNo : ts.version[n] \in VersionRow
    BY DEF TaskTyped, TaskRow
  <1> HIDE DEF tt
  <1>4. Discards(ts, tt)
    BY <1>1, <1>2, <1>3 DEF Discards
  <1>5. QED
    BY <1>4 DEF tt

LEMMA SetRoundStateDiscards ==
    ASSUME NEW ts, TaskTyped(ts), NEW k \in RoundNo,
           NEW state \in RoundState \ OpenState
    PROVE  Discards(ts, SetRoundState(ts, k, state))
  <1> DEFINE tt == SetRoundState(ts, k, state)
             r  == [ts.round[k] EXCEPT !.state = state]
  <1>1. /\ tt.status = ts.status /\ tt.current = ts.current
        /\ tt.versions = ts.versions /\ tt.version = ts.version
        /\ tt.round = [ts.round EXCEPT ![k] = r]
    BY DEF SetRoundState, TaskTyped, TaskRow
  <1>2. r.state = state /\ ts.round \in [RoundNo -> RoundRow]
    BY DEF TaskTyped, TaskRow, RoundRow
  <1> HIDE DEF tt, r
  <1>3. Discards(ts, tt)
    BY <1>1, <1>2 DEF Discards
  <1>4. QED
    BY <1>3 DEF tt

LEMMA CancelInProgressCrossCheckDiscards ==
    ASSUME NEW ts, TaskTyped(ts), InProgress(ts, ts.assignment.round)
    PROVE  Discards(ts, CancelInProgressCrossCheck(ts))
  <1> DEFINE k == ts.assignment.round
             closed == SetRoundState(ts, k, "cancelled")
  <1>1. k \in OpenRounds(ts) /\ k \in RoundNo
    BY InProgressIsOpen DEF InProgress
  <1>2. "cancelled" \in RoundState \ OpenState
    BY DEF RoundState, OpenState
  <1>3. TaskTyped(closed) /\ Discards(ts, closed)
    BY <1>1, <1>2, SetRoundStateType, SetRoundStateDiscards
  <1>4. Discards(closed, AbandonDrafts(closed, {ts.assignment.version}))
    BY <1>3, AbandonDraftsDiscards
  <1>5. Discards(ts, AbandonDrafts(closed, {ts.assignment.version}))
    BY <1>3, <1>4, DiscardsTrans
  <1>6. QED
    BY <1>5 DEF CancelInProgressCrossCheck

LEMMA DraftReleasedDiscards ==
    ASSUME NEW ts, TaskTyped(ts), CanReleaseDraft(ts)
    PROVE  Discards(ts, DraftReleased(ts)) /\ ~ Assigned(DraftReleased(ts))
  <1> DEFINE rest == IF ts.assignment.mode = "cross_check"
                     THEN CancelInProgressCrossCheck(ts) ELSE ts
             dropped == AbandonDrafts(rest, VersionNo)
  <1>1. Discards(ts, ts)
    BY DEF Discards
  <1>2. TaskTyped(rest) /\ Discards(ts, rest)
    BY <1>1, CancelInProgressCrossCheckType, CancelInProgressCrossCheckDiscards
       DEF CanReleaseDraft
  <1> HIDE DEF rest
  <1>3. TaskTyped(dropped) /\ Discards(rest, dropped)
    BY <1>2, AbandonDraftsType, AbandonDraftsDiscards
  <1>4. Discards(ts, dropped)
    BY <1>2, <1>3, DiscardsTrans
  <1>5. Discards(dropped, Unassign(dropped)) /\ ~ Assigned(Unassign(dropped))
    BY <1>3, UnassignDiscards
  <1>6. Discards(ts, Unassign(dropped))
    BY <1>4, <1>5, DiscardsTrans
  <1>7. QED
    BY <1>5, <1>6 DEF DraftReleased, rest

LEMMA CrossCheckInvalidatedDiscards ==
    ASSUME NEW ts, TaskTyped(ts)
    PROVE  Discards(ts, CrossCheckInvalidated(ts))
  <1> DEFINE open == RoundsToInvalidate(ts)
             running == {k \in open : ts.round[k].state = "in_progress"}
             dropped == AbandonDrafts(ts, {ts.round[k].secondary : k \in running})
             rs == [k \in RoundNo |-> IF k \in open
                      THEN [ts.round[k] EXCEPT !.state = "invalidated"]
                      ELSE ts.round[k]]
             kept == [dropped EXCEPT !.round = rs]
  <1>1. TaskTyped(dropped) /\ Discards(ts, dropped)
    BY AbandonDraftsType, AbandonDraftsDiscards
  <1>2. \A r \in RoundRow :
          [r EXCEPT !.state = "invalidated"].state \notin OpenState
    BY DEF RoundRow, OpenState
  <1>3. \A k \in RoundNo : rs[k].state \in OpenState => rs[k] = ts.round[k]
    BY <1>2 DEF TaskTyped, TaskRow
  <1>4. CrossCheckInvalidated(ts) =
           IF running # {} THEN Unassign(kept) ELSE kept
    BY DEF CrossCheckInvalidated
  <1> HIDE DEF dropped, rs, running
  <1>5. Discards(ts, kept)
    BY <1>1, <1>3 DEF Discards, TaskTyped, TaskRow
  <1>6. Discards(ts, Unassign(kept))
    BY <1>1, <1>3 DEF Discards, Unassign, TaskTyped, TaskRow
  <1> HIDE DEF kept
  <1>7. QED
    BY <1>4, <1>5, <1>6

-----------------------------------------------------------------------------
(* Updates that keep or add drafts                                         *)

\* Nothing CorpusInvOf speaks of has changed, except who holds which draft.
LEMMA SameCorpus ==
    ASSUME NEW ts, NEW tt, CorpusInvOf(ts),
           tt.status = ts.status, tt.current = ts.current,
           tt.versions = ts.versions, tt.version = ts.version,
           tt.round = ts.round,
           Assigned(tt) => tt.assignment.version \in Drafts(ts)
    PROVE  CorpusInvOf(tt)
  BY DEF CorpusInvOf, CorpusPointerOf, VersionsIn, Drafts, OpenRounds

\* Work on versions that changes neither lifecycle nor target.
LEMMA SameLifecycles ==
    ASSUME NEW ts, NEW vs, TaskTyped(ts), CorpusInvOf(ts),
           \A n \in VersionNo : /\ vs[n].lifecycle = ts.version[n].lifecycle
                                /\ vs[n].target = ts.version[n].target
    PROVE  CorpusInvOf([ts EXCEPT !.version = vs])
  <1> DEFINE tt == [ts EXCEPT !.version = vs]
  <1>1. /\ tt.status = ts.status /\ tt.current = ts.current
        /\ tt.versions = ts.versions /\ tt.version = vs
        /\ tt.round = ts.round /\ tt.assignment = ts.assignment
    BY DEF TaskTyped, TaskRow
  <1>2. \A l : VersionsIn(tt, l) = VersionsIn(ts, l)
    BY <1>1 DEF VersionsIn
  <1>3. ts.current \in {None} \cup VersionNo
    BY DEF TaskTyped, TaskRow
  <1>4. \A k \in OpenRounds(ts) : ts.round[k].secondary \in VersionNo
    BY DEF TaskTyped
  <1> HIDE DEF tt
  <1>5. CorpusPointerOf(tt)
    BY <1>1, <1>2, <1>3 DEF CorpusInvOf, CorpusPointerOf
  <1>6. \A k \in RoundNo : tt.round[k].state = "awaiting_review" =>
          tt.version[tt.round[k].secondary].lifecycle = "cross_check_submitted"
    BY <1>1, <1>4 DEF CorpusInvOf, OpenRounds, OpenState
  <1>7. \A n \in VersionsIn(tt, {"revoked", "cross_check_submitted"}) :
          tt.version[n].target \in Outcome
    BY <1>1, <1>2 DEF CorpusInvOf, VersionsIn
  <1>8. CorpusInvOf(tt)
    BY <1>1, <1>2, <1>5, <1>6, <1>7
       DEF CorpusInvOf, Drafts, OpenRounds, Assigned
  <1>9. QED
    BY <1>8 DEF tt

LEMMA AddDraftKeeps ==
    ASSUME NEW ts, TaskTyped(ts), CorpusInvOf(ts), RoomForVersion(ts),
           NEW row \in VersionRow, row.lifecycle = "draft"
    PROVE  /\ CorpusInvOf(AddVersion(ts, row))
           /\ ts.versions + 1 \in Drafts(AddVersion(ts, row))
  <1> DEFINE d  == ts.versions + 1
             tt == AddVersion(ts, row)
  <1>1. d \in VersionNo
    BY NextVersionNo
  <1>2. /\ tt.status = ts.status /\ tt.current = ts.current
        /\ tt.versions = d /\ tt.version = [ts.version EXCEPT ![d] = row]
        /\ tt.round = ts.round /\ tt.assignment = ts.assignment
    BY DEF AddVersion, TaskTyped, TaskRow
  <1>3. /\ \A n \in VersionNo : tt.version[n] = IF n = d THEN row ELSE ts.version[n]
        /\ ts.version[d].lifecycle = "none"
        /\ ts.versions \in Nat
    <2>1. ts.versions \in Nat
      BY BoundsAssumption DEF TaskTyped, TaskRow, VersionNo
    <2>2. d > ts.versions
      BY <2>1
    <2> HIDE DEF d, tt
    <2>3. ts.version[d].lifecycle = "none"
      BY <1>1, <2>2 DEF CorpusInvOf
    <2>4. \A n \in VersionNo : tt.version[n] = IF n = d THEN row ELSE ts.version[n]
      BY <1>2 DEF TaskTyped, TaskRow
    <2>5. QED
      BY <2>1, <2>3, <2>4
  <1>4. ts.current \in {None} \cup VersionNo
    BY DEF TaskTyped, TaskRow
  <1>5. \A k \in OpenRounds(ts) : ts.round[k].secondary \in VersionNo
    BY DEF TaskTyped
  <1> HIDE DEF tt, d
  <1>6. CorpusPointerOf(tt)
    <2>1. VersionsIn(tt, {"published"}) = VersionsIn(ts, {"published"})
      BY <1>3 DEF VersionsIn
    <2>2. ts.current # None => ts.version[ts.current].lifecycle = "published"
      BY DEF CorpusInvOf, CorpusPointerOf, VersionsIn
    <2>3. ts.current # d
      BY <1>1, <1>3, <2>2, <1>4 DEF None, VersionNo
    <2>4. QED
      BY <1>2, <1>3, <1>4, <2>1, <2>3 DEF CorpusInvOf, CorpusPointerOf
  <1>7. \A n \in VersionNo : n > tt.versions => tt.version[n].lifecycle = "none"
    BY <1>1, <1>2, <1>3 DEF CorpusInvOf, d, VersionNo
  <1>8. \A n \in VersionsIn(tt, {"revoked", "cross_check_submitted"}) :
          tt.version[n].target \in Outcome
    BY <1>3 DEF CorpusInvOf, VersionsIn
  <1>9. Drafts(tt) = Drafts(ts) \cup {d}
    BY <1>1, <1>3 DEF Drafts, VersionsIn
  <1>10. \A k \in RoundNo : tt.round[k].state = "awaiting_review" =>
           tt.version[tt.round[k].secondary].lifecycle = "cross_check_submitted"
    BY <1>2, <1>3, <1>5 DEF CorpusInvOf, OpenRounds, OpenState
  <1>11. CorpusInvOf(tt)
    BY <1>2, <1>6, <1>7, <1>8, <1>9, <1>10 DEF CorpusInvOf, Assigned, OpenRounds
  <1>12. QED
    BY <1>9, <1>11 DEF tt, d

LEMMA CloneCleanDraftKeeps ==
    ASSUME NEW ts, TaskTyped(ts), CorpusInvOf(ts), RoomForVersion(ts)
    PROVE  CorpusInvOf(CloneCleanDraft(ts))
  <1> DEFINE row == [NoVersionRow EXCEPT !.lifecycle = "draft",
                       !.base = ts.baseline,
                       !.cut = ts.version[ts.baseline].cut]
  <1>1. row \in VersionRow /\ row.lifecycle = "draft"
    BY DEF TaskTyped, TaskRow, VersionRow, NoVersionRow, Lifecycle, Purpose,
           Status
  <1> HIDE DEF row
  <1>2. CorpusInvOf(AddVersion(ts, row))
    BY <1>1, AddDraftKeeps
  <1>3. QED
    BY <1>2 DEF CloneCleanDraft, row

-----------------------------------------------------------------------------
(* Transactions of annotators and of preprocessing                         *)

LEMMA ClaimedKeeps ==
    ASSUME NEW ts, TaskTyped(ts), CorpusInvOf(ts), NEW u \in User, NEW d,
           NEW began, CanClaim(ts, u, d)
    PROVE  CorpusInvOf(Claimed(ts, u, d, began))
  <1> DEFINE tt == Claimed(ts, u, d, began)
  <1>1. /\ tt.status = ts.status /\ tt.current = ts.current
        /\ tt.versions = ts.versions /\ tt.version = ts.version
        /\ tt.round = ts.round /\ tt.assignment.version = d
    BY DEF Claimed, TaskTyped, TaskRow
  <1> HIDE DEF tt
  <1>2. CorpusInvOf(tt)
    BY <1>1, SameCorpus DEF CanClaim
  <1>3. QED
    BY <1>2 DEF tt

LEMMA SavedKeeps ==
    ASSUME NEW ts, TaskTyped(ts), CorpusInvOf(ts), NEW u
    PROVE  CorpusInvOf(Saved(ts, u))
  <1> DEFINE w  == ts.assignment.version
             vs == [ts.version EXCEPT ![w] = Edited(@, u)]
  <1>1. \A v \in VersionRow : /\ Edited(v, u).lifecycle = v.lifecycle
                              /\ Edited(v, u).target = v.target
    BY DEF Edited, VersionRow
  <1>2. \A n \in VersionNo : /\ vs[n].lifecycle = ts.version[n].lifecycle
                             /\ vs[n].target = ts.version[n].target
    BY <1>1 DEF TaskTyped, TaskRow
  <1>3. Saved(ts, u) = [ts EXCEPT !.version = vs]
    BY DEF Saved
  <1> HIDE DEF vs
  <1>4. QED
    BY <1>2, <1>3, SameLifecycles

LEMMA RefreshedKeeps ==
    ASSUME NEW ts, TaskTyped(ts), CorpusInvOf(ts)
    PROVE  CorpusInvOf(Refreshed(ts))
  <1> DEFINE cut == ts.version[ts.baseline].cut + 1
             vs  == [n \in VersionNo |->
                       IF n \in Drafts(ts) THEN Recut(ts.version[n], cut, 1)
                       ELSE IF n = ts.baseline
                            THEN Recut(ts.version[n], cut, 0)
                            ELSE ts.version[n]]
  <1>1. \A v \in VersionRow : \A c, b :
          /\ Recut(v, c, b).lifecycle = v.lifecycle
          /\ Recut(v, c, b).target = v.target
    BY DEF Recut, VersionRow
  <1>2. Refreshed(ts) = [ts EXCEPT !.version = vs]
    BY DEF Refreshed
  <1> HIDE DEF cut
  <1>3. \A n \in VersionNo : /\ vs[n].lifecycle = ts.version[n].lifecycle
                             /\ vs[n].target = ts.version[n].target
    BY <1>1 DEF TaskTyped, TaskRow
  <1> HIDE DEF vs
  <1>4. QED
    BY <1>2, <1>3, SameLifecycles

LEMMA AbandonedByKeeps ==
    ASSUME NEW ts, TaskTyped(ts), CorpusInvOf(ts), NEW u, CanAbandon(ts, u)
    PROVE  CorpusInvOf(AbandonedBy(ts))
  <1> DEFINE a == ts.assignment
  <1>1. a.mode \in Mode
    BY DEF TaskTyped, TaskRow, AssignmentRow
  <1>2. ASSUME NEW tt, TaskTyped(tt), Discards(ts, tt)
        PROVE  CorpusInvOf(Unassign(tt))
    <2>1. Discards(ts, Unassign(tt)) /\ ~ Assigned(Unassign(tt))
      BY <1>2, UnassignDiscards, DiscardsTrans
    <2>2. QED
      BY <1>2, <2>1, UnassignType, DiscardsKeeps
  <1>3. CASE a.mode = "cross_check"
    <2>1. InProgress(ts, a.round)
      BY <1>3 DEF CanAbandon, CanSave
    <2>2. QED
      BY <1>2, <1>3, <2>1, CancelInProgressCrossCheckType,
         CancelInProgressCrossCheckDiscards DEF AbandonedBy
  <1>4. CASE a.mode = "revision"
    BY <1>2, <1>4, AbandonDraftsType, AbandonDraftsDiscards DEF AbandonedBy
  <1>5. CASE a.mode = "annotation"
    <2>1. Discards(ts, ts)
      BY DEF Discards
    <2>2. QED
      BY <1>2, <1>5, <2>1 DEF AbandonedBy
  <1>6. QED
    BY <1>1, <1>3, <1>4, <1>5 DEF Mode

LEMMA ReopenedKeeps ==
    ASSUME NEW ts, TaskTyped(ts), CorpusInvOf(ts), NEW u \in User,
           CanReopen(ts, u)
    PROVE  CorpusInvOf(Reopened(ts, u))
  <1> DEFINE row == [NoVersionRow EXCEPT !.lifecycle = "draft",
                       !.target = ts.status, !.base = ts.current,
                       !.cut = ts.version[ts.current].cut]
             ad  == AddVersion(ts, row)
             a   == [user |-> u, version |-> ts.versions + 1,
                     mode |-> "revision", round |-> None]
             tt  == [ad EXCEPT !.assignment = a]
  <1>1. row \in VersionRow /\ row.lifecycle = "draft"
    BY DEF CanReopen, TaskTyped, TaskRow, VersionRow, NoVersionRow, Lifecycle,
           Purpose, Status
  <1>2. Reopened(ts, u) = tt
    BY DEF Reopened
  <1> HIDE DEF row
  <1>3. /\ TaskTyped(ad) /\ CorpusInvOf(ad)
        /\ ts.versions + 1 \in Drafts(ad)
    BY <1>1, AddVersionType, AddDraftKeeps DEF CanReopen
  <1> HIDE DEF ad
  <1>4. /\ tt.status = ad.status /\ tt.current = ad.current
        /\ tt.versions = ad.versions /\ tt.version = ad.version
        /\ tt.round = ad.round /\ tt.assignment.version = ts.versions + 1
    BY <1>3 DEF TaskTyped, TaskRow
  <1> HIDE DEF tt
  <1>5. QED
    BY <1>2, <1>3, <1>4, SameCorpus

LEMMA CrossCheckStartedKeeps ==
    ASSUME NEW ts, TaskTyped(ts), CorpusInvOf(ts), NEW u \in User,
           CanCrossCheck(ts, u)
    PROVE  CorpusInvOf(CrossCheckStarted(ts, u))
  <1> DEFINE d   == ts.versions + 1
             k   == ts.rounds + 1
             row == BlindDraft(ts)
             r   == [NoRoundRow EXCEPT
                       !.state = "in_progress", !.original = ts.current,
                       !.originalAnnotator = ts.version[ts.current].submitter,
                       !.secondary = d, !.secondaryAnnotator = u]
             ad  == AddVersion(ts, row)
             tt  == CrossCheckStarted(ts, u)
  <1>1. row \in VersionRow /\ row.lifecycle = "draft"
    BY DEF BlindDraft, TaskTyped, TaskRow, VersionRow, NoVersionRow, Lifecycle,
           Purpose, Status
  <1>2. r.state = "in_progress"
    BY DEF NoRoundRow
  <1>3. ad.round = ts.round /\ OpenRounds(ts) = {}
    BY DEF AddVersion, CanCrossCheck, TaskTyped, TaskRow
  <1>4. TaskTyped(ad) /\ CorpusInvOf(ad) /\ d \in Drafts(ad)
    BY <1>1, AddVersionType, AddDraftKeeps DEF CanCrossCheck
  <1>5. /\ tt.status = ad.status /\ tt.current = ad.current
        /\ tt.versions = ad.versions /\ tt.version = ad.version
        /\ tt.round = [ts.round EXCEPT ![k] = r]
        /\ tt.assignment.version = d
    BY <1>3, <1>4
       DEF CrossCheckStarted, SecondAssignment, TaskTyped, TaskRow
  <1> HIDE DEF tt, ad, r, row, d
  <1>6. \A j \in RoundNo : tt.round[j].state \in OpenState =>
           j = k /\ tt.round[j].state = "in_progress"
    BY <1>2, <1>3, <1>5 DEF OpenRounds, TaskTyped, TaskRow
  <1>7. \A i, j \in OpenRounds(tt) : i = j
    BY <1>6 DEF OpenRounds
  <1>8. \A j \in RoundNo : tt.round[j].state # "awaiting_review"
    BY <1>6 DEF OpenState
  <1>9. CorpusInvOf(tt)
    BY <1>4, <1>5, <1>7, <1>8
       DEF CorpusInvOf, CorpusPointerOf, VersionsIn, Drafts
  <1>10. QED
    BY <1>9 DEF tt

-----------------------------------------------------------------------------
(* Another version enters the corpus                                       *)

\* Version w becomes the published one, whatever else is superseded or
\* abandoned on the way, if nobody works on the task and w is not under
\* review.
LEMMA NewResultKeeps ==
    ASSUME NEW ts, NEW tt, TaskTyped(ts), TaskTyped(tt), CorpusInvOf(ts),
           NEW w \in VersionNo,
           tt.current = w, tt.version[w].lifecycle = "published",
           tt.version[w].target = tt.status, tt.status \in Outcome,
           ts.versions <= tt.versions, w <= tt.versions, ~ Assigned(tt),
           \A n \in VersionNo \ {w} :
              /\ tt.version[n].target = ts.version[n].target
              /\ tt.version[n].lifecycle # "published"
              /\ \/ tt.version[n].lifecycle = ts.version[n].lifecycle
                 \/ /\ ts.version[n].lifecycle # "none"
                    /\ ts.version[n].lifecycle # "cross_check_submitted"
                    /\ tt.version[n].lifecycle \in {"superseded", "abandoned"},
           \A k \in RoundNo :
              tt.round[k].state \in OpenState =>
                /\ tt.round[k].state = ts.round[k].state
                /\ tt.round[k].secondary = ts.round[k].secondary
                /\ tt.round[k].state = "awaiting_review"
                     => tt.round[k].secondary # w
    PROVE  CorpusInvOf(tt)
  <1>1. CorpusPointerOf(tt)
    <2>1. VersionsIn(tt, {"published"}) = {w}
      BY DEF VersionsIn
    <2>2. w # None /\ tt.status # "pending"
      BY DEF None, VersionNo, Outcome
    <2>3. QED
      BY <2>1, <2>2 DEF CorpusPointerOf
  <1>2. \A n \in VersionNo : n > tt.versions => tt.version[n].lifecycle = "none"
    <2>1. ts.versions \in Int /\ tt.versions \in Int /\ VersionNo \subseteq Int
      BY BoundsAssumption DEF TaskTyped, TaskRow, VersionNo
    <2>2. \A n \in VersionNo : n > tt.versions => n # w /\ n > ts.versions
      BY <2>1
    <2>3. QED
      BY <2>2 DEF CorpusInvOf
  <1>3. \A n \in VersionsIn(tt, {"revoked", "cross_check_submitted"}) :
          tt.version[n].target \in Outcome
    BY DEF CorpusInvOf, VersionsIn
  <1>4. \A j, k \in OpenRounds(tt) : j = k
    BY DEF CorpusInvOf, OpenRounds
  <1>5. \A k \in RoundNo : tt.round[k].state = "awaiting_review" =>
          tt.version[tt.round[k].secondary].lifecycle = "cross_check_submitted"
    BY DEF CorpusInvOf, OpenState, TaskTyped, OpenRounds
  <1>6. QED
    BY <1>1, <1>2, <1>3, <1>4, <1>5 DEF CorpusInvOf

LEMMA CompletedKeeps ==
    ASSUME NEW ts, TaskTyped(ts), CorpusInvOf(ts), NEW u \in User,
           NEW outcome \in Outcome, CanComplete(ts, u)
    PROVE  CorpusInvOf(Completed(ts, u, outcome))
  <1> DEFINE w  == ts.assignment.version
             vs == [n \in VersionNo |->
                      IF n = w
                      THEN Submitted(ts.version[n], u, "published", outcome)
                      ELSE SupersedeIfPublished(ts.version[n])]
             tt == Completed(ts, u, outcome)
  <1>1. /\ tt.status = outcome /\ tt.current = w /\ tt.version = vs
        /\ tt.versions = ts.versions /\ tt.round = ts.round
        /\ ~ Assigned(tt)
    BY DEF Completed, TaskTyped, TaskRow, NoAssignment, Assigned
  <1>2. TaskTyped(tt)
    BY CompletedType
  <1>3. w \in Drafts(ts)
    BY NoUserAssumption DEF CanComplete, CorpusInvOf, Assigned
  <1>4. w \in VersionNo /\ ts.version[w].lifecycle = "draft"
    BY <1>3 DEF Drafts, VersionsIn
  <1>5. w <= ts.versions /\ ts.versions <= ts.versions
    <2>1. w \in Int /\ ts.versions \in Int
      BY <1>4, BoundsAssumption DEF TaskTyped, TaskRow, VersionNo
    <2>2. ~ (w > ts.versions)
      BY <1>4 DEF CorpusInvOf
    <2>3. QED
      BY <2>1, <2>2
  <1>6. \A v \in VersionRow :
          /\ Submitted(v, u, "published", outcome).lifecycle = "published"
          /\ Submitted(v, u, "published", outcome).target = outcome
          /\ SupersedeIfPublished(v).target = v.target
          /\ SupersedeIfPublished(v).lifecycle =
               IF v.lifecycle = "published" THEN "superseded" ELSE v.lifecycle
    BY DEF Submitted, Edited, SupersedeIfPublished, VersionRow
  <1>7. \A n \in VersionNo : ts.version[n] \in VersionRow
    BY DEF TaskTyped, TaskRow
  <1>8. /\ vs[w].lifecycle = "published" /\ vs[w].target = outcome
        /\ \A n \in VersionNo \ {w} :
             /\ vs[n].target = ts.version[n].target
             /\ vs[n].lifecycle = IF ts.version[n].lifecycle = "published"
                                  THEN "superseded" ELSE ts.version[n].lifecycle
    BY <1>4, <1>6, <1>7
  <1> HIDE DEF vs, tt, w
  <1>9. \A k \in RoundNo :
          ts.round[k].state = "awaiting_review" => ts.round[k].secondary # w
    BY <1>4 DEF CorpusInvOf
  <1>10. QED
    BY <1>1, <1>2, <1>4, <1>5, <1>8, <1>9, NewResultKeeps DEF tt

LEMMA FrozenKeeps ==
    ASSUME NEW ts, TaskTyped(ts), CorpusInvOf(ts), NEW u \in User, NEW snap,
           CanFreeze(ts, u, snap), NEW outcome \in Outcome,
           NEW needsReview \in BOOLEAN
    PROVE  CorpusInvOf(Frozen(ts, u, snap, outcome, needsReview))
  <1> DEFINE d  == snap.version
             k  == snap.round
             v  == Submitted(ts.version[d], u, "cross_check_submitted", outcome)
             r  == WithVerdict(ts.round[k], snap, needsReview)
             tt == Frozen(ts, u, snap, outcome, needsReview)
  <1>1. /\ k \in RoundNo /\ ts.round[k].state = "in_progress"
        /\ ts.round[k].secondary = d /\ ts.version[d].lifecycle = "draft"
        /\ d \in VersionNo
    BY InProgressIsOpen DEF CanFreeze, InProgress, TaskTyped
  <1>2. /\ tt.status = ts.status /\ tt.current = ts.current
        /\ tt.versions = ts.versions
        /\ tt.version = [ts.version EXCEPT ![d] = v]
        /\ tt.round = [ts.round EXCEPT ![k] = r]
        /\ ~ Assigned(tt)
    BY DEF Frozen, TaskTyped, TaskRow, NoAssignment, Assigned
  <1>3. v.lifecycle = "cross_check_submitted" /\ v.target = outcome
    BY <1>1 DEF Submitted, Edited, TaskTyped, TaskRow, VersionRow
  <1>4. r.secondary = d /\ r.state \in {"awaiting_review", "passed"}
    BY <1>1 DEF WithVerdict, TaskTyped, TaskRow, RoundRow
  <1> HIDE DEF v, r, tt, d, k
  <1>5. /\ tt.version[d] = v
        /\ \A n \in VersionNo \ {d} : tt.version[n] = ts.version[n]
        /\ tt.round[k] = r
        /\ \A j \in RoundNo \ {k} : tt.round[j] = ts.round[j]
    BY <1>1, <1>2 DEF TaskTyped, TaskRow
  <1>6. \A j \in OpenRounds(ts) : j = k
    BY <1>1 DEF CorpusInvOf, OpenRounds, OpenState
  <1>7. CorpusPointerOf(tt)
    <2>1. VersionsIn(tt, {"published"}) = VersionsIn(ts, {"published"})
      BY <1>1, <1>3, <1>5 DEF VersionsIn
    <2>2. ts.current # None => ts.current \in VersionNo \ {d}
      BY <1>1 DEF CorpusInvOf, CorpusPointerOf, VersionsIn
    <2>3. QED
      BY <1>2, <1>5, <2>1, <2>2 DEF CorpusInvOf, CorpusPointerOf
  <1>8. \A n \in VersionNo : n > tt.versions => tt.version[n].lifecycle = "none"
    BY <1>1, <1>2, <1>5 DEF CorpusInvOf
  <1>9. \A n \in VersionsIn(tt, {"revoked", "cross_check_submitted"}) :
          tt.version[n].target \in Outcome
    BY <1>3, <1>5 DEF CorpusInvOf, VersionsIn
  <1>10. \A j \in OpenRounds(tt) : j = k
    BY <1>5, <1>6 DEF OpenRounds
  <1>11. \A j \in RoundNo : tt.round[j].state = "awaiting_review" =>
           tt.version[tt.round[j].secondary].lifecycle = "cross_check_submitted"
    BY <1>3, <1>4, <1>5, <1>10 DEF OpenRounds, OpenState
  <1>12. CorpusInvOf(tt)
    BY <1>2, <1>7, <1>8, <1>9, <1>10, <1>11 DEF CorpusInvOf
  <1>13. QED
    BY <1>12 DEF tt

-----------------------------------------------------------------------------
(* Transactions of administrators                                          *)

\* Only the columns CorpusInvOf does not speak of have changed.
LEMMA SameWork ==
    ASSUME NEW ts, NEW tt, CorpusInvOf(ts),
           tt.status = ts.status, tt.current = ts.current,
           tt.versions = ts.versions, tt.version = ts.version,
           tt.round = ts.round, tt.assignment = ts.assignment
    PROVE  CorpusInvOf(tt)
  BY SameCorpus DEF CorpusInvOf, Assigned

LEMMA DraftReleasedKeepsCorpus ==
    ASSUME NEW ts, TaskTyped(ts), CorpusInvOf(ts), CanReleaseDraft(ts)
    PROVE  CorpusInvOf(DraftReleased(ts))
  BY DraftReleasedDiscards, DraftReleasedType, DiscardsKeeps

LEMMA CleanDraftKeeps ==
    ASSUME NEW ts, TaskTyped(ts), CorpusInvOf(ts), CanReleaseDraft(ts),
           RoomForVersion(ts)
    PROVE  CorpusInvOf(CloneCleanDraft(DraftReleased(ts)))
  <1>1. RoomForVersion(DraftReleased(ts))
    BY DraftReleasedKeeps DEF RoomForVersion
  <1>2. QED
    BY <1>1, DraftReleasedType, DraftReleasedKeepsCorpus, CloneCleanDraftKeeps

LEMMA NewReservationKeeps ==
    ASSUME NEW ts, TaskTyped(ts), CorpusInvOf(ts), NEW u
    PROVE  CorpusInvOf([ts EXCEPT !.reserved = u])
  <1> DEFINE tt == [ts EXCEPT !.reserved = u]
  <1>1. /\ tt.status = ts.status /\ tt.current = ts.current
        /\ tt.versions = ts.versions /\ tt.version = ts.version
        /\ tt.round = ts.round /\ tt.assignment = ts.assignment
    BY DEF TaskTyped, TaskRow
  <1> HIDE DEF tt
  <1>2. CorpusInvOf(tt)
    BY <1>1, SameWork
  <1>3. QED
    BY <1>2 DEF tt

LEMMA ReleasedKeeps ==
    ASSUME NEW ts, TaskTyped(ts), CorpusInvOf(ts), CanRelease(ts)
    PROVE  CorpusInvOf(Released(ts))
  <1>1. CASE NeedsCleanDraft(ts)
    <2> DEFINE clean == CloneCleanDraft(DraftReleased(ts))
    <2>1. RoomForVersion(ts) /\ CanReleaseDraft(ts)
      BY <1>1 DEF CanRelease
    <2>2. RoomForVersion(DraftReleased(ts)) /\ TaskTyped(DraftReleased(ts))
      BY <2>1, DraftReleasedKeeps, DraftReleasedType DEF RoomForVersion
    <2>3. TaskTyped(clean) /\ CorpusInvOf(clean)
      BY <2>1, <2>2, CloneCleanDraftType, CleanDraftKeeps
    <2> HIDE DEF clean
    <2>4. CorpusInvOf([clean EXCEPT !.reserved = NoUser])
      BY <2>3, NewReservationKeeps
    <2>5. QED
      BY <1>1, <2>4 DEF Released, clean
  <1>2. CASE ~ NeedsCleanDraft(ts)
    BY <1>2, DraftReleasedKeepsCorpus DEF Released, CanRelease
  <1>3. QED
    BY <1>1, <1>2

LEMMA CancelledKeeps ==
    ASSUME NEW ts, TaskTyped(ts), CorpusInvOf(ts), NEW k \in RoundNo,
           CanCancel(ts, k)
    PROVE  CorpusInvOf(Cancelled(ts, k))
  <1> DEFINE closed == SetRoundState(ts, k, "cancelled")
             gone   == {ts.round[k].secondary}
             rest   == AbandonDrafts(closed, gone)
  <1>1. k \in OpenRounds(ts)
    BY DEF CanCancel, OpenRounds, OpenState
  <1>2. "cancelled" \in RoundState \ OpenState
    BY DEF RoundState, OpenState
  <1>3. TaskTyped(closed) /\ Discards(ts, closed)
    BY <1>1, <1>2, SetRoundStateType, SetRoundStateDiscards
  <1> HIDE DEF closed, gone
  <1>4. TaskTyped(rest) /\ Discards(ts, rest)
    BY <1>3, AbandonDraftsType, AbandonDraftsDiscards, DiscardsTrans
  <1> HIDE DEF rest
  <1>5. /\ TaskTyped(Unassign(rest)) /\ Discards(ts, Unassign(rest))
        /\ ~ Assigned(Unassign(rest))
    BY <1>4, UnassignType, UnassignDiscards, DiscardsTrans
  <1>6. CorpusInvOf(Unassign(rest))
    BY <1>5, DiscardsKeeps
  <1>7. QED
    BY <1>6 DEF Cancelled, rest, closed, gone

\* What is published has been finished with an outcome.
LEMMA PublishedOutcome ==
    ASSUME NEW ts, TaskTyped(ts), CorpusInvOf(ts), ts.current # None
    PROVE  /\ ts.current \in VersionNo
           /\ ts.version[ts.current].lifecycle = "published"
           /\ ts.version[ts.current].target \in Outcome
           /\ ts.current <= ts.versions /\ ts.versions <= ts.versions
  <1>1. ts.current \in VersionNo
    BY DEF TaskTyped, TaskRow
  <1>2. ts.version[ts.current].lifecycle = "published"
    BY DEF CorpusInvOf, CorpusPointerOf, VersionsIn
  <1>3. ts.version[ts.current].target \in Outcome
    BY DEF CorpusInvOf, CorpusPointerOf, TaskTyped, TaskRow, Status
  <1>4. ts.current \in Int /\ ts.versions \in Int
    BY <1>1, BoundsAssumption DEF TaskTyped, TaskRow, VersionNo
  <1>5. ~ (ts.current > ts.versions)
    BY <1>1, <1>2 DEF CorpusInvOf
  <1>6. QED
    BY <1>1, <1>2, <1>3, <1>4, <1>5

LEMMA WithdrawnKeeps ==
    ASSUME NEW ts, TaskTyped(ts), CorpusInvOf(ts), ts.current # None,
           ~ Assigned(ts), NEW a
    PROVE  CorpusInvOf(Withdrawn(ts, a))
  <1> DEFINE c  == ts.current
             v  == [ts.version[c] EXCEPT !.lifecycle = "revoked",
                                         !.revokedBy = a]
             tt == Withdrawn(ts, a)
  <1>1. /\ c \in VersionNo /\ ts.version[c].lifecycle = "published"
        /\ ts.version[c].target \in Outcome
    BY PublishedOutcome
  <1>2. /\ tt.status = "pending" /\ tt.current = None
        /\ tt.versions = ts.versions
        /\ tt.version = [ts.version EXCEPT ![c] = v]
        /\ tt.round = ts.round /\ ~ Assigned(tt)
    BY DEF Withdrawn, TaskTyped, TaskRow, Assigned
  <1>3. v.lifecycle = "revoked" /\ v.target = ts.version[c].target
    BY <1>1 DEF TaskTyped, TaskRow, VersionRow
  <1> HIDE DEF v, tt
  <1>4. /\ tt.version[c] = v
        /\ \A n \in VersionNo \ {c} : tt.version[n] = ts.version[n]
    BY <1>1, <1>2 DEF TaskTyped, TaskRow
  <1>5. VersionsIn(ts, {"published"}) = {c}
    BY <1>1 DEF CorpusInvOf, CorpusPointerOf, None, VersionNo
  <1>6. VersionsIn(tt, {"published"}) = {}
    BY <1>3, <1>4, <1>5 DEF VersionsIn
  <1> HIDE DEF c
  <1>7. CorpusPointerOf(tt)
    BY <1>2, <1>6 DEF CorpusPointerOf
  <1>8. \A n \in VersionNo : n > tt.versions => tt.version[n].lifecycle = "none"
    BY <1>1, <1>2, <1>4 DEF CorpusInvOf
  <1>9. \A n \in VersionsIn(tt, {"revoked", "cross_check_submitted"}) :
          tt.version[n].target \in Outcome
    BY <1>1, <1>3, <1>4 DEF CorpusInvOf, VersionsIn
  <1>10. \A k \in RoundNo : tt.round[k].state = "awaiting_review" =>
           tt.version[tt.round[k].secondary].lifecycle = "cross_check_submitted"
    BY <1>1, <1>2, <1>4 DEF CorpusInvOf, TaskTyped, OpenRounds, OpenState
  <1>11. CorpusInvOf(tt)
    BY <1>2, <1>7, <1>8, <1>9, <1>10 DEF CorpusInvOf, OpenRounds
  <1>12. QED
    BY <1>11 DEF tt

LEMMA RevokedKeeps ==
    ASSUME NEW ts, TaskTyped(ts), CorpusInvOf(ts), NEW author,
           NEW conflicts \in BOOLEAN, CanRevoke(ts, author, conflicts),
           NEW a \in ActionNo, NEW block
    PROVE  CorpusInvOf(Revoked(ts, author, a, block))
  <1> DEFINE kept    == CrossCheckInvalidated(ts)
             cleared == DraftReleased(kept)
             gone    == Withdrawn(cleared, a)
             clean   == CloneCleanDraft(gone)
             barred  == [clean EXCEPT !.blockedBy[author] = a]
  <1>1. TaskTyped(kept) /\ Discards(ts, kept) /\ CanReleaseDraft(kept)
    BY CrossCheckInvalidatedType, CrossCheckInvalidatedDiscards DEF CanRevoke
  <1>2. kept.versions = ts.versions /\ kept.current = ts.current
    BY CrossCheckInvalidatedKeeps
  <1> HIDE DEF kept
  <1>3. /\ TaskTyped(cleared) /\ Discards(ts, cleared) /\ ~ Assigned(cleared)
        /\ cleared.versions = ts.versions /\ cleared.current = ts.current
    BY <1>1, <1>2, DraftReleasedType, DraftReleasedDiscards,
       DraftReleasedKeeps, DiscardsTrans
  <1>4. CorpusInvOf(cleared)
    BY <1>3, DiscardsKeeps
  <1> HIDE DEF cleared
  <1>5. /\ TaskTyped(gone) /\ gone.versions = ts.versions
        /\ CorpusInvOf(gone)
    BY <1>3, <1>4, WithdrawnType, WithdrawnKeeps DEF CanRevoke
  <1>6. RoomForVersion(gone)
    BY <1>5 DEF RoomForVersion, CanRevoke
  <1> HIDE DEF gone
  <1>7. TaskTyped(clean) /\ CorpusInvOf(clean)
    BY <1>5, <1>6, CloneCleanDraftType, CloneCleanDraftKeeps
  <1>8. Revoked(ts, author, a, block) =
          IF block /\ author # NoUser THEN barred ELSE clean
    BY DEF Revoked, kept, cleared, gone
  <1> HIDE DEF clean
  <1>9. /\ barred.status = clean.status /\ barred.current = clean.current
        /\ barred.versions = clean.versions /\ barred.version = clean.version
        /\ barred.round = clean.round /\ barred.assignment = clean.assignment
    BY <1>7 DEF TaskTyped, TaskRow
  <1> HIDE DEF barred
  <1>10. CorpusInvOf(barred)
    BY <1>7, <1>9, SameWork
  <1>11. QED
    BY <1>7, <1>8, <1>10

LEMMA RestoredKeeps ==
    ASSUME NEW ts, TaskTyped(ts), CorpusInvOf(ts), NEW a, NEW author,
           NEW before \in VersionNo, NEW after,
           CanRestore(ts, a, author, before, after)
    PROVE  CorpusInvOf(Restored(ts, a, author, before, after))
  <1> DEFINE vs == [n \in VersionNo |->
                      IF n = before THEN Reinstated(ts.version[n])
                      ELSE IF n = after
                      THEN [ts.version[n] EXCEPT !.lifecycle = "abandoned"]
                      ELSE ts.version[n]]
             tt == Restored(ts, a, author, before, after)
  <1>1. /\ ts.version[before].lifecycle = "revoked"
        /\ ts.version[before].target \in Outcome
        /\ ts.version[after].lifecycle = "draft"
        /\ OpenRounds(ts) = {} /\ ~ Assigned(ts)
        /\ VersionsIn(ts, {"published"}) = {}
    BY DEF CanRestore, Untouched, CorpusInvOf, CorpusPointerOf, VersionsIn
  <1>2. /\ tt.status = ts.version[before].target /\ tt.current = before
        /\ tt.versions = ts.versions /\ tt.version = vs
        /\ tt.round = ts.round /\ ~ Assigned(tt)
    BY <1>1 DEF Restored, StatusOfVersion, TaskTyped, TaskRow, Assigned
  <1>3. TaskTyped(tt)
    BY RestoredType
  <1>4. \A v \in VersionRow :
          /\ Reinstated(v).lifecycle = "published"
          /\ Reinstated(v).target = v.target
          /\ [v EXCEPT !.lifecycle = "abandoned"].lifecycle = "abandoned"
          /\ [v EXCEPT !.lifecycle = "abandoned"].target = v.target
    BY DEF Reinstated, VersionRow
  <1>5. \A n \in VersionNo : ts.version[n] \in VersionRow
    BY DEF TaskTyped, TaskRow
  <1>6. /\ vs[before].lifecycle = "published"
        /\ vs[before].target = ts.version[before].target
        /\ \A n \in VersionNo \ {before} :
             /\ vs[n].target = ts.version[n].target
             /\ vs[n].lifecycle = IF n = after THEN "abandoned"
                                  ELSE ts.version[n].lifecycle
    BY <1>4, <1>5
  <1>7. before <= ts.versions /\ ts.versions <= ts.versions
    <2>1. before \in Int /\ ts.versions \in Int
      BY BoundsAssumption DEF TaskTyped, TaskRow, VersionNo
    <2>2. ~ (before > ts.versions)
      BY <1>1 DEF CorpusInvOf
    <2>3. QED
      BY <2>1, <2>2
  <1> HIDE DEF vs, tt
  <1>8. \A k \in RoundNo : tt.round[k].state \notin OpenState
    BY <1>1, <1>2 DEF OpenRounds
  <1>9. \A n \in VersionNo \ {before} :
          /\ tt.version[n].target = ts.version[n].target
          /\ tt.version[n].lifecycle # "published"
          /\ \/ tt.version[n].lifecycle = ts.version[n].lifecycle
             \/ /\ ts.version[n].lifecycle = "draft"
                /\ tt.version[n].lifecycle = "abandoned"
    BY <1>1, <1>2, <1>6 DEF VersionsIn
  <1>10. CorpusInvOf(tt)
    BY <1>1, <1>2, <1>3, <1>6, <1>7, <1>8, <1>9, NewResultKeeps
  <1>11. QED
    BY <1>10 DEF tt

LEMMA CloseDiscards ==
    ASSUME NEW ts, TaskTyped(ts), NEW k \in RoundNo, NEW decision, NEW final
    PROVE  /\ Discards(ts, Close(ts, k, decision, final))
           /\ Close(ts, k, decision, final).assignment = ts.assignment
  <1> DEFINE r  == [ts.round[k] EXCEPT !.state = "adjudicated",
                       !.decision = decision, !.final = final]
             tt == Close(ts, k, decision, final)
  <1>1. /\ tt.status = ts.status /\ tt.current = ts.current
        /\ tt.versions = ts.versions /\ tt.version = ts.version
        /\ tt.round = [ts.round EXCEPT ![k] = r]
        /\ tt.assignment = ts.assignment
    BY DEF Close, TaskTyped, TaskRow
  <1>2. r.state = "adjudicated"
    BY DEF TaskTyped, TaskRow, RoundRow
  <1> HIDE DEF tt, r
  <1>3. Discards(ts, tt) /\ tt.assignment = ts.assignment
    BY <1>1, <1>2 DEF Discards, OpenState, TaskTyped, TaskRow
  <1>4. QED
    BY <1>3 DEF tt

\* The decision closes the round, so what is decided about a task without
\* that round is decided about the task.
LEMMA DecidedKeeps ==
    ASSUME NEW ts, TaskTyped(ts), CorpusInvOf(ts), NEW k \in RoundNo,
           CanDecide(ts, k), NEW decision \in Decision, NEW base \in VersionNo,
           NEW outcome \in Outcome, decision = "edited" => RoomForVersion(ts)
    PROVE  CorpusInvOf(Decided(ts, k, decision, base, outcome))
  <1> DEFINE c  == ts.current
             tt == Decided(ts, k, decision, base, outcome)
  <1>0. TaskTyped(tt)
    BY DecidedType
  <1>1. /\ k \in OpenRounds(ts) /\ ~ Assigned(ts)
        /\ ts.round[k].state = "awaiting_review"
        /\ c = ts.round[k].original
    BY DEF CanDecide, OpenRounds, OpenState
  <1>2. c \in VersionNo /\ ts.round[k].secondary \in VersionNo
    BY <1>1 DEF TaskTyped
  <1>3. /\ VersionsIn(ts, {"published"}) = {c}
        /\ c <= ts.versions /\ ts.versions <= ts.versions
        /\ ts.versions \in Int
    <2>1. c # None
      BY <1>2 DEF None, VersionNo
    <2>2. VersionsIn(ts, {"published"}) = {c}
      BY <2>1 DEF CorpusInvOf, CorpusPointerOf
    <2>3. c <= ts.versions /\ ts.versions <= ts.versions
      BY <2>1, PublishedOutcome
    <2>4. ts.versions \in Int
      BY BoundsAssumption DEF TaskTyped, TaskRow, VersionNo
    <2>5. QED
      BY <2>2, <2>3, <2>4
  <1>4. CASE decision = "original"
    <2>1. tt = Close(ts, k, decision, c)
      BY <1>4 DEF Decided
    <2>2. Discards(ts, tt) /\ ~ Assigned(tt)
      BY <1>1, <2>1, CloseDiscards DEF Assigned
    <2>3. QED
      BY <1>0, <2>2, DiscardsKeeps
  <1>5. CASE decision = "secondary"
    <2> DEFINE w  == ts.round[k].secondary
               old == [ts.version[c] EXCEPT !.lifecycle = "superseded"]
               new == [ts.version[w] EXCEPT !.lifecycle = "published"]
               r  == [ts.round[k] EXCEPT !.state = "adjudicated",
                        !.decision = decision, !.final = w]
    <2>1. /\ ts.version[w].lifecycle = "cross_check_submitted" /\ w # c
          /\ ts.version[w].target \in Outcome
      BY <1>1, <1>2, <1>3 DEF CorpusInvOf, VersionsIn
    <2>2. /\ tt.status = ts.version[w].target /\ tt.current = w
          /\ tt.versions = ts.versions
          /\ tt.version = [ts.version EXCEPT ![c] = old, ![w] = new]
          /\ tt.round = [ts.round EXCEPT ![k] = r]
          /\ ~ Assigned(tt)
      BY <1>1, <1>2, <1>5, <2>1
         DEF Decided, Close, Publish, Replaced, TaskTyped, TaskRow, Assigned
    <2>3. /\ old.lifecycle = "superseded" /\ old.target = ts.version[c].target
          /\ new.lifecycle = "published" /\ new.target = ts.version[w].target
          /\ r.state = "adjudicated"
      BY <1>2 DEF TaskTyped, TaskRow, VersionRow, RoundRow
    <2>4. w <= ts.versions
      <3>1. w \in Int
        BY <1>2, BoundsAssumption DEF VersionNo
      <3>2. ~ (w > ts.versions)
        BY <1>2, <2>1 DEF CorpusInvOf
      <3>3. QED
        BY <1>3, <3>1, <3>2
    <2> HIDE DEF tt, w, old, new, r
    <2>5. /\ tt.version[w] = new /\ tt.version[c] = old
          /\ \A n \in VersionNo \ {w, c} : tt.version[n] = ts.version[n]
      BY <1>2, <2>1, <2>2 DEF TaskTyped, TaskRow, w
    <2>6. \A j \in RoundNo : tt.round[j].state \notin OpenState
      BY <1>1, <2>2, <2>3
         DEF CorpusInvOf, OpenRounds, OpenState, TaskTyped, TaskRow
    <2>7. \A n \in VersionNo \ {w} :
            /\ tt.version[n].target = ts.version[n].target
            /\ tt.version[n].lifecycle # "published"
            /\ \/ tt.version[n].lifecycle = ts.version[n].lifecycle
               \/ /\ ts.version[n].lifecycle = "published"
                  /\ tt.version[n].lifecycle = "superseded"
      BY <1>3, <2>3, <2>5 DEF VersionsIn
    <2>8. w \in VersionNo
      BY <1>2 DEF w
    <2>9. /\ tt.current = w /\ tt.version[w].lifecycle = "published"
          /\ tt.version[w].target = tt.status /\ tt.status \in Outcome
          /\ ts.versions <= tt.versions /\ w <= tt.versions
          /\ ~ Assigned(tt)
      BY <1>3, <2>1, <2>2, <2>3, <2>4, <2>5
    <2>10. CorpusInvOf(tt)
      BY <1>0, <2>6, <2>7, <2>8, <2>9, NewResultKeeps
    <2>11. QED
      BY <2>10 DEF tt
  <1>6. CASE decision = "edited"
    <2> DEFINE w   == ts.versions + 1
               old == [ts.version[c] EXCEPT !.lifecycle = "superseded"]
               new == AdminEdit(ts, base, outcome)
               r   == [ts.round[k] EXCEPT !.state = "adjudicated",
                         !.decision = decision, !.final = w]
    <2>1. w \in VersionNo /\ w # c /\ ts.versions <= w /\ w <= w
      BY <1>3, <1>6, NextVersionNo
    <2>2. /\ tt.status = outcome /\ tt.current = w /\ tt.versions = w
          /\ tt.version = [ts.version EXCEPT ![w] = new, ![c] = old]
          /\ tt.round = [ts.round EXCEPT ![k] = r]
          /\ ~ Assigned(tt)
      BY <1>1, <1>2, <1>6, <2>1
         DEF Decided, Close, AddVersion, Replaced, TaskTyped, TaskRow, Assigned
    <2>3. /\ old.lifecycle = "superseded" /\ old.target = ts.version[c].target
          /\ r.state = "adjudicated"
      BY <1>2 DEF TaskTyped, TaskRow, VersionRow, RoundRow
    <2>4. new.lifecycle = "published" /\ new.target = outcome
      BY DEF AdminEdit, NoVersionRow
    <2> HIDE DEF tt, w, old, new, r
    <2>5. /\ tt.version[w] = new /\ tt.version[c] = old
          /\ \A n \in VersionNo \ {w, c} : tt.version[n] = ts.version[n]
      BY <1>2, <2>1, <2>2 DEF TaskTyped, TaskRow
    <2>6. \A j \in RoundNo : tt.round[j].state \notin OpenState
      BY <1>1, <2>2, <2>3
         DEF CorpusInvOf, OpenRounds, OpenState, TaskTyped, TaskRow
    <2>7. \A n \in VersionNo \ {w} :
            /\ tt.version[n].target = ts.version[n].target
            /\ tt.version[n].lifecycle # "published"
            /\ \/ tt.version[n].lifecycle = ts.version[n].lifecycle
               \/ /\ ts.version[n].lifecycle = "published"
                  /\ tt.version[n].lifecycle = "superseded"
      BY <1>3, <2>3, <2>5 DEF VersionsIn
    <2>8. /\ tt.current = w /\ tt.version[w].lifecycle = "published"
          /\ tt.version[w].target = tt.status /\ tt.status \in Outcome
          /\ ts.versions <= tt.versions /\ w <= tt.versions
          /\ ~ Assigned(tt)
      BY <2>1, <2>2, <2>4, <2>5
    <2>9. CorpusInvOf(tt)
      BY <1>0, <2>1, <2>6, <2>7, <2>8, NewResultKeeps
    <2>10. QED
      BY <2>9 DEF tt
  <1>7. QED
    BY <1>4, <1>5, <1>6 DEF Decision

LEMMA LetGoKeeps ==
    ASSUME NEW ts, TaskTyped(ts), CorpusInvOf(ts), NEW u, CanOffboard(ts, u)
    PROVE  CorpusInvOf(LetGo(ts, u))
  <1> DEFINE free == IF ts.assignment.user # u THEN ts
                     ELSE IF NeedsCleanDraft(ts)
                     THEN CloneCleanDraft(DraftReleased(ts))
                     ELSE DraftReleased(ts)
  <1>1. TaskTyped(free) /\ CorpusInvOf(free)
    <2>1. CASE ts.assignment.user # u
      BY <2>1
    <2>2. CASE ts.assignment.user = u /\ NeedsCleanDraft(ts)
      <3>1. CanReleaseDraft(ts) /\ RoomForVersion(ts)
        BY <2>2 DEF CanOffboard
      <3>2. RoomForVersion(DraftReleased(ts))
        BY <3>1, DraftReleasedKeeps DEF RoomForVersion
      <3>3. QED
        BY <2>2, <3>1, <3>2, DraftReleasedType, CloneCleanDraftType,
           CleanDraftKeeps
    <2>3. CASE ts.assignment.user = u /\ ~ NeedsCleanDraft(ts)
      BY <2>3, DraftReleasedType, DraftReleasedKeepsCorpus DEF CanOffboard
    <2>4. QED
      BY <2>1, <2>2, <2>3
  <1>2. LetGo(ts, u) = [free EXCEPT !.reserved = ReservationWithout(free, u)]
    BY DEF LetGo
  <1> HIDE DEF free
  <1>3. QED
    BY <1>1, <1>2, NewReservationKeeps

LEMMA OffboardedKeeps ==
    ASSUME NEW ts, TaskTyped(ts), CorpusInvOf(ts), NEW u, CanOffboard(ts, u),
           NEW a \in ActionNo
    PROVE  CorpusInvOf(Offboarded(ts, u, a))
  <1> DEFINE free == LetGo(ts, u)
             kept == CrossCheckInvalidated(free)
  <1>1. TaskTyped(free) /\ CorpusInvOf(free)
    BY LetGoType, LetGoKeeps
  <1>2. CASE PublishedBy(free, u)
    <2>1. TaskTyped(kept) /\ Discards(free, kept)
      BY <1>1, CrossCheckInvalidatedType, CrossCheckInvalidatedDiscards
    <2>2. ~ Assigned(kept)
      BY <1>1, <1>2 DEF CanOffboard, CrossCheckInvalidated, AbandonDrafts,
                        Unassign, NoAssignment, Assigned, TaskTyped, TaskRow
    <2>3. CorpusInvOf(kept)
      BY <1>1, <2>1, <2>2, DiscardsKeeps
    <2>4. CanRevoke(kept, u, FALSE)
      BY <1>2 DEF CanOffboard
    <2> HIDE DEF kept
    <2>5. CorpusInvOf(Revoked(kept, u, a, TRUE))
      BY <2>1, <2>3, <2>4, RevokedKeeps
    <2>6. QED
      BY <1>2, <2>5 DEF Offboarded, kept
  <1>3. CASE ~ PublishedBy(free, u)
    BY <1>1, <1>3 DEF Offboarded
  <1>4. QED
    BY <1>2, <1>3

CorpusParts == \A t \in Task : CorpusInvOf(task[t])

-----------------------------------------------------------------------------
(* Initial states                                                          *)

LEMMA TaskWithColumns ==
    ASSUME NEW n, NEW vr, NEW b, NEW r, NEW p
    PROVE  LET ts == TaskWith(n, vr, b, r, p) IN
           /\ ts.status = "pending" /\ ts.current = None
           /\ ts.versions = n /\ ts.version = vr
           /\ \A k \in RoundNo : ts.round[k].state = "none"
           /\ ~ Assigned(ts)
  BY DEF TaskWith, NoRoundRow, NoAssignment, Assigned

\* Two versions, no rounds, nobody at work, version 2 or 1 the baseline.
LEMMA FreshCorpus ==
    ASSUME NEW ts, ts.versions = 2,
           \A k \in RoundNo : ts.round[k].state = "none",
           \A n \in VersionNo : n > 2 => ts.version[n].lifecycle = "none",
           \A n \in VersionNo :
             ts.version[n].lifecycle \notin {"revoked", "cross_check_submitted"},
           CorpusPointerOf(ts),
           Assigned(ts) => ts.assignment.version \in Drafts(ts)
    PROVE  CorpusInvOf(ts)
  BY DEF CorpusInvOf, OpenRounds, OpenState, VersionsIn

LEMMA ImportedTaskColumns ==
    ASSUME NEW row, NEW r, NEW p
    PROVE  LET ts == ImportedTask(row, r, p) IN
           /\ ts.status = "pending" /\ ts.current = None /\ ts.versions = 2
           /\ \A k \in RoundNo : ts.round[k].state = "none"
           /\ ~ Assigned(ts)
           /\ ts.version[1] = row
           /\ \A n \in VersionNo \ {1} :
                ts.version[n].lifecycle = IF n = 2 THEN "baseline" ELSE "none"
  <1> DEFINE vr == [n \in VersionNo |-> CASE n = 1 -> row
                                          [] n = 2 -> BaselineRow
                                          [] OTHER -> NoVersionRow]
             ts == TaskWith(2, vr, 2, r, p)
  <1>1. /\ BaselineRow.lifecycle = "baseline"
        /\ NoVersionRow.lifecycle = "none"
    BY DEF BaselineRow, NoVersionRow
  <1>2. 1 \in VersionNo
    BY BoundsAssumption DEF VersionNo
  <1>3. /\ vr[1] = row
        /\ \A n \in VersionNo \ {1} :
             vr[n].lifecycle = IF n = 2 THEN "baseline" ELSE "none"
    BY <1>1, <1>2
  <1>4. /\ ts.status = "pending" /\ ts.current = None
        /\ ts.versions = 2 /\ ts.version = vr
        /\ \A k \in RoundNo : ts.round[k].state = "none"
        /\ ~ Assigned(ts)
    BY TaskWithColumns
  <1>5. ImportedTask(row, r, p) = ts
    BY DEF ImportedTask
  <1> HIDE DEF ts, vr
  <1>6. QED
    BY <1>3, <1>4, <1>5

LEMMA ImportedDraftCorpus ==
    ASSUME NEW last, NEW p
    PROVE  /\ CorpusInvOf(ImportedDraft(last, p))
           /\ 1 \in Drafts(ImportedDraft(last, p))
  <1> DEFINE row == [LegacyVersion(last) EXCEPT !.lifecycle = "draft"]
             ts  == ImportedTask(row, last.editor, p)
  <1>1. row.lifecycle = "draft"
    BY DEF LegacyVersion, NoVersionRow
  <1>2. 1 \in VersionNo /\ VersionNo \subseteq Int
    BY BoundsAssumption DEF VersionNo
  <1>3. ImportedDraft(last, p) = ts
    BY DEF ImportedDraft
  <1> HIDE DEF row
  <1>4. /\ ts.status = "pending" /\ ts.current = None /\ ts.versions = 2
        /\ \A k \in RoundNo : ts.round[k].state = "none"
        /\ ~ Assigned(ts)
        /\ ts.version[1] = row
        /\ \A n \in VersionNo \ {1} :
             ts.version[n].lifecycle = IF n = 2 THEN "baseline" ELSE "none"
    BY ImportedTaskColumns
  <1> HIDE DEF ts
  <1>5. \A n \in VersionNo :
          ts.version[n].lifecycle = IF n = 1 THEN "draft"
                                    ELSE IF n = 2 THEN "baseline" ELSE "none"
    BY <1>1, <1>4
  <1>6. CorpusPointerOf(ts)
    BY <1>4, <1>5 DEF CorpusPointerOf, VersionsIn
  <1>7. \A n \in VersionNo :
          /\ n > 2 => ts.version[n].lifecycle = "none"
          /\ ts.version[n].lifecycle \notin {"revoked", "cross_check_submitted"}
    BY <1>2, <1>5
  <1>8. CorpusInvOf(ts)
    BY <1>4, <1>6, <1>7, FreshCorpus
  <1>9. 1 \in Drafts(ts)
    BY <1>2, <1>5 DEF Drafts, VersionsIn
  <1>10. QED
    BY <1>3, <1>8, <1>9

LEMMA ImportedResultCorpus ==
    ASSUME NEW u, NEW last, NEW o \in Outcome, NEW p
    PROVE  CorpusInvOf(ImportedResult(u, last, o, p))
  <1> DEFINE row == [LegacyVersion(last) EXCEPT !.lifecycle = "published",
                       !.target = o, !.submitter = u]
             tw  == ImportedTask(row, NoUser, p)
             ts  == ImportedResult(u, last, o, p)
  <1>1. row.lifecycle = "published" /\ row.target = o
    BY DEF LegacyVersion, NoVersionRow
  <1>2. 1 \in VersionNo /\ VersionNo \subseteq Int
    BY BoundsAssumption DEF VersionNo
  <1> HIDE DEF row
  <1>3. /\ tw.versions = 2
        /\ \A k \in RoundNo : tw.round[k].state = "none"
        /\ ~ Assigned(tw)
        /\ tw.version[1] = row
        /\ \A n \in VersionNo \ {1} :
             tw.version[n].lifecycle = IF n = 2 THEN "baseline" ELSE "none"
    BY ImportedTaskColumns
  <1>4. /\ ts.status = o /\ ts.current = 1
        /\ ts.versions = tw.versions /\ ts.version = tw.version
        /\ ts.round = tw.round /\ ts.assignment = tw.assignment
    BY DEF ImportedResult, ImportedTask, TaskWith, row
  <1>5. ~ Assigned(ts)
    BY <1>3, <1>4 DEF Assigned
  <1> HIDE DEF ts, tw
  <1>6. /\ ts.version[1].target = o
        /\ \A n \in VersionNo :
             ts.version[n].lifecycle = IF n = 1 THEN "published"
                                       ELSE IF n = 2 THEN "baseline"
                                       ELSE "none"
    BY <1>1, <1>3, <1>4
  <1>7. VersionsIn(ts, {"published"}) = {1}
    BY <1>2, <1>6 DEF VersionsIn
  <1>8. CorpusPointerOf(ts)
    BY <1>4, <1>6, <1>7 DEF CorpusPointerOf, None, Outcome
  <1>9. \A n \in VersionNo :
          /\ n > 2 => ts.version[n].lifecycle = "none"
          /\ ts.version[n].lifecycle \notin {"revoked", "cross_check_submitted"}
    BY <1>2, <1>6
  <1>10. CorpusInvOf(ts)
    BY <1>3, <1>4, <1>5, <1>8, <1>9, FreshCorpus
  <1>11. QED
    BY <1>10 DEF ts

LEMMA PreprocessedTaskCorpus == CorpusInvOf(PreprocessedTask)
  <1> DEFINE vr == [n \in VersionNo |->
                      CASE n = 1 -> BaselineRow
                        [] n = 2 -> [NoVersionRow EXCEPT !.lifecycle = "draft",
                                                         !.base = 1]
                        [] OTHER -> NoVersionRow]
             ts == PreprocessedTask
  <1>1. VersionNo \subseteq Int
    BY BoundsAssumption DEF VersionNo
  <1>2. \A n \in VersionNo :
          vr[n].lifecycle = IF n = 1 THEN "baseline"
                            ELSE IF n = 2 THEN "draft" ELSE "none"
    BY DEF BaselineRow, NoVersionRow
  <1>3. /\ ts.status = "pending" /\ ts.current = None
        /\ ts.versions = 2 /\ ts.version = vr
        /\ \A k \in RoundNo : ts.round[k].state = "none"
        /\ ~ Assigned(ts)
    BY TaskWithColumns DEF PreprocessedTask
  <1> HIDE DEF ts, vr
  <1>4. CorpusPointerOf(ts)
    BY <1>2, <1>3 DEF CorpusPointerOf, VersionsIn
  <1>5. \A n \in VersionNo :
          /\ n > 2 => ts.version[n].lifecycle = "none"
          /\ ts.version[n].lifecycle \notin {"revoked", "cross_check_submitted"}
    BY <1>1, <1>2, <1>3
  <1>6. CorpusInvOf(ts)
    BY <1>3, <1>4, <1>5, FreshCorpus
  <1>7. QED
    BY <1>6 DEF ts

LEMMA StartingTasksCorpus == \A ts \in StartingTasks : CorpusInvOf(ts)
  <1>1. ASSUME NEW h, NEW last, NEW p
        PROVE  CorpusInvOf(ImportedAssigned(h, last, p))
    <2> DEFINE id == ImportedDraft(last, p)
               ts == ImportedAssigned(h, last, p)
    <2>1. CorpusInvOf(id) /\ 1 \in Drafts(id)
      BY ImportedDraftCorpus
    <2>2. /\ ts.status = id.status /\ ts.current = id.current
          /\ ts.versions = id.versions /\ ts.version = id.version
          /\ ts.round = id.round /\ ts.assignment.version = 1
      BY DEF ImportedAssigned, ImportedDraft, ImportedTask, TaskWith
    <2> HIDE DEF id, ts
    <2>3. CorpusInvOf(ts)
      BY <2>1, <2>2, SameCorpus
    <2>4. QED
      BY <2>3 DEF ts
  <1>2. \A h, last, p : CorpusInvOf(ImportedAssigned(h, last, p))
    BY <1>1
  <1>3. \A last, p : CorpusInvOf(ImportedDraft(last, p))
    BY ImportedDraftCorpus
  <1>4. \A u, last, p : \A o \in Outcome : CorpusInvOf(ImportedResult(u, last, o, p))
    BY ImportedResultCorpus
  <1>5. QED
    BY <1>2, <1>3, <1>4, PreprocessedTaskCorpus, StartingTasksForms

-----------------------------------------------------------------------------
(* Steps                                                                   *)

\* A step that replaces one task's rows.
LEMMA OneTaskStepCorpus ==
    ASSUME TypeOK, CorpusParts, NEW t \in Task, NEW ts, CorpusInvOf(ts),
           SetTask(t, ts)
    PROVE  CorpusParts'
  BY DEF TypeOK, CorpusParts, SetTask

LEMMA SameTasksCorpus ==
    ASSUME CorpusParts, UNCHANGED task
    PROVE  CorpusParts'
  BY DEF CorpusParts

LEMMA AnnotatorStepCorpus ==
    ASSUME TypeOK, CorpusParts, NEW u \in User, AnnotatorStep(u)
    PROVE  CorpusParts'
  <1>0. \A t \in Task : TaskTyped(task[t]) /\ CorpusInvOf(task[t])
    BY DEF TypeOK, CorpusParts
  <1>1. ASSUME NEW t \in Task, NEW d \in VersionNo, NEW began \in 0 .. MaxActions,
               Claim(u, t, d, began)
        PROVE  CorpusParts'
    <2>1. CorpusInvOf(Claimed(task[t], u, d, began))
      BY <1>0, <1>1, ClaimedKeeps DEF Claim
    <2>2. QED
      BY <1>1, <2>1, OneTaskStepCorpus DEF Claim
  <1>2. ASSUME NEW t \in Task, ClaimCrossCheck(u, t)
        PROVE  CorpusParts'
    <2>1. CorpusInvOf(CrossCheckStarted(task[t], u))
      BY <1>0, <1>2, CrossCheckStartedKeeps DEF ClaimCrossCheck
    <2>2. QED
      BY <1>2, <2>1, OneTaskStepCorpus DEF ClaimCrossCheck
  <1>3. ASSUME NEW t \in Task, SaveDraft(u, t)
        PROVE  CorpusParts'
    <2>1. CorpusInvOf(Saved(task[t], u))
      BY <1>0, SavedKeeps
    <2>2. QED
      BY <1>3, <2>1, OneTaskStepCorpus DEF SaveDraft
  <1>4. ASSUME NEW t \in Task, NEW outcome \in Outcome, Complete(u, t, outcome)
        PROVE  CorpusParts'
    <2>1. CorpusInvOf(Completed(task[t], u, outcome))
      BY <1>0, <1>4, CompletedKeeps DEF Complete
    <2>2. QED
      BY <1>4, <2>1, OneTaskStepCorpus DEF Complete
  <1>5. ASSUME NEW t \in Task, Abandon(u, t)
        PROVE  CorpusParts'
    <2>1. CorpusInvOf(AbandonedBy(task[t]))
      BY <1>0, <1>5, AbandonedByKeeps DEF Abandon
    <2>2. QED
      BY <1>5, <2>1, OneTaskStepCorpus DEF Abandon
  <1>6. ASSUME NEW t \in Task, Reopen(u, t)
        PROVE  CorpusParts'
    <2>1. CorpusInvOf(Reopened(task[t], u))
      BY <1>0, <1>6, ReopenedKeeps DEF Reopen
    <2>2. QED
      BY <1>6, <2>1, OneTaskStepCorpus DEF Reopen
  <1>7. ASSUME NEW t \in Task, NEW outcome \in Outcome,
               NEW needsReview \in BOOLEAN,
               BeginSubmit(u, t, outcome, needsReview)
        PROVE  CorpusParts'
    BY <1>7, SameTasksCorpus DEF BeginSubmit
  <1>8. ASSUME CommitSubmit(u)
        PROVE  CorpusParts'
    <2> DEFINE s == submission[u]
    <2>1. s.task \in Task /\ s.outcome \in Outcome /\ s.needsReview \in BOOLEAN
      BY DEF TypeOK, SubmissionRow
    <2>2. CanFreeze(task[s.task], u, s)
      BY <1>8 DEF CommitSubmit
    <2>3. SetTask(s.task,
                  Frozen(task[s.task], u, s, s.outcome, s.needsReview))
      BY <1>8 DEF CommitSubmit
    <2> HIDE DEF s
    <2>4. CorpusInvOf(Frozen(task[s.task], u, s, s.outcome, s.needsReview))
      BY <1>0, <2>1, <2>2, FrozenKeeps
    <2>5. QED
      BY <2>1, <2>3, <2>4, OneTaskStepCorpus
  <1>9. ASSUME FailSubmit(u)
        PROVE  CorpusParts'
    BY <1>9, SameTasksCorpus DEF FailSubmit
  <1>10. QED
    BY <1>1, <1>2, <1>3, <1>4, <1>5, <1>6, <1>7, <1>8, <1>9 DEF AnnotatorStep

LEMMA OperatorStepCorpus ==
    ASSUME TypeOK, CorpusParts, OperatorStep
    PROVE  CorpusParts'
  <1>0. \A t \in Task : TaskTyped(task[t]) /\ CorpusInvOf(task[t])
    BY DEF TypeOK, CorpusParts
  <1>1. ASSUME NEW t \in Task, Refresh(t)
        PROVE  CorpusParts'
    <2>1. CorpusInvOf(Refreshed(task[t]))
      BY <1>0, RefreshedKeeps
    <2>2. QED
      BY <1>1, <2>1, OneTaskStepCorpus DEF Refresh
  <1>2. ASSUME NEW u \in User, NEW t \in Task, ReleaseByCli(u, t)
        PROVE  CorpusParts'
    <2>1. CorpusInvOf(AbandonedBy(task[t]))
      BY <1>0, <1>2, AbandonedByKeeps DEF ReleaseByCli
    <2>2. QED
      BY <1>2, <2>1, OneTaskStepCorpus DEF ReleaseByCli
  <1>3. QED
    BY <1>1, <1>2 DEF OperatorStep

LEMMA RevokeCorpus ==
    ASSUME TypeOK, CorpusParts, NEW S \in SUBSET Task,
           NEW author \in User \cup {NoUser}, NEW block \in BOOLEAN,
           NEW conflicts \in BOOLEAN, Revoke(S, author, block, conflicts)
    PROVE  CorpusParts'
  <1> DEFINE a == actions + 1
             row(t) == Revoked(task[t], author, a, block)
  <1>1. a \in ActionNo
    BY BoundsAssumption DEF Revoke, TypeOK, ActionNo
  <1>2. \A t \in Task : TaskTyped(task[t]) /\ CorpusInvOf(task[t])
    BY DEF TypeOK, CorpusParts
  <1>3. \A t \in S : CorpusInvOf(row(t))
    BY <1>1, <1>2, RevokedKeeps DEF Revoke
  <1>4. task' = [t \in Task |-> IF t \in S THEN row(t) ELSE task[t]]
    BY DEF Revoke, SetTasks
  <1> HIDE DEF row
  <1>5. QED
    BY <1>2, <1>3, <1>4 DEF CorpusParts

LEMMA RestoreCorpus ==
    ASSUME TypeOK, CorpusParts, NEW S \in SUBSET Task, NEW a \in ActionNo,
           Restore(S, a)
    PROVE  CorpusParts'
  <1> DEFINE r == action[a]
             row(t) == Restored(task[t], a, r.annotator, r.before[t], r.after[t])
  <1>1. \A t \in S : r.before[t] \in VersionNo
    BY DEF Restore, TypeOK, ActionRow
  <1>2. \A t \in Task : TaskTyped(task[t]) /\ CorpusInvOf(task[t])
    BY DEF TypeOK, CorpusParts
  <1>3. \A t \in S : CorpusInvOf(row(t))
    BY <1>1, <1>2, RestoredKeeps DEF Restore
  <1>4. task' = [t \in Task |-> IF t \in S THEN row(t) ELSE task[t]]
    BY DEF Restore, SetTasks
  <1> HIDE DEF row
  <1>5. QED
    BY <1>2, <1>3, <1>4 DEF CorpusParts

LEMMA DeactivateCorpus ==
    ASSUME TypeOK, CorpusParts, NEW u \in User, Deactivate(u)
    PROVE  CorpusParts'
  <1> DEFINE a == actions + 1
             row(t) == Offboarded(task[t], u, a)
  <1>1. a \in ActionNo
    BY BoundsAssumption DEF Deactivate, TypeOK, ActionNo
  <1>2. \A t \in Task : TaskTyped(task[t]) /\ CorpusInvOf(task[t])
    BY DEF TypeOK, CorpusParts
  <1>3. \A t \in Task : CorpusInvOf(row(t))
    BY <1>1, <1>2, OffboardedKeeps DEF Deactivate
  <1>4. task' = [t \in Task |-> row(t)]
    BY DEF Deactivate, SetTasks
  <1> HIDE DEF row
  <1>5. QED
    BY <1>3, <1>4 DEF CorpusParts

LEMMA AdminStepCorpus ==
    ASSUME TypeOK, CorpusParts, AdminStep
    PROVE  CorpusParts'
  <1>0. \A t \in Task : TaskTyped(task[t]) /\ CorpusInvOf(task[t])
    BY DEF TypeOK, CorpusParts
  <1>1. ASSUME UpdateSettings
        PROVE  CorpusParts'
    BY <1>1, SameTasksCorpus DEF UpdateSettings
  <1>2. ASSUME NEW t \in Task, ReleaseAssignment(t)
        PROVE  CorpusParts'
    <2>1. CorpusInvOf(Released(task[t]))
      BY <1>0, <1>2, ReleasedKeeps DEF ReleaseAssignment
    <2>2. QED
      BY <1>2, <2>1, OneTaskStepCorpus DEF ReleaseAssignment
  <1>3. ASSUME NEW t \in Task, NEW k \in RoundNo, NEW decision \in Decision,
               NEW base \in VersionNo, NEW outcome \in Outcome,
               Decide(t, k, decision, base, outcome)
        PROVE  CorpusParts'
    <2>1. CorpusInvOf(Decided(task[t], k, decision, base, outcome))
      BY <1>0, <1>3, DecidedKeeps DEF Decide
    <2>2. QED
      BY <1>3, <2>1, OneTaskStepCorpus DEF Decide
  <1>4. ASSUME NEW t \in Task, NEW k \in RoundNo, Cancel(t, k)
        PROVE  CorpusParts'
    <2>1. CorpusInvOf(Cancelled(task[t], k))
      BY <1>0, <1>4, CancelledKeeps DEF Cancel
    <2>2. QED
      BY <1>4, <2>1, OneTaskStepCorpus DEF Cancel
  <1>5. QED
    BY <1>1, <1>2, <1>3, <1>4, RevokeCorpus, RestoreCorpus, DeactivateCorpus
       DEF AdminStep

-----------------------------------------------------------------------------
(* Theorems                                                                *)

\* The strengthened corpus invariant holds for every number of tasks,
\* annotators, versions, rounds and admin actions.
THEOREM CorpusInvHolds == Spec => []CorpusInv
  <1>1. Init => CorpusInv
    <2>1. Init => CorpusParts
      BY StartingTasksCorpus DEF Init, CorpusParts
    <2>2. QED
      BY <2>1, InitTyped DEF CorpusInv, CorpusParts
  <1>2. ASSUME CorpusInv, [Next]_vars
        PROVE  CorpusInv'
    <2>0. TypeOK /\ CorpusParts
      BY <1>2 DEF CorpusInv, CorpusParts
    <2>1. CASE UNCHANGED vars
      BY <1>2, <2>1 DEF vars, CorpusInv, TypeOK
    <2>2. CASE Next
      <3>1. TypeOK'
        BY <2>0, <2>2, AnnotatorStepTyped, OperatorStepTyped, AdminStepTyped
           DEF Next
      <3>2. CorpusParts'
        BY <2>0, <2>2, AnnotatorStepCorpus, OperatorStepCorpus,
           AdminStepCorpus DEF Next
      <3>3. QED
        BY <3>1, <3>2 DEF CorpusInv, CorpusParts
    <2>3. QED
      BY <1>2, <2>1, <2>2
  <1>3. QED
    BY <1>1, <1>2, PTL DEF Spec

\* A task publishes exactly the version its pointer names, with the status
\* it shows, in every reachable state of the store.
THEOREM CorpusPointerHolds == Spec => []CorpusPointer
  <1>1. CorpusInv => CorpusPointer
    BY DEF CorpusInv, CorpusInvOf, CorpusPointer
  <1>2. QED
    BY <1>1, CorpusInvHolds, PTL

-----------------------------------------------------------------------------
(* Version rows and what is made of them                                   *)

InState(v, lifecycle) == [v EXCEPT !.lifecycle = lifecycle]

RevokedRow(v, a) == [v EXCEPT !.lifecycle = "revoked", !.revokedBy = a]

\* What CloneCleanDraft adds, and Reopened.
CleanRow(ts) ==
    [NoVersionRow EXCEPT !.lifecycle = "draft", !.base = ts.baseline,
                         !.cut = ts.version[ts.baseline].cut]

CorrectionRow(ts) ==
    [NoVersionRow EXCEPT !.lifecycle = "draft", !.target = ts.status,
                         !.base = ts.current, !.cut = ts.version[ts.current].cut]

\* The same text, of the same people.
SameContent(w, v) ==
    /\ w.revision = v.revision /\ w.cut = v.cut /\ w.base = v.base
    /\ w.target = v.target /\ w.purpose = v.purpose /\ w.human = v.human
    /\ w.modifiedBy = v.modifiedBy /\ w.submitter = v.submitter

LEMMA InStateRow ==
    ASSUME NEW v \in VersionRow, NEW l
    PROVE  /\ InState(v, l).lifecycle = l
           /\ SameContent(InState(v, l), v)
           /\ InState(v, l).revokedBy = v.revokedBy
  BY DEF InState, SameContent, VersionRow

LEMMA RevokedRowRow ==
    ASSUME NEW v \in VersionRow, NEW a
    PROVE  /\ RevokedRow(v, a).lifecycle = "revoked"
           /\ SameContent(RevokedRow(v, a), v)
           /\ RevokedRow(v, a).revokedBy = a
  BY DEF RevokedRow, SameContent, VersionRow

LEMMA AbandonIfDraftRow ==
    ASSUME NEW v \in VersionRow
    PROVE  /\ AbandonIfDraft(v) \in VersionRow
           /\ AbandonIfDraft(v).lifecycle =
                IF v.lifecycle = "draft" THEN "abandoned" ELSE v.lifecycle
           /\ SameContent(AbandonIfDraft(v), v)
           /\ AbandonIfDraft(v).revokedBy = v.revokedBy
           /\ v.lifecycle # "draft" => AbandonIfDraft(v) = v
           /\ AbandonIfDraft(AbandonIfDraft(v)) = AbandonIfDraft(v)
  BY DEF AbandonIfDraft, SameContent, VersionRow, Lifecycle

LEMMA SupersedeIfPublishedRow ==
    ASSUME NEW v \in VersionRow
    PROVE  /\ SupersedeIfPublished(v).lifecycle =
                IF v.lifecycle = "published" THEN "superseded" ELSE v.lifecycle
           /\ SameContent(SupersedeIfPublished(v), v)
           /\ SupersedeIfPublished(v).revokedBy = v.revokedBy
  BY DEF SupersedeIfPublished, SameContent, VersionRow

LEMMA EditedRow ==
    ASSUME NEW v \in VersionRow, NEW u
    PROVE  LET w == Edited(v, u) IN
           /\ w.lifecycle = v.lifecycle /\ w.revokedBy = v.revokedBy
           /\ w.cut = v.cut /\ w.base = v.base /\ w.target = v.target
           /\ w.purpose = v.purpose /\ w.submitter = v.submitter
           /\ w.revision = v.revision + 1 /\ w.human /\ w.modifiedBy = u
  BY DEF Edited, VersionRow

LEMMA SubmittedRow ==
    ASSUME NEW v \in VersionRow, NEW u \in User, NEW l, NEW outcome
    PROVE  LET w == Submitted(v, u, l, outcome) IN
           /\ w.lifecycle = l /\ w.revokedBy = v.revokedBy
           /\ w.cut = v.cut /\ w.base = v.base /\ w.target = outcome
           /\ w.purpose = v.purpose /\ w.submitter = u
           /\ w.revision = v.revision + 1 /\ w.human /\ w.modifiedBy = u
  <1>1. Edited(v, u) \in VersionRow
    BY EditedType
  <1>2. LET w == Submitted(v, u, l, outcome)  e == Edited(v, u) IN
        /\ w.lifecycle = l /\ w.revokedBy = e.revokedBy
        /\ w.cut = e.cut /\ w.base = e.base /\ w.target = outcome
        /\ w.purpose = e.purpose /\ w.submitter = u
        /\ w.revision = e.revision /\ w.human = e.human /\ w.modifiedBy = e.modifiedBy
    BY <1>1 DEF Submitted, VersionRow
  <1>3. QED
    BY <1>2, EditedRow

LEMMA RecutRow ==
    ASSUME NEW v \in VersionRow, NEW c, NEW b
    PROVE  LET w == Recut(v, c, b) IN
           /\ w.lifecycle = v.lifecycle /\ w.revokedBy = v.revokedBy
           /\ w.base = v.base /\ w.target = v.target
           /\ w.purpose = v.purpose /\ w.submitter = v.submitter
           /\ w.human = v.human /\ w.modifiedBy = v.modifiedBy
           /\ w.cut = c /\ w.revision = v.revision + b
  BY DEF Recut, VersionRow

LEMMA ReinstatedRow ==
    ASSUME NEW v \in VersionRow
    PROVE  /\ Reinstated(v).lifecycle = "published"
           /\ SameContent(Reinstated(v), v)
           /\ Reinstated(v).revokedBy = None
  BY DEF Reinstated, SameContent, VersionRow

\* What is new has no author, and is about the segmentation its base has.
LEMMA NewRows ==
    /\ \A ts : LET w == CleanRow(ts) IN
          /\ w.lifecycle = "draft" /\ w.purpose = "annotation" /\ w.base = ts.baseline
          /\ w.revision = 0 /\ ~ w.human /\ w.modifiedBy = NoUser /\ w.submitter = NoUser
          /\ w.revokedBy = None /\ w.cut = ts.version[ts.baseline].cut
    /\ \A ts : LET w == CorrectionRow(ts) IN
          /\ w.lifecycle = "draft" /\ w.purpose = "annotation" /\ w.base = ts.current
          /\ w.revision = 0 /\ ~ w.human /\ w.modifiedBy = NoUser /\ w.submitter = NoUser
          /\ w.revokedBy = None /\ w.cut = ts.version[ts.current].cut
    /\ \A ts : LET w == BlindDraft(ts) IN
          /\ w.lifecycle = "draft" /\ w.purpose = "cross_check" /\ w.base = ts.baseline
          /\ w.revision = 0 /\ ~ w.human /\ w.modifiedBy = NoUser /\ w.submitter = NoUser
          /\ w.revokedBy = None /\ w.cut = ts.version[ts.baseline].cut
    /\ \A ts, base, o : LET w == AdminEdit(ts, base, o) IN
          /\ w.lifecycle = "published" /\ w.purpose = "adjudication" /\ w.base = base
          /\ w.target = o /\ w.modifiedBy = NoUser /\ w.submitter = NoUser
          /\ w.revokedBy = None /\ w.cut = ts.version[base].cut
  BY DEF CleanRow, CorrectionRow, BlindDraft, AdminEdit, NoVersionRow, None

-----------------------------------------------------------------------------
(* Round rows and what is made of them                                     *)

RoundInState(r, state) == [r EXCEPT !.state = state]

DecidedRound(r, decision, final) ==
    [r EXCEPT !.state = "adjudicated", !.decision = decision, !.final = final]

StartedRound(ts, u) ==
    [NoRoundRow EXCEPT
        !.state = "in_progress", !.original = ts.current,
        !.originalAnnotator = ts.version[ts.current].submitter,
        !.secondary = ts.versions + 1, !.secondaryAnnotator = u]

\* The same two versions of the same two annotators.
SamePair(q, r) ==
    /\ q.original = r.original /\ q.originalAnnotator = r.originalAnnotator
    /\ q.secondary = r.secondary /\ q.secondaryAnnotator = r.secondaryAnnotator

SameInputs(q, r) ==
    q.originalInput = r.originalInput /\ q.secondaryInput = r.secondaryInput

SameDecision(q, r) == q.decision = r.decision /\ q.final = r.final

LEMMA RoundRows ==
    ASSUME NEW r \in RoundRow
    PROVE  /\ \A s : /\ RoundInState(r, s).state = s
                     /\ SamePair(RoundInState(r, s), r)
                     /\ SameInputs(RoundInState(r, s), r)
                     /\ SameDecision(RoundInState(r, s), r)
           /\ \A snap, b : /\ WithVerdict(r, snap, b).state =
                                IF b THEN "awaiting_review" ELSE "passed"
                           /\ WithVerdict(r, snap, b).originalInput = snap.originalInput
                           /\ WithVerdict(r, snap, b).secondaryInput = snap.secondaryInput
                           /\ SamePair(WithVerdict(r, snap, b), r)
                           /\ SameDecision(WithVerdict(r, snap, b), r)
           /\ \A d, n : /\ DecidedRound(r, d, n).state = "adjudicated"
                        /\ DecidedRound(r, d, n).decision = d
                        /\ DecidedRound(r, d, n).final = n
                        /\ SamePair(DecidedRound(r, d, n), r)
                        /\ SameInputs(DecidedRound(r, d, n), r)
  BY DEF RoundInState, WithVerdict, DecidedRound, SamePair, SameInputs, SameDecision, RoundRow

LEMMA StartedRoundRow ==
    ASSUME NEW ts, NEW u
    PROVE  LET r == StartedRound(ts, u) IN
           /\ r.state = "in_progress" /\ r.original = ts.current
           /\ r.originalAnnotator = ts.version[ts.current].submitter
           /\ r.secondary = ts.versions + 1 /\ r.secondaryAnnotator = u
           /\ r.decision = "none" /\ r.final = None
  BY DEF StartedRound, NoRoundRow, None

-----------------------------------------------------------------------------
(* What each transaction makes of a task                                   *)

SamePointer(tt, ts) == tt.status = ts.status /\ tt.current = ts.current

SameVersions(tt, ts) == tt.versions = ts.versions /\ tt.version = ts.version

SameRounds(tt, ts) == tt.rounds = ts.rounds /\ tt.round = ts.round

SamePeople(tt, ts) == tt.participants = ts.participants /\ tt.blockedBy = ts.blockedBy

ClaimStep(ts, tt, u, d) ==
    /\ CanClaim(ts, u, d)
    /\ SamePointer(tt, ts) /\ SameVersions(tt, ts) /\ SameRounds(tt, ts)
    /\ tt.baseline = ts.baseline /\ tt.reserved = NoUser
    /\ tt.participants = ts.participants \cup {u} /\ tt.blockedBy = ts.blockedBy
    /\ tt.assignment = [user |-> u, version |-> d, mode |-> "annotation", round |-> None]

SaveStep(ts, tt, u) ==
    /\ CanSave(ts, u)
    /\ SamePointer(tt, ts) /\ SameRounds(tt, ts) /\ SamePeople(tt, ts)
    /\ tt.baseline = ts.baseline /\ tt.reserved = ts.reserved
    /\ tt.assignment = ts.assignment /\ tt.versions = ts.versions
    /\ \A n \in VersionNo :
          tt.version[n] = IF n = ts.assignment.version THEN Edited(ts.version[n], u)
                                                       ELSE ts.version[n]

CompleteStep(ts, tt, u, outcome) ==
    /\ CanComplete(ts, u)
    /\ SameRounds(tt, ts) /\ SamePeople(tt, ts)
    /\ tt.baseline = ts.baseline /\ tt.reserved = NoUser
    /\ tt.assignment = NoAssignment /\ tt.versions = ts.versions
    /\ tt.status = outcome /\ tt.current = ts.assignment.version
    /\ \A n \in VersionNo :
          tt.version[n] = IF n = ts.assignment.version
                          THEN Submitted(ts.version[n], u, "published", outcome)
                          ELSE SupersedeIfPublished(ts.version[n])

AbandonStep(ts, tt) ==
    /\ Assigned(ts)
    /\ ts.assignment.mode = "cross_check" => InProgress(ts, ts.assignment.round)
    /\ SamePointer(tt, ts) /\ SamePeople(tt, ts)
    /\ tt.baseline = ts.baseline /\ tt.reserved = ts.reserved
    /\ tt.assignment = NoAssignment /\ tt.versions = ts.versions /\ tt.rounds = ts.rounds
    /\ \A n \in VersionNo :
          tt.version[n] = IF n = ts.assignment.version /\ ts.assignment.mode # "annotation"
                          THEN AbandonIfDraft(ts.version[n]) ELSE ts.version[n]
    /\ \A k \in RoundNo :
          tt.round[k] = IF ts.assignment.mode = "cross_check" /\ k = ts.assignment.round
                        THEN RoundInState(ts.round[k], "cancelled") ELSE ts.round[k]

ReopenStep(ts, tt, u) ==
    /\ CanReopen(ts, u)
    /\ SamePointer(tt, ts) /\ SameRounds(tt, ts) /\ SamePeople(tt, ts)
    /\ tt.baseline = ts.baseline /\ tt.reserved = ts.reserved
    /\ tt.versions = ts.versions + 1
    /\ \A n \in VersionNo :
          tt.version[n] = IF n = ts.versions + 1 THEN CorrectionRow(ts) ELSE ts.version[n]
    /\ tt.assignment = [user |-> u, version |-> ts.versions + 1, mode |-> "revision",
                        round |-> None]

CrossCheckStep(ts, tt, u) ==
    /\ CanCrossCheck(ts, u)
    /\ SamePointer(tt, ts)
    /\ tt.baseline = ts.baseline /\ tt.reserved = ts.reserved
    /\ tt.participants = ts.participants \cup {u} /\ tt.blockedBy = ts.blockedBy
    /\ tt.versions = ts.versions + 1 /\ tt.rounds = ts.rounds + 1
    /\ \A n \in VersionNo :
          tt.version[n] = IF n = ts.versions + 1 THEN BlindDraft(ts) ELSE ts.version[n]
    /\ \A k \in RoundNo :
          tt.round[k] = IF k = ts.rounds + 1 THEN StartedRound(ts, u) ELSE ts.round[k]
    /\ tt.assignment = [user |-> u, version |-> ts.versions + 1, mode |-> "cross_check",
                        round |-> ts.rounds + 1]

FreezeStep(ts, tt, u, snap, outcome, needsReview) ==
    /\ CanFreeze(ts, u, snap)
    /\ SamePointer(tt, ts) /\ SamePeople(tt, ts)
    /\ tt.baseline = ts.baseline /\ tt.reserved = ts.reserved
    /\ tt.assignment = NoAssignment /\ tt.versions = ts.versions /\ tt.rounds = ts.rounds
    /\ \A n \in VersionNo :
          tt.version[n] = IF n = snap.version
                          THEN Submitted(ts.version[n], u, "cross_check_submitted", outcome)
                          ELSE ts.version[n]
    /\ \A k \in RoundNo :
          tt.round[k] = IF k = snap.round THEN WithVerdict(ts.round[k], snap, needsReview)
                                          ELSE ts.round[k]

RefreshStep(ts, tt) ==
    LET cut == ts.version[ts.baseline].cut + 1 IN
    /\ CanRefresh(ts)
    /\ SamePointer(tt, ts) /\ SameRounds(tt, ts) /\ SamePeople(tt, ts)
    /\ tt.baseline = ts.baseline /\ tt.reserved = ts.reserved
    /\ tt.assignment = ts.assignment /\ tt.versions = ts.versions
    /\ \A n \in VersionNo :
          tt.version[n] = IF n \in Drafts(ts) THEN Recut(ts.version[n], cut, 1)
                          ELSE IF n = ts.baseline THEN Recut(ts.version[n], cut, 0)
                          ELSE ts.version[n]

\* Every draft is thrown away; an unpublished task gets a clean one.
ReleaseStep(ts, tt) ==
    /\ Assigned(ts) /\ CanReleaseDraft(ts)
    /\ SamePointer(tt, ts) /\ SamePeople(tt, ts)
    /\ tt.baseline = ts.baseline /\ tt.reserved \in {ts.reserved, NoUser}
    /\ tt.assignment = NoAssignment /\ tt.rounds = ts.rounds
    /\ \A k \in RoundNo :
          tt.round[k] = IF ts.assignment.mode = "cross_check" /\ k = ts.assignment.round
                        THEN RoundInState(ts.round[k], "cancelled") ELSE ts.round[k]
    /\ IF NeedsCleanDraft(ts)
       THEN /\ RoomForVersion(ts) /\ tt.versions = ts.versions + 1
            /\ \A n \in VersionNo :
                  tt.version[n] = IF n = ts.versions + 1 THEN CleanRow(ts)
                                  ELSE AbandonIfDraft(ts.version[n])
       ELSE /\ tt.versions = ts.versions
            /\ \A n \in VersionNo : tt.version[n] = AbandonIfDraft(ts.version[n])

ReserveStep(ts, tt) ==
    /\ SamePointer(tt, ts) /\ SameVersions(tt, ts) /\ SameRounds(tt, ts) /\ SamePeople(tt, ts)
    /\ tt.baseline = ts.baseline /\ tt.assignment = ts.assignment
    /\ tt.reserved \in {ts.reserved, NoUser}

RevokeStep(ts, tt, author, a, block) ==
    /\ ts.current # None /\ RoomForVersion(ts)
    /\ ts.version[ts.current].lifecycle = "published"
    /\ ts.version[ts.current].submitter = author
    /\ tt.status = "pending" /\ tt.current = None /\ tt.reserved = NoUser
    /\ tt.baseline = ts.baseline /\ tt.participants = ts.participants
    /\ tt.assignment = NoAssignment /\ tt.rounds = ts.rounds
    /\ tt.versions = ts.versions + 1
    /\ \A n \in VersionNo :
          tt.version[n] = IF n = ts.versions + 1 THEN CleanRow(ts)
                          ELSE IF n = ts.current THEN RevokedRow(ts.version[n], a)
                          ELSE AbandonIfDraft(ts.version[n])
    /\ \A k \in RoundNo :
          tt.round[k] = IF k \in OpenRounds(ts) THEN RoundInState(ts.round[k], "invalidated")
                                                ELSE ts.round[k]
    /\ tt.blockedBy = IF block /\ author # NoUser THEN [ts.blockedBy EXCEPT ![author] = a]
                                                  ELSE ts.blockedBy

RestoreStep(ts, tt, a, author, before, after) ==
    /\ CanRestore(ts, a, author, before, after)
    /\ SameRounds(tt, ts) /\ tt.participants = ts.participants
    /\ tt.baseline = ts.baseline /\ tt.reserved = ts.reserved
    /\ tt.assignment = ts.assignment /\ tt.versions = ts.versions
    /\ tt.status = ts.version[before].target /\ tt.current = before
    /\ \A n \in VersionNo :
          tt.version[n] = IF n = before THEN Reinstated(ts.version[n])
                          ELSE IF n = after THEN InState(ts.version[n], "abandoned")
                          ELSE ts.version[n]
    /\ tt.blockedBy = BarsWithout(ts, a, author)

\* What the decisions have in common: round k is closed, and "final" is published.
DecideStep(ts, tt, k, decision, final) ==
    /\ CanDecide(ts, k) /\ CanReplace(ts, k, decision)
    /\ SamePeople(tt, ts) /\ tt.rounds = ts.rounds
    /\ tt.baseline = ts.baseline /\ tt.reserved = ts.reserved
    /\ tt.assignment = ts.assignment
    /\ tt.current = final
    /\ \A j \in RoundNo :
          tt.round[j] = IF j = k THEN DecidedRound(ts.round[j], decision, final)
                                 ELSE ts.round[j]

KeepStep(ts, tt, k) ==
    /\ DecideStep(ts, tt, k, "original", ts.current)
    /\ tt.status = ts.status /\ SameVersions(tt, ts)

SecondStep(ts, tt, k) ==
    LET second == ts.round[k].secondary IN
    /\ DecideStep(ts, tt, k, "secondary", second)
    /\ tt.status = ts.version[second].target /\ tt.versions = ts.versions
    /\ \A n \in VersionNo :
          tt.version[n] = IF n = second THEN InState(ts.version[n], "published")
                          ELSE IF n = ts.current THEN InState(ts.version[n], "superseded")
                          ELSE ts.version[n]

EditStep(ts, tt, k, base, outcome) ==
    /\ DecideStep(ts, tt, k, "edited", ts.versions + 1)
    /\ RoomForVersion(ts) /\ base \in {ts.round[k].original, ts.round[k].secondary}
    /\ tt.status = outcome /\ tt.versions = ts.versions + 1
    /\ \A n \in VersionNo :
          tt.version[n] = IF n = ts.versions + 1 THEN AdminEdit(ts, base, outcome)
                          ELSE IF n = ts.current THEN InState(ts.version[n], "superseded")
                          ELSE ts.version[n]

CancelStep(ts, tt, k) ==
    /\ CanCancel(ts, k)
    /\ SamePointer(tt, ts) /\ SamePeople(tt, ts)
    /\ tt.baseline = ts.baseline /\ tt.reserved = ts.reserved
    /\ tt.assignment = NoAssignment /\ tt.versions = ts.versions /\ tt.rounds = ts.rounds
    /\ \A n \in VersionNo :
          tt.version[n] = IF n = ts.round[k].secondary THEN AbandonIfDraft(ts.version[n])
                                                       ELSE ts.version[n]
    /\ \A j \in RoundNo :
          tt.round[j] = IF j = k THEN RoundInState(ts.round[j], "cancelled") ELSE ts.round[j]

-----------------------------------------------------------------------------
(* The transactions are those steps                                        *)

LEMMA ClaimedIsStep ==
    ASSUME NEW ts, TaskTyped(ts), NEW u, NEW d, CanClaim(ts, u, d), NEW began
    PROVE  ClaimStep(ts, Claimed(ts, u, d, began), u, d)
  BY DEF ClaimStep, Claimed, SamePointer, SameVersions, SameRounds, TaskTyped, TaskRow

LEMMA SavedIsStep ==
    ASSUME NEW ts, TaskTyped(ts), NEW u, CanSave(ts, u)
    PROVE  SaveStep(ts, Saved(ts, u), u)
  <1> DEFINE w  == ts.assignment.version
             vs == [ts.version EXCEPT ![w] = Edited(ts.version[w], u)]
  <1>1. Saved(ts, u) = [ts EXCEPT !.version = vs]
    BY DEF Saved
  <1>2. \A n \in VersionNo : vs[n] = IF n = w THEN Edited(ts.version[n], u) ELSE ts.version[n]
    BY DEF TaskTyped, TaskRow
  <1> HIDE DEF vs
  <1>3. QED
    BY <1>1, <1>2 DEF SaveStep, SamePointer, SameRounds, SamePeople, TaskTyped, TaskRow

LEMMA CompletedIsStep ==
    ASSUME NEW ts, TaskTyped(ts), NEW u, NEW outcome, CanComplete(ts, u)
    PROVE  CompleteStep(ts, Completed(ts, u, outcome), u, outcome)
  BY DEF CompleteStep, Completed, SameRounds, SamePeople, TaskTyped, TaskRow

LEMMA RowsWith ==
    ASSUME NEW ts, TaskTyped(ts)
    PROVE  /\ ts.version \in [VersionNo -> VersionRow] /\ ts.round \in [RoundNo -> RoundRow]
           /\ \A n \in VersionNo : ts.version[n] \in VersionRow
           /\ \A k \in RoundNo : ts.round[k] \in RoundRow
           /\ ts.current \in {None} \cup VersionNo /\ ts.baseline \in VersionNo
           /\ ts.assignment \in AssignmentRow
           /\ ts.versions \in Nat /\ ts.rounds \in Nat
           /\ ts.reserved \in User \cup {NoUser} /\ ts.status \in Status
           /\ ts.blockedBy \in [User -> {None} \cup ActionNo] /\ ts.participants \in SUBSET User
  BY BoundsAssumption DEF TaskTyped, TaskRow, VersionNo, RoundNo

\* A round put into another state, and drafts abandoned: column by column.
LEMMA SetRoundStateColumns ==
    ASSUME NEW ts, TaskTyped(ts), NEW k \in RoundNo, NEW state
    PROVE  LET tt == SetRoundState(ts, k, state) IN
           /\ SamePointer(tt, ts) /\ SameVersions(tt, ts) /\ SamePeople(tt, ts)
           /\ tt.baseline = ts.baseline /\ tt.reserved = ts.reserved
           /\ tt.assignment = ts.assignment /\ tt.rounds = ts.rounds
           /\ \A j \in RoundNo :
                 tt.round[j] = IF j = k THEN RoundInState(ts.round[j], state) ELSE ts.round[j]
  BY DEF SetRoundState, RoundInState, SamePointer, SameVersions, SamePeople, TaskTyped, TaskRow

LEMMA AbandonDraftsColumns ==
    ASSUME NEW ts, TaskTyped(ts), NEW gone
    PROVE  LET tt == AbandonDrafts(ts, gone) IN
           /\ SamePointer(tt, ts) /\ SameRounds(tt, ts) /\ SamePeople(tt, ts)
           /\ tt.baseline = ts.baseline /\ tt.reserved = ts.reserved
           /\ tt.assignment = ts.assignment /\ tt.versions = ts.versions
           /\ \A n \in VersionNo :
                 tt.version[n] = IF n \in gone THEN AbandonIfDraft(ts.version[n])
                                               ELSE ts.version[n]
  BY DEF AbandonDrafts, SamePointer, SameRounds, SamePeople, TaskTyped, TaskRow

LEMMA UnassignColumns ==
    ASSUME NEW ts, TaskTyped(ts)
    PROVE  LET tt == Unassign(ts) IN
           /\ SamePointer(tt, ts) /\ SameVersions(tt, ts) /\ SameRounds(tt, ts)
           /\ SamePeople(tt, ts) /\ tt.baseline = ts.baseline
           /\ tt.reserved = ts.reserved /\ tt.assignment = NoAssignment
  BY DEF Unassign, SamePointer, SameVersions, SameRounds, SamePeople, TaskTyped, TaskRow

\* A version added, with its number.
LEMMA AddVersionColumns ==
    ASSUME NEW ts, TaskTyped(ts), RoomForVersion(ts), NEW row
    PROVE  LET tt == AddVersion(ts, row) IN
           /\ SamePointer(tt, ts) /\ SameRounds(tt, ts) /\ SamePeople(tt, ts)
           /\ tt.baseline = ts.baseline /\ tt.reserved = ts.reserved
           /\ tt.assignment = ts.assignment /\ tt.versions = ts.versions + 1
           /\ \A n \in VersionNo :
                 tt.version[n] = IF n = ts.versions + 1 THEN row ELSE ts.version[n]
  <1>1. ts.versions + 1 \in VersionNo
    BY NextVersionNo
  <1>2. QED
    BY <1>1 DEF AddVersion, SamePointer, SameRounds, SamePeople, TaskTyped, TaskRow

LEMMA CloneCleanDraftIs ==
    ASSUME NEW ts
    PROVE  CloneCleanDraft(ts) = AddVersion(ts, CleanRow(ts))
  BY DEF CloneCleanDraft, CleanRow

LEMMA CancelInProgressCrossCheckColumns ==
    ASSUME NEW ts, TaskTyped(ts), InProgress(ts, ts.assignment.round)
    PROVE  LET tt == CancelInProgressCrossCheck(ts) IN
           /\ SamePointer(tt, ts) /\ SamePeople(tt, ts)
           /\ tt.baseline = ts.baseline /\ tt.reserved = ts.reserved
           /\ tt.assignment = ts.assignment /\ tt.versions = ts.versions
           /\ tt.rounds = ts.rounds
           /\ \A n \in VersionNo :
                 tt.version[n] = IF n = ts.assignment.version
                                 THEN AbandonIfDraft(ts.version[n]) ELSE ts.version[n]
           /\ \A k \in RoundNo :
                 tt.round[k] = IF k = ts.assignment.round
                               THEN RoundInState(ts.round[k], "cancelled") ELSE ts.round[k]
  <1> DEFINE closed == SetRoundState(ts, ts.assignment.round, "cancelled")
             gone   == {ts.assignment.version}
             tt     == AbandonDrafts(closed, gone)
  <1>1. TaskTyped(closed) /\ ts.assignment.round \in RoundNo
    BY InProgressIsOpen, SetRoundStateType DEF InProgress, RoundState
  <1>2. /\ SamePointer(closed, ts) /\ SameVersions(closed, ts) /\ SamePeople(closed, ts)
        /\ closed.baseline = ts.baseline /\ closed.reserved = ts.reserved
        /\ closed.assignment = ts.assignment /\ closed.rounds = ts.rounds
        /\ \A j \in RoundNo :
              closed.round[j] = IF j = ts.assignment.round
                                THEN RoundInState(ts.round[j], "cancelled") ELSE ts.round[j]
    BY <1>1, SetRoundStateColumns
  <1>3. CancelInProgressCrossCheck(ts) = tt
    BY DEF CancelInProgressCrossCheck
  <1> HIDE DEF closed
  <1>4. /\ SamePointer(tt, closed) /\ SameRounds(tt, closed) /\ SamePeople(tt, closed)
        /\ tt.baseline = closed.baseline /\ tt.reserved = closed.reserved
        /\ tt.assignment = closed.assignment /\ tt.versions = closed.versions
        /\ \A n \in VersionNo :
              tt.version[n] = IF n \in gone THEN AbandonIfDraft(closed.version[n])
                                            ELSE closed.version[n]
    BY <1>1, AbandonDraftsColumns
  <1> HIDE DEF tt
  <1>5. QED
    BY <1>2, <1>3, <1>4 DEF SamePointer, SameVersions, SameRounds, SamePeople

LEMMA AbandonedByIsStep ==
    ASSUME NEW ts, TaskTyped(ts), NEW u \in User, CanAbandon(ts, u)
    PROVE  AbandonStep(ts, AbandonedBy(ts))
  <1> DEFINE a == ts.assignment
  <1>1. a.mode \in Mode /\ Assigned(ts)
    BY NoUserAssumption DEF CanAbandon, CanSave, Assigned, TaskTyped, TaskRow, AssignmentRow
  <1>2. a.mode = "cross_check" => InProgress(ts, a.round)
    BY DEF CanAbandon, CanSave
  <1>3. CASE a.mode = "cross_check"
    <2> DEFINE tt == CancelInProgressCrossCheck(ts)
    <2>1. TaskTyped(tt) /\ AbandonedBy(ts) = Unassign(tt)
      BY <1>2, <1>3, CancelInProgressCrossCheckType DEF AbandonedBy
    <2>2. /\ SamePointer(tt, ts) /\ SamePeople(tt, ts)
          /\ tt.baseline = ts.baseline /\ tt.reserved = ts.reserved
          /\ tt.versions = ts.versions /\ tt.rounds = ts.rounds
          /\ \A n \in VersionNo :
                tt.version[n] = IF n = a.version THEN AbandonIfDraft(ts.version[n])
                                                 ELSE ts.version[n]
          /\ \A k \in RoundNo :
                tt.round[k] = IF k = a.round THEN RoundInState(ts.round[k], "cancelled")
                                             ELSE ts.round[k]
      BY <1>2, <1>3, CancelInProgressCrossCheckColumns
    <2> HIDE DEF tt
    <2>3. QED
      BY <1>1, <1>2, <1>3, <2>1, <2>2, UnassignColumns
         DEF AbandonStep, SamePointer, SameVersions, SameRounds, SamePeople
  <1>4. CASE a.mode = "revision"
    <2> DEFINE gone == {a.version}
               tt == AbandonDrafts(ts, gone)
    <2>1. TaskTyped(tt) /\ AbandonedBy(ts) = Unassign(tt)
      BY <1>4, AbandonDraftsType DEF AbandonedBy
    <2>2. /\ SamePointer(tt, ts) /\ SameRounds(tt, ts) /\ SamePeople(tt, ts)
          /\ tt.baseline = ts.baseline /\ tt.reserved = ts.reserved
          /\ tt.versions = ts.versions
          /\ \A n \in VersionNo :
                tt.version[n] = IF n \in gone THEN AbandonIfDraft(ts.version[n])
                                              ELSE ts.version[n]
      BY AbandonDraftsColumns
    <2> HIDE DEF tt
    <2>3. QED
      BY <1>1, <1>2, <1>4, <2>1, <2>2, UnassignColumns
         DEF AbandonStep, SamePointer, SameVersions, SameRounds, SamePeople
  <1>5. CASE a.mode = "annotation"
    <2>1. AbandonedBy(ts) = Unassign(ts)
      BY <1>5 DEF AbandonedBy
    <2>2. QED
      BY <1>1, <1>2, <1>5, <2>1, UnassignColumns
         DEF AbandonStep, SamePointer, SameVersions, SameRounds, SamePeople
  <1>6. QED
    BY <1>1, <1>3, <1>4, <1>5 DEF Mode

LEMMA ReopenedIsStep ==
    ASSUME NEW ts, TaskTyped(ts), NEW u \in User, CanReopen(ts, u)
    PROVE  ReopenStep(ts, Reopened(ts, u), u)
  <1> DEFINE ad == AddVersion(ts, CorrectionRow(ts))
             a  == [user |-> u, version |-> ts.versions + 1, mode |-> "revision",
                    round |-> None]
  <1>1. Reopened(ts, u) = [ad EXCEPT !.assignment = a]
    BY DEF Reopened, CorrectionRow
  <1>2. CorrectionRow(ts) \in VersionRow /\ RoomForVersion(ts)
    BY DEF CanReopen, CorrectionRow, TaskTyped, TaskRow, VersionRow, NoVersionRow, Lifecycle,
           Purpose, Status
  <1>3. TaskTyped(ad)
    BY <1>2, AddVersionType
  <1>4. /\ SamePointer(ad, ts) /\ SameRounds(ad, ts) /\ SamePeople(ad, ts)
        /\ ad.baseline = ts.baseline /\ ad.reserved = ts.reserved
        /\ ad.versions = ts.versions + 1
        /\ \A n \in VersionNo :
              ad.version[n] = IF n = ts.versions + 1 THEN CorrectionRow(ts) ELSE ts.version[n]
    BY <1>2, AddVersionColumns
  <1> HIDE DEF ad, a
  <1>5. LET tt == [ad EXCEPT !.assignment = a] IN
        /\ SamePointer(tt, ad) /\ SameVersions(tt, ad) /\ SameRounds(tt, ad)
        /\ SamePeople(tt, ad) /\ tt.baseline = ad.baseline
        /\ tt.reserved = ad.reserved /\ tt.assignment = a
    BY <1>3 DEF SamePointer, SameVersions, SameRounds, SamePeople, TaskTyped, TaskRow
  <1>6. QED
    BY <1>1, <1>4, <1>5
       DEF ReopenStep, SamePointer, SameVersions, SameRounds, SamePeople, a

LEMMA CrossCheckStartedIsStep ==
    ASSUME NEW ts, TaskTyped(ts), NEW u \in User, CanCrossCheck(ts, u)
    PROVE  CrossCheckStep(ts, CrossCheckStarted(ts, u), u)
  <1> DEFINE ad == AddVersion(ts, BlindDraft(ts))
             k  == ts.rounds + 1
             r  == StartedRound(ts, u)
             a  == SecondAssignment(u, ts.versions + 1, k)
             rs == [ad.round EXCEPT ![k] = r]
  <1>1. CrossCheckStarted(ts, u) =
          [ad EXCEPT !.rounds = k, !.round = rs, !.assignment = a,
                     !.participants = ad.participants \cup {u}]
    BY DEF CrossCheckStarted, StartedRound
  <1>2. BlindDraft(ts) \in VersionRow /\ RoomForVersion(ts)
    BY DEF CanCrossCheck, BlindDraft, TaskTyped, TaskRow, VersionRow, NoVersionRow, Lifecycle,
           Purpose, Status
  <1>3. TaskTyped(ad)
    BY <1>2, AddVersionType
  <1>4. /\ SamePointer(ad, ts) /\ SameRounds(ad, ts) /\ SamePeople(ad, ts)
        /\ ad.baseline = ts.baseline /\ ad.reserved = ts.reserved
        /\ ad.versions = ts.versions + 1
        /\ \A n \in VersionNo :
              ad.version[n] = IF n = ts.versions + 1 THEN BlindDraft(ts) ELSE ts.version[n]
    BY <1>2, AddVersionColumns
  <1>5. a = [user |-> u, version |-> ts.versions + 1, mode |-> "cross_check",
             round |-> ts.rounds + 1]
    BY DEF SecondAssignment
  <1>6. k \in RoundNo
    BY BoundsAssumption DEF CanCrossCheck, TaskTyped, TaskRow, RoundNo
  <1> HIDE DEF ad, a, r
  <1>7. \A j \in RoundNo : rs[j] = IF j = k THEN r ELSE ad.round[j]
    BY <1>3, <1>6 DEF TaskTyped, TaskRow
  <1> HIDE DEF rs, k
  <1>8. LET tt == [ad EXCEPT !.rounds = k, !.round = rs, !.assignment = a,
                             !.participants = ad.participants \cup {u}] IN
        /\ SamePointer(tt, ad) /\ SameVersions(tt, ad)
        /\ tt.rounds = k /\ tt.round = rs /\ tt.assignment = a
        /\ tt.participants = ad.participants \cup {u} /\ tt.blockedBy = ad.blockedBy
        /\ tt.baseline = ad.baseline /\ tt.reserved = ad.reserved
    BY <1>3 DEF SamePointer, SameVersions, TaskTyped, TaskRow
  <1> HIDE DEF CrossCheckStarted
  <1>9. QED
    BY <1>1, <1>4, <1>5, <1>7, <1>8
       DEF CrossCheckStep, SamePointer, SameVersions, SameRounds, SamePeople, k, r

LEMMA FrozenIsStep ==
    ASSUME NEW ts, TaskTyped(ts), NEW u, NEW snap, NEW outcome, NEW needsReview,
           CanFreeze(ts, u, snap)
    PROVE  FreezeStep(ts, Frozen(ts, u, snap, outcome, needsReview), u, snap, outcome,
                      needsReview)
  <1> DEFINE w == snap.version
             k == snap.round
             v == Submitted(ts.version[w], u, "cross_check_submitted", outcome)
             r == WithVerdict(ts.round[k], snap, needsReview)
             vs == [ts.version EXCEPT ![w] = v]
             rs == [ts.round EXCEPT ![k] = r]
  <1>1. Frozen(ts, u, snap, outcome, needsReview) =
          [ts EXCEPT !.version = vs, !.round = rs, !.assignment = NoAssignment]
    BY DEF Frozen
  <1>2. /\ \A n \in VersionNo : vs[n] = IF n = w THEN v ELSE ts.version[n]
        /\ \A j \in RoundNo : rs[j] = IF j = k THEN r ELSE ts.round[j]
    BY DEF TaskTyped, TaskRow
  <1> HIDE DEF vs, rs
  <1>3. QED
    BY <1>1, <1>2 DEF FreezeStep, SamePointer, SamePeople, TaskTyped, TaskRow

LEMMA RefreshedIsStep ==
    ASSUME NEW ts, TaskTyped(ts), CanRefresh(ts)
    PROVE  RefreshStep(ts, Refreshed(ts))
  BY DEF RefreshStep, Refreshed, SamePointer, SameRounds, SamePeople, TaskTyped, TaskRow

\* Releasing a draft, before a clean one is added.
LEMMA DraftReleasedColumns ==
    ASSUME NEW ts, TaskTyped(ts), CanReleaseDraft(ts)
    PROVE  LET tt == DraftReleased(ts) IN
           /\ SamePointer(tt, ts) /\ SamePeople(tt, ts)
           /\ tt.baseline = ts.baseline /\ tt.reserved = ts.reserved
           /\ tt.assignment = NoAssignment /\ tt.versions = ts.versions
           /\ tt.rounds = ts.rounds
           /\ \A n \in VersionNo : tt.version[n] = AbandonIfDraft(ts.version[n])
           /\ \A k \in RoundNo :
                 tt.round[k] = IF ts.assignment.mode = "cross_check" /\ k = ts.assignment.round
                               THEN RoundInState(ts.round[k], "cancelled") ELSE ts.round[k]
  <1> DEFINE crossed == ts.assignment.mode = "cross_check"
             rest == IF crossed THEN CancelInProgressCrossCheck(ts) ELSE ts
             gone == AbandonDrafts(rest, VersionNo)
  <1>1. DraftReleased(ts) = Unassign(gone)
    BY DEF DraftReleased
  <1>2. crossed => InProgress(ts, ts.assignment.round)
    BY DEF CanReleaseDraft
  <1>3. TaskTyped(rest)
    BY <1>2, CancelInProgressCrossCheckType
  <1>4. /\ SamePointer(rest, ts) /\ SamePeople(rest, ts)
        /\ rest.baseline = ts.baseline /\ rest.reserved = ts.reserved
        /\ rest.versions = ts.versions /\ rest.rounds = ts.rounds
        /\ \A n \in VersionNo :
              rest.version[n] = ts.version[n] \/ rest.version[n] = AbandonIfDraft(ts.version[n])
        /\ \A k \in RoundNo :
              rest.round[k] = IF crossed /\ k = ts.assignment.round
                              THEN RoundInState(ts.round[k], "cancelled") ELSE ts.round[k]
    <2>1. CASE crossed
      BY <1>2, <2>1, CancelInProgressCrossCheckColumns
    <2>2. CASE ~ crossed
      BY <2>2 DEF SamePointer, SamePeople
    <2>3. QED
      BY <2>1, <2>2
  <1> HIDE DEF rest, crossed
  <1>5. /\ TaskTyped(gone) /\ SamePointer(gone, rest) /\ SameRounds(gone, rest)
        /\ SamePeople(gone, rest) /\ gone.baseline = rest.baseline
        /\ gone.reserved = rest.reserved /\ gone.versions = rest.versions
        /\ \A n \in VersionNo : gone.version[n] = AbandonIfDraft(rest.version[n])
    BY <1>3, AbandonDraftsType, AbandonDraftsColumns
  <1> HIDE DEF gone
  <1>6. \A n \in VersionNo : gone.version[n] = AbandonIfDraft(ts.version[n])
    BY <1>4, <1>5, AbandonIfDraftRow, RowsWith
  <1>7. QED
    BY <1>1, <1>4, <1>5, <1>6, UnassignColumns
       DEF SamePointer, SameVersions, SameRounds, SamePeople, crossed

\* ... and with it.
LEMMA CleanAfterRelease ==
    ASSUME NEW ts, TaskTyped(ts), CanReleaseDraft(ts), RoomForVersion(ts)
    PROVE  LET tt == CloneCleanDraft(DraftReleased(ts)) IN
           /\ TaskTyped(tt) /\ SamePointer(tt, ts) /\ SamePeople(tt, ts)
           /\ tt.baseline = ts.baseline /\ tt.reserved = ts.reserved
           /\ tt.assignment = NoAssignment /\ tt.versions = ts.versions + 1
           /\ tt.rounds = ts.rounds
           /\ \A n \in VersionNo :
                 tt.version[n] = IF n = ts.versions + 1 THEN CleanRow(ts)
                                 ELSE AbandonIfDraft(ts.version[n])
           /\ \A k \in RoundNo :
                 tt.round[k] = IF ts.assignment.mode = "cross_check" /\ k = ts.assignment.round
                               THEN RoundInState(ts.round[k], "cancelled") ELSE ts.round[k]
  <1> DEFINE free == DraftReleased(ts)
             tt == AddVersion(free, CleanRow(free))
  <1>1. /\ TaskTyped(free) /\ SamePointer(free, ts) /\ SamePeople(free, ts)
        /\ free.baseline = ts.baseline /\ free.reserved = ts.reserved
        /\ free.assignment = NoAssignment /\ free.versions = ts.versions
        /\ free.rounds = ts.rounds
        /\ \A n \in VersionNo : free.version[n] = AbandonIfDraft(ts.version[n])
        /\ \A k \in RoundNo :
              free.round[k] = IF ts.assignment.mode = "cross_check" /\ k = ts.assignment.round
                              THEN RoundInState(ts.round[k], "cancelled") ELSE ts.round[k]
    BY DraftReleasedType, DraftReleasedColumns
  <1> HIDE DEF free
  <1>2. CleanRow(free) = CleanRow(ts)
    <2>1. ts.baseline \in VersionNo /\ ts.version[ts.baseline] \in VersionRow
      BY RowsWith
    <2>2. free.version[free.baseline].cut = ts.version[ts.baseline].cut
      BY <1>1, <2>1, AbandonIfDraftRow DEF SameContent
    <2>3. QED
      BY <1>1, <2>2 DEF CleanRow
  <1>3. RoomForVersion(free)
    BY <1>1 DEF RoomForVersion
  <1>4. TaskTyped(tt)
    BY <1>1, <1>3, CloneCleanDraftType, CloneCleanDraftIs
  <1>5. /\ SamePointer(tt, free) /\ SameRounds(tt, free) /\ SamePeople(tt, free)
        /\ tt.baseline = free.baseline /\ tt.reserved = free.reserved
        /\ tt.assignment = free.assignment /\ tt.versions = free.versions + 1
        /\ \A n \in VersionNo :
              tt.version[n] = IF n = free.versions + 1 THEN CleanRow(free) ELSE free.version[n]
    BY <1>1, <1>3, AddVersionColumns
  <1>6. CloneCleanDraft(free) = tt
    BY CloneCleanDraftIs
  <1> HIDE DEF tt
  <1>7. QED
    BY <1>1, <1>2, <1>4, <1>5, <1>6 DEF SamePointer, SameRounds, SamePeople, free

LEMMA NewReservationColumns ==
    ASSUME NEW ts, TaskTyped(ts), NEW u
    PROVE  LET tt == [ts EXCEPT !.reserved = u] IN
           /\ SamePointer(tt, ts) /\ SameVersions(tt, ts) /\ SameRounds(tt, ts)
           /\ SamePeople(tt, ts) /\ tt.baseline = ts.baseline
           /\ tt.reserved = u /\ tt.assignment = ts.assignment
  BY DEF SamePointer, SameVersions, SameRounds, SamePeople, TaskTyped, TaskRow

\* A release, whatever becomes of the reservation.
LEMMA ReleaseForms ==
    ASSUME NEW ts, TaskTyped(ts), Assigned(ts), CanReleaseDraft(ts),
           NeedsCleanDraft(ts) => RoomForVersion(ts),
           NEW free, free = (IF NeedsCleanDraft(ts) THEN CloneCleanDraft(DraftReleased(ts))
                             ELSE DraftReleased(ts))
    PROVE  /\ ReleaseStep(ts, free)
           /\ ReleaseStep(ts, [free EXCEPT !.reserved = NoUser])
           /\ TaskTyped(free) /\ free.reserved = ts.reserved
  <1>1. TaskTyped(free) /\ free.reserved = ts.reserved /\ ReleaseStep(ts, free)
    <2>1. CASE NeedsCleanDraft(ts)
      BY <2>1, CleanAfterRelease DEF ReleaseStep
    <2>2. CASE ~ NeedsCleanDraft(ts)
      BY <2>2, DraftReleasedType, DraftReleasedColumns DEF ReleaseStep
    <2>3. QED
      BY <2>1, <2>2
  <1> DEFINE tt == [free EXCEPT !.reserved = NoUser]
  <1>2. /\ SamePointer(tt, free) /\ SameVersions(tt, free) /\ SameRounds(tt, free)
        /\ SamePeople(tt, free) /\ tt.baseline = free.baseline
        /\ tt.reserved = NoUser /\ tt.assignment = free.assignment
    BY <1>1, NewReservationColumns
  <1> HIDE DEF tt
  <1>3. ReleaseStep(ts, tt)
    BY <1>1, <1>2 DEF ReleaseStep, SamePointer, SameVersions, SameRounds, SamePeople
  <1>4. QED
    BY <1>1, <1>3 DEF tt

LEMMA ReleasedIsStep ==
    ASSUME NEW ts, TaskTyped(ts), CanRelease(ts)
    PROVE  ReleaseStep(ts, Released(ts))
  BY ReleaseForms DEF CanRelease, Released

LEMMA LetGoIsStep ==
    ASSUME NEW ts, TaskTyped(ts), NEW u \in User, CanOffboard(ts, u)
    PROVE  /\ ReleaseStep(ts, LetGo(ts, u)) \/ ReserveStep(ts, LetGo(ts, u))
           /\ LetGo(ts, u).assignment.user # u /\ LetGo(ts, u).reserved # u
  <1> DEFINE free == IF ts.assignment.user # u THEN ts
                     ELSE IF NeedsCleanDraft(ts) THEN CloneCleanDraft(DraftReleased(ts))
                     ELSE DraftReleased(ts)
             r  == ReservationWithout(free, u)
             tt == [free EXCEPT !.reserved = r]
  <1>1. LetGo(ts, u) = tt
    BY DEF LetGo
  <1>2. /\ TaskTyped(free) /\ free.reserved = ts.reserved /\ free.assignment.user # u
        /\ \/ ReleaseStep(ts, free) /\ ReleaseStep(ts, [free EXCEPT !.reserved = NoUser])
           \/ free = ts
    <2>1. CASE ts.assignment.user # u
      BY <2>1
    <2>2. CASE ts.assignment.user = u
      <3>1. Assigned(ts) /\ CanReleaseDraft(ts) /\ (NeedsCleanDraft(ts) => RoomForVersion(ts))
        BY <2>2, NoUserAssumption DEF CanOffboard, Assigned
      <3>2. /\ ReleaseStep(ts, free) /\ ReleaseStep(ts, [free EXCEPT !.reserved = NoUser])
            /\ TaskTyped(free) /\ free.reserved = ts.reserved
        BY <2>2, <3>1, ReleaseForms
      <3>3. free.assignment.user = NoUser
        BY <3>2 DEF ReleaseStep, NoAssignment
      <3>4. QED
        BY <3>2, <3>3, NoUserAssumption
    <2>3. QED
      BY <2>1, <2>2
  <1>3. r \in {free.reserved, NoUser} /\ r # u
    BY NoUserAssumption DEF ReservationWithout
  <1> HIDE DEF free, r
  <1>4. /\ SamePointer(tt, free) /\ SameVersions(tt, free) /\ SameRounds(tt, free)
        /\ SamePeople(tt, free) /\ tt.baseline = free.baseline
        /\ tt.reserved = r /\ tt.assignment = free.assignment
    BY <1>2, NewReservationColumns
  <1> HIDE DEF tt
  <1>5. CASE ReleaseStep(ts, free)
    <2>1. ReleaseStep(ts, tt)
      BY <1>2, <1>3, <1>4, <1>5
         DEF ReleaseStep, SamePointer, SameVersions, SameRounds, SamePeople
    <2>2. QED
      BY <1>1, <1>2, <1>3, <1>4, <2>1
  <1>6. CASE free = ts
    <2>1. ReserveStep(ts, tt)
      BY <1>3, <1>4, <1>6
         DEF ReserveStep, SamePointer, SameVersions, SameRounds, SamePeople
    <2>2. QED
      BY <1>1, <1>2, <1>3, <1>4, <2>1
  <1>7. QED
    BY <1>2, <1>5, <1>6

\* Open rounds end, and with a second transcription its assignment.
LEMMA CrossCheckInvalidatedColumns ==
    ASSUME NEW ts, TaskTyped(ts)
    PROVE  LET tt == CrossCheckInvalidated(ts) IN
           /\ SamePointer(tt, ts) /\ SamePeople(tt, ts)
           /\ tt.baseline = ts.baseline /\ tt.reserved = ts.reserved
           /\ tt.versions = ts.versions /\ tt.rounds = ts.rounds
           /\ \A n \in VersionNo :
                 tt.version[n] = ts.version[n] \/ tt.version[n] = AbandonIfDraft(ts.version[n])
           /\ \A k \in RoundNo :
                 tt.round[k] = IF k \in OpenRounds(ts)
                               THEN RoundInState(ts.round[k], "invalidated") ELSE ts.round[k]
           /\ tt.assignment \in {ts.assignment, NoAssignment}
           /\ OpenRounds(tt) = {}
  <1> DEFINE open == OpenRounds(ts)
             running == {k \in open : ts.round[k].state = "in_progress"}
             gone == {ts.round[k].secondary : k \in running}
             rs == [k \in RoundNo |-> IF k \in open
                      THEN RoundInState(ts.round[k], "invalidated") ELSE ts.round[k]]
             dropped == AbandonDrafts(ts, gone)
             kept == [dropped EXCEPT !.round = rs]
  <1>1. CrossCheckInvalidated(ts) = IF running # {} THEN Unassign(kept) ELSE kept
    BY DEF CrossCheckInvalidated, RoundsToInvalidate, RoundInState
  <1> HIDE DEF running, gone
  <1>2. /\ TaskTyped(dropped) /\ SamePointer(dropped, ts) /\ SameRounds(dropped, ts)
        /\ SamePeople(dropped, ts) /\ dropped.baseline = ts.baseline
        /\ dropped.reserved = ts.reserved /\ dropped.assignment = ts.assignment
        /\ dropped.versions = ts.versions
        /\ \A n \in VersionNo : \/ dropped.version[n] = ts.version[n]
                                \/ dropped.version[n] = AbandonIfDraft(ts.version[n])
    BY AbandonDraftsType, AbandonDraftsColumns
  <1> HIDE DEF dropped
  <1>3. \A k \in RoundNo : /\ rs[k] = IF k \in open THEN RoundInState(ts.round[k], "invalidated")
                                                    ELSE ts.round[k]
                           /\ rs[k].state \notin OpenState
    BY RoundRows, RowsWith DEF OpenRounds, OpenState
  <1>4. /\ kept.status = dropped.status /\ kept.current = dropped.current
        /\ kept.versions = dropped.versions /\ kept.version = dropped.version
        /\ kept.rounds = dropped.rounds /\ kept.round = rs
        /\ kept.participants = dropped.participants /\ kept.blockedBy = dropped.blockedBy
        /\ kept.baseline = dropped.baseline /\ kept.reserved = dropped.reserved
        /\ kept.assignment = dropped.assignment
    BY <1>2 DEF TaskTyped, TaskRow
  <1>5. LET tt == Unassign(kept) IN
        /\ tt.status = dropped.status /\ tt.current = dropped.current
        /\ tt.versions = dropped.versions /\ tt.version = dropped.version
        /\ tt.rounds = dropped.rounds /\ tt.round = rs
        /\ tt.participants = dropped.participants /\ tt.blockedBy = dropped.blockedBy
        /\ tt.baseline = dropped.baseline /\ tt.reserved = dropped.reserved
        /\ tt.assignment = NoAssignment
    BY <1>2 DEF Unassign, TaskTyped, TaskRow
  <1> HIDE DEF kept, rs, open
  <1> DEFINE tt == CrossCheckInvalidated(ts)
  <1>6. /\ tt.status = dropped.status /\ tt.current = dropped.current
        /\ tt.versions = dropped.versions /\ tt.version = dropped.version
        /\ tt.rounds = dropped.rounds /\ tt.round = rs
        /\ tt.participants = dropped.participants /\ tt.blockedBy = dropped.blockedBy
        /\ tt.baseline = dropped.baseline /\ tt.reserved = dropped.reserved
        /\ tt.assignment \in {dropped.assignment, NoAssignment}
    BY <1>1, <1>4, <1>5
  <1> HIDE DEF tt
  <1>7. QED
    BY <1>2, <1>3, <1>6 DEF SamePointer, SameRounds, SamePeople, OpenRounds, tt, open

LEMMA WithdrawnColumns ==
    ASSUME NEW ts, TaskTyped(ts), NEW a
    PROVE  LET tt == Withdrawn(ts, a) IN
           /\ SameRounds(tt, ts) /\ SamePeople(tt, ts)
           /\ tt.status = "pending" /\ tt.current = None /\ tt.reserved = NoUser
           /\ tt.baseline = ts.baseline /\ tt.assignment = ts.assignment
           /\ tt.versions = ts.versions
           /\ \A n \in VersionNo :
                 tt.version[n] = IF n = ts.current THEN RevokedRow(ts.version[n], a)
                                 ELSE ts.version[n]
  BY DEF Withdrawn, RevokedRow, SameRounds, SamePeople, TaskTyped, TaskRow

LEMMA RevokedIsStep ==
    ASSUME NEW ts, TaskTyped(ts), NEW author \in User \cup {NoUser}, NEW conflicts \in BOOLEAN,
           CanRevoke(ts, author, conflicts), NEW a \in ActionNo, NEW block
    PROVE  RevokeStep(ts, Revoked(ts, author, a, block), author, a, block)
  <1> DEFINE kept    == CrossCheckInvalidated(ts)
             cleared == DraftReleased(kept)
             gone    == Withdrawn(cleared, a)
             clean   == AddVersion(gone, CleanRow(gone))
  <1>1. /\ TaskTyped(kept) /\ SamePointer(kept, ts) /\ SamePeople(kept, ts)
        /\ kept.baseline = ts.baseline
        /\ kept.versions = ts.versions /\ kept.rounds = ts.rounds
        /\ \A n \in VersionNo :
              kept.version[n] = ts.version[n] \/ kept.version[n] = AbandonIfDraft(ts.version[n])
        /\ \A k \in RoundNo :
              kept.round[k] = IF k \in OpenRounds(ts)
                              THEN RoundInState(ts.round[k], "invalidated") ELSE ts.round[k]
        /\ OpenRounds(kept) = {}
    BY CrossCheckInvalidatedType, CrossCheckInvalidatedColumns
  <1>2. CanReleaseDraft(kept) /\ kept.assignment.mode # "cross_check"
    BY <1>1, InProgressIsOpen DEF CanRevoke, CanReleaseDraft
  <1> HIDE DEF kept
  <1>3. /\ TaskTyped(cleared) /\ SamePointer(cleared, kept) /\ SamePeople(cleared, kept)
        /\ cleared.baseline = kept.baseline
        /\ cleared.assignment = NoAssignment /\ cleared.versions = kept.versions
        /\ cleared.rounds = kept.rounds
        /\ \A n \in VersionNo : cleared.version[n] = AbandonIfDraft(kept.version[n])
        /\ \A k \in RoundNo : cleared.round[k] = kept.round[k]
    BY <1>1, <1>2, DraftReleasedType, DraftReleasedColumns
  <1> HIDE DEF cleared
  <1>4. \A n \in VersionNo : cleared.version[n] = AbandonIfDraft(ts.version[n])
    BY <1>1, <1>3, AbandonIfDraftRow, RowsWith
  <1>5. /\ TaskTyped(gone) /\ SameRounds(gone, cleared) /\ SamePeople(gone, cleared)
        /\ gone.status = "pending" /\ gone.current = None /\ gone.reserved = NoUser
        /\ gone.baseline = cleared.baseline /\ gone.assignment = cleared.assignment
        /\ gone.versions = cleared.versions
        /\ \A n \in VersionNo :
              gone.version[n] = IF n = cleared.current THEN RevokedRow(cleared.version[n], a)
                                ELSE cleared.version[n]
    BY <1>3, WithdrawnType, WithdrawnColumns
  <1> HIDE DEF gone
  <1>6. RoomForVersion(ts) /\ RoomForVersion(gone)
    BY <1>1, <1>3, <1>5 DEF CanRevoke, RoomForVersion
  <1>7. /\ ts.current # None /\ ts.current \in VersionNo
        /\ ts.version[ts.current].lifecycle = "published"
        /\ ts.version[ts.current].submitter = author
    BY RowsWith DEF CanRevoke, AdminEdited
  <1>8. \A n \in VersionNo :
          gone.version[n] = IF n = ts.current THEN RevokedRow(ts.version[n], a)
                            ELSE AbandonIfDraft(ts.version[n])
    BY <1>1, <1>3, <1>4, <1>5, <1>7, AbandonIfDraftRow, RowsWith DEF SamePointer
  <1>9. CleanRow(gone) = CleanRow(ts)
    <2>1. ts.baseline \in VersionNo /\ ts.version[ts.baseline] \in VersionRow
      BY RowsWith
    <2>2. gone.version[ts.baseline].cut = ts.version[ts.baseline].cut
      BY <1>8, <2>1, AbandonIfDraftRow, RevokedRowRow DEF SameContent
    <2>3. QED
      BY <1>1, <1>3, <1>5, <2>2 DEF CleanRow
  <1>10. TaskTyped(clean)
    BY <1>5, <1>6, CloneCleanDraftType, CloneCleanDraftIs
  <1>11. /\ SamePointer(clean, gone) /\ SameRounds(clean, gone) /\ SamePeople(clean, gone)
         /\ clean.baseline = gone.baseline /\ clean.reserved = gone.reserved
         /\ clean.assignment = gone.assignment /\ clean.versions = gone.versions + 1
         /\ \A n \in VersionNo :
               clean.version[n] = IF n = gone.versions + 1 THEN CleanRow(gone)
                                  ELSE gone.version[n]
    BY <1>5, <1>6, AddVersionColumns
  <1>12. Revoked(ts, author, a, block) =
           IF block /\ author # NoUser THEN [clean EXCEPT !.blockedBy[author] = a] ELSE clean
    BY CloneCleanDraftIs DEF Revoked, kept, cleared, gone
  <1> HIDE DEF clean
  <1> DEFINE tt == Revoked(ts, author, a, block)
  <1>13. /\ SamePointer(tt, clean) /\ SameVersions(tt, clean) /\ SameRounds(tt, clean)
         /\ tt.participants = clean.participants
         /\ tt.baseline = clean.baseline /\ tt.reserved = clean.reserved
         /\ tt.assignment = clean.assignment
         /\ tt.blockedBy = IF block /\ author # NoUser
                           THEN [clean.blockedBy EXCEPT ![author] = a] ELSE clean.blockedBy
    <2>1. LET b == [clean EXCEPT !.blockedBy[author] = a] IN
          /\ SamePointer(b, clean) /\ SameVersions(b, clean) /\ SameRounds(b, clean)
          /\ b.participants = clean.participants
          /\ b.baseline = clean.baseline /\ b.reserved = clean.reserved
          /\ b.assignment = clean.assignment
          /\ b.blockedBy = [clean.blockedBy EXCEPT ![author] = a]
      BY <1>10 DEF SamePointer, SameVersions, SameRounds, TaskTyped, TaskRow
    <2>2. CASE block /\ author # NoUser
      BY <1>12, <2>1, <2>2
    <2>3. CASE ~ (block /\ author # NoUser)
      BY <1>12, <2>3 DEF SamePointer, SameVersions, SameRounds
    <2>4. QED
      BY <2>2, <2>3
  <1> HIDE DEF tt
  <1>14. /\ tt.versions = ts.versions + 1 /\ tt.rounds = ts.rounds
         /\ \A n \in VersionNo :
               tt.version[n] = IF n = ts.versions + 1 THEN CleanRow(ts) ELSE gone.version[n]
         /\ \A k \in RoundNo : tt.round[k] = kept.round[k]
    BY <1>1, <1>3, <1>5, <1>9, <1>11, <1>13 DEF SameVersions, SameRounds
  <1>15. /\ tt.status = "pending" /\ tt.current = None /\ tt.reserved = NoUser
         /\ tt.baseline = ts.baseline /\ tt.participants = ts.participants
         /\ tt.assignment = NoAssignment
         /\ tt.blockedBy = IF block /\ author # NoUser THEN [ts.blockedBy EXCEPT ![author] = a]
                                                       ELSE ts.blockedBy
    BY <1>1, <1>3, <1>5, <1>11, <1>13 DEF SamePointer, SamePeople
  <1>16. RevokeStep(ts, tt, author, a, block)
    BY <1>1, <1>6, <1>7, <1>8, <1>14, <1>15 DEF RevokeStep
  <1>17. QED
    BY <1>16 DEF tt

\* Offboarding lets go of the task and, of its author, withdraws it.
LEMMA OffboardedIsSteps ==
    ASSUME NEW ts, TaskTyped(ts), NEW u \in User, CanOffboard(ts, u), NEW a \in ActionNo
    PROVE  LET free == LetGo(ts, u) IN
           /\ TaskTyped(free) /\ (ReleaseStep(ts, free) \/ ReserveStep(ts, free))
           /\ free.assignment.user # u /\ free.reserved # u
           /\ IF PublishedBy(free, u)
              THEN RevokeStep(free, Offboarded(ts, u, a), u, a, TRUE)
              ELSE Offboarded(ts, u, a) = free
  <1> DEFINE free == LetGo(ts, u)
             kept == CrossCheckInvalidated(free)
             tt   == Revoked(kept, u, a, TRUE)
  <1>1. /\ TaskTyped(free) /\ (ReleaseStep(ts, free) \/ ReserveStep(ts, free))
        /\ free.assignment.user # u /\ free.reserved # u
    BY LetGoType, LetGoIsStep
  <1>2. CASE ~ PublishedBy(free, u)
    BY <1>1, <1>2 DEF Offboarded
  <1>3. CASE PublishedBy(free, u)
    <2>1. CanRevoke(kept, u, FALSE) /\ Offboarded(ts, u, a) = tt
      BY <1>3 DEF CanOffboard, Offboarded
    <2> HIDE DEF free
    <2>2. /\ TaskTyped(kept) /\ SamePointer(kept, free) /\ SamePeople(kept, free)
          /\ kept.baseline = free.baseline
          /\ kept.versions = free.versions /\ kept.rounds = free.rounds
          /\ \A n \in VersionNo : \/ kept.version[n] = free.version[n]
                                  \/ kept.version[n] = AbandonIfDraft(free.version[n])
          /\ \A k \in RoundNo :
                kept.round[k] = IF k \in OpenRounds(free)
                                THEN RoundInState(free.round[k], "invalidated") ELSE free.round[k]
          /\ OpenRounds(kept) = {}
      BY <1>1, CrossCheckInvalidatedType, CrossCheckInvalidatedColumns
    <2> HIDE DEF kept
    <2>3. RevokeStep(kept, tt, u, a, TRUE)
      BY <2>1, <2>2, RevokedIsStep
    <2> HIDE DEF tt
    <2>4. \A n \in VersionNo :
            AbandonIfDraft(kept.version[n]) = AbandonIfDraft(free.version[n])
      BY <1>1, <2>2, AbandonIfDraftRow, RowsWith
    <2>5. /\ free.current # None /\ free.current \in VersionNo
          /\ kept.version[free.current].lifecycle = "published"
          /\ kept.current = free.current
      BY <1>1, <2>2, <2>3, RowsWith DEF RevokeStep, SamePointer
    <2>6. kept.version[free.current] = free.version[free.current]
      BY <1>1, <2>2, <2>5, AbandonIfDraftRow, RowsWith
    <2>7. CleanRow(kept) = CleanRow(free)
      <3>1. free.baseline \in VersionNo /\ free.version[free.baseline] \in VersionRow
        BY <1>1, RowsWith
      <3>2. kept.version[free.baseline].cut = free.version[free.baseline].cut
        BY <2>2, <3>1, AbandonIfDraftRow DEF SameContent
      <3>3. QED
        BY <2>2, <3>2 DEF CleanRow
    <2>8. RoomForVersion(free)
      BY <2>2, <2>3 DEF RevokeStep, RoomForVersion
    <2>9. RevokeStep(free, tt, u, a, TRUE)
      BY <2>2, <2>3, <2>4, <2>5, <2>6, <2>7, <2>8
         DEF RevokeStep, SamePointer, SamePeople
    <2>10. QED
      BY <1>1, <1>3, <2>1, <2>9 DEF free
  <1>4. QED
    BY <1>2, <1>3

LEMMA RestoredIsStep ==
    ASSUME NEW ts, TaskTyped(ts), NEW a, NEW author, NEW before, NEW after,
           CanRestore(ts, a, author, before, after)
    PROVE  RestoreStep(ts, Restored(ts, a, author, before, after), a, author, before, after)
  BY DEF RestoreStep, Restored, InState, StatusOfVersion, SameRounds, TaskTyped, TaskRow

LEMMA CancelledIsStep ==
    ASSUME NEW ts, TaskTyped(ts), NEW k \in RoundNo, CanCancel(ts, k)
    PROVE  CancelStep(ts, Cancelled(ts, k), k)
  <1> DEFINE closed == SetRoundState(ts, k, "cancelled")
             out    == {ts.round[k].secondary}
             gone   == AbandonDrafts(closed, out)
  <1>1. k \in OpenRounds(ts) /\ "cancelled" \in RoundState
    BY DEF CanCancel, OpenRounds, OpenState, RoundState
  <1>2. /\ TaskTyped(closed) /\ SamePointer(closed, ts) /\ SameVersions(closed, ts)
        /\ SamePeople(closed, ts) /\ closed.baseline = ts.baseline
        /\ closed.reserved = ts.reserved /\ closed.rounds = ts.rounds
        /\ \A j \in RoundNo : closed.round[j] = IF j = k THEN RoundInState(ts.round[j], "cancelled")
                                                         ELSE ts.round[j]
    BY <1>1, SetRoundStateType, SetRoundStateColumns
  <1> HIDE DEF closed
  <1>3. /\ TaskTyped(gone) /\ SamePointer(gone, closed) /\ SameRounds(gone, closed)
        /\ SamePeople(gone, closed) /\ gone.baseline = closed.baseline
        /\ gone.reserved = closed.reserved /\ gone.versions = closed.versions
        /\ \A n \in VersionNo :
              gone.version[n] = IF n \in out THEN AbandonIfDraft(closed.version[n])
                                             ELSE closed.version[n]
    BY <1>2, AbandonDraftsType, AbandonDraftsColumns
  <1>4. Cancelled(ts, k) = Unassign(gone)
    BY DEF Cancelled, closed
  <1> HIDE DEF gone
  <1>5. QED
    BY <1>2, <1>3, <1>4, UnassignColumns
       DEF CancelStep, SamePointer, SameVersions, SameRounds, SamePeople

LEMMA DecidedIsStep ==
    ASSUME NEW ts, TaskTyped(ts), NEW k \in RoundNo, NEW decision \in Decision,
           NEW base, NEW outcome, CanDecide(ts, k), CanReplace(ts, k, decision),
           decision = "edited" => /\ RoomForVersion(ts)
                                  /\ base \in {ts.round[k].original, ts.round[k].secondary},
           CorpusInvOf(ts)
    PROVE  LET tt == Decided(ts, k, decision, base, outcome) IN
           \/ KeepStep(ts, tt, k)
           \/ SecondStep(ts, tt, k)
           \/ EditStep(ts, tt, k, base, outcome)
  <1> DEFINE c == ts.current
             s == ts.round[k].secondary
             e == ts.versions + 1
             tt == Decided(ts, k, decision, base, outcome)
  <1>1. k \in OpenRounds(ts) /\ c \in VersionNo /\ s \in VersionNo
    BY DEF CanDecide, OpenRounds, OpenState, TaskTyped
  <1>2. CASE decision = "original"
    <2>1. tt = [ts EXCEPT !.round = [ts.round EXCEPT ![k] = DecidedRound(ts.round[k], decision, c)]]
      BY <1>2 DEF Decided, Close, DecidedRound
    <2>2. KeepStep(ts, tt, k)
      BY <1>2, <2>1 DEF KeepStep, DecideStep, SamePeople, SameVersions, TaskTyped, TaskRow
    <2>3. QED
      BY <2>2
  <1>3. CASE decision = "secondary"
    <2> DEFINE v1 == [ts.version EXCEPT ![c] = InState(ts.version[c], "superseded")]
               v2 == [v1 EXCEPT ![s] = InState(v1[s], "published")]
               rs == [ts.round EXCEPT ![k] = DecidedRound(ts.round[k], decision, s)]
    <2>1. tt = [ts EXCEPT !.version = v2, !.status = ts.version[s].target, !.current = s,
                          !.round = rs]
      <3>1. Replaced(ts, s, ts.version[s].target) =
              [ts EXCEPT !.version = v1, !.status = ts.version[s].target, !.current = s]
        BY DEF Replaced, InState
      <3>2. Publish(Replaced(ts, s, ts.version[s].target), s) =
              [ts EXCEPT !.version = v2, !.status = ts.version[s].target, !.current = s]
        BY <3>1 DEF Publish, InState, TaskTyped, TaskRow
      <3>3. QED
        BY <1>3, <3>2 DEF Decided, Close, DecidedRound, TaskTyped, TaskRow
    <2>2. c # s
      BY <1>3 DEF CanReplace
    <2>3. \A n \in VersionNo : v2[n] = IF n = s THEN InState(ts.version[n], "published")
                                       ELSE IF n = c THEN InState(ts.version[n], "superseded")
                                       ELSE ts.version[n]
      BY <1>1, <2>2 DEF TaskTyped, TaskRow
    <2>4. \A j \in RoundNo : rs[j] = IF j = k THEN DecidedRound(ts.round[j], decision, s)
                                              ELSE ts.round[j]
      BY DEF TaskTyped, TaskRow
    <2> HIDE DEF v2, rs
    <2>5. SecondStep(ts, tt, k)
      BY <1>3, <2>1, <2>3, <2>4 DEF SecondStep, DecideStep, SamePeople, TaskTyped, TaskRow
    <2>6. QED
      BY <2>5
  <1>4. CASE decision = "edited"
    <2> DEFINE row == AdminEdit(ts, base, outcome)
               v1 == [ts.version EXCEPT ![e] = row]
               v2 == [v1 EXCEPT ![c] = InState(v1[c], "superseded")]
               rs == [ts.round EXCEPT ![k] = DecidedRound(ts.round[k], decision, e)]
    <2>1. tt = [ts EXCEPT !.versions = e, !.version = v2, !.status = outcome, !.current = e,
                          !.round = rs]
      <3>1. AddVersion(ts, row) = [ts EXCEPT !.versions = e, !.version = v1]
        BY DEF AddVersion
      <3>2. Replaced(AddVersion(ts, row), e, outcome) =
              [ts EXCEPT !.versions = e, !.version = v2, !.status = outcome, !.current = e]
        BY <3>1 DEF Replaced, InState, TaskTyped, TaskRow
      <3>3. QED
        BY <1>4, <3>2 DEF Decided, Close, DecidedRound, TaskTyped, TaskRow
    <2>2. e \in VersionNo /\ c # e
      <3>1. e \in VersionNo /\ ts.versions \in Nat
        BY <1>4, NextVersionNo, RowsWith
      <3>2. ts.version[e].lifecycle = "none"
        BY <3>1 DEF CorpusInvOf
      <3>3. QED
        BY <1>4, <3>1, <3>2 DEF CanReplace
    <2>3. \A n \in VersionNo : v2[n] = IF n = e THEN row
                                       ELSE IF n = c THEN InState(ts.version[n], "superseded")
                                       ELSE ts.version[n]
      BY <1>1, <2>2 DEF TaskTyped, TaskRow
    <2>4. \A j \in RoundNo : rs[j] = IF j = k THEN DecidedRound(ts.round[j], decision, e)
                                              ELSE ts.round[j]
      BY DEF TaskTyped, TaskRow
    <2> HIDE DEF v2, rs, row
    <2>5. /\ tt.versions = e /\ tt.version = v2 /\ tt.status = outcome /\ tt.current = e
          /\ tt.round = rs /\ tt.rounds = ts.rounds /\ SamePeople(tt, ts)
          /\ tt.baseline = ts.baseline /\ tt.reserved = ts.reserved
          /\ tt.assignment = ts.assignment
      BY <2>1 DEF SamePeople, TaskTyped, TaskRow
    <2> HIDE DEF tt
    <2>6. EditStep(ts, tt, k, base, outcome)
      BY <1>4, <2>3, <2>4, <2>5 DEF EditStep, DecideStep, row
    <2>7. QED
      BY <2>6 DEF tt
  <1>5. QED
    BY <1>2, <1>3, <1>4 DEF Decision

-----------------------------------------------------------------------------
(* Drafts, assignment and rounds of one task                               *)

\* WorkAgrees and RoundAgrees, and what keeps them so: only a task nobody has
\* worked on since the import waits for its last editor, and the baseline stays
\* one.
WorkInvOf(ts) ==
    /\ WorkAgreesIn(ts)
    /\ RoundAgreesIn(ts)
    /\ ts.reserved # NoUser => /\ ts.status = "pending"
                               /\ ~ Assigned(ts)
                               /\ VersionsIn(ts, {"revoked"}) = {}
    /\ ts.version[ts.baseline].lifecycle = "baseline"

\* Nobody at work on a published task: it has no draft.
LEMMA PublishedIdle ==
    ASSUME NEW tt, tt.status # "pending", tt.assignment = NoAssignment, Drafts(tt) = {}
    PROVE  WorkAgreesIn(tt)
  BY DEF WorkAgreesIn, Assigned, NoAssignment

\* Nobody at work on a pending task: it has one draft.
LEMMA PendingIdle ==
    ASSUME NEW tt, tt.status = "pending", tt.assignment = NoAssignment,
           NEW d \in VersionNo, Drafts(tt) = {d}, tt.version[d].purpose = "annotation"
    PROVE  WorkAgreesIn(tt)
  BY DEF WorkAgreesIn, Assigned, NoAssignment

LEMMA NoRoundsAgree ==
    ASSUME NEW tt, OpenRounds(tt) = {}, tt.assignment.mode # "cross_check"
    PROVE  RoundAgreesIn(tt)
  BY DEF RoundAgreesIn, OpenRounds, OpenState

\* Only a published task has an open round, and whoever works on one with an
\* open round works on that.
LEMMA OpenRoundFacts ==
    ASSUME NEW ts, WorkInvOf(ts), NEW k \in OpenRounds(ts)
    PROVE  /\ ts.status = "annotated" /\ ts.current = ts.round[k].original
           /\ OpenRounds(ts) = {k}
           /\ Assigned(ts) => /\ ts.round[k].state = "in_progress"
                              /\ ts.assignment.mode = "cross_check"
                              /\ ts.assignment.round = k
                              /\ ts.assignment.user = ts.round[k].secondaryAnnotator
                              /\ ts.assignment.version = ts.round[k].secondary
  BY DEF WorkInvOf, RoundAgreesIn, OpenRounds, OpenState

LEMMA NoOpenRounds ==
    ASSUME NEW ts, WorkInvOf(ts),
           \/ ts.status = "pending"
           \/ Assigned(ts) /\ ts.assignment.mode # "cross_check"
    PROVE  OpenRounds(ts) = {}
  BY OpenRoundFacts

\* Whoever works holds the one draft there is.
LEMMA HeldDraft ==
    ASSUME NEW ts, WorkInvOf(ts), Assigned(ts)
    PROVE  /\ Drafts(ts) = {ts.assignment.version}
           /\ ts.assignment.version \in VersionNo
           /\ ts.reserved = NoUser
           /\ ts.status = "pending" <=> ts.assignment.mode = "annotation"
  BY DEF WorkInvOf, WorkAgreesIn, Drafts, VersionsIn

\* A task without a draft is published and nobody works on it.
LEMMA NoDraft ==
    ASSUME NEW ts, WorkInvOf(ts), Drafts(ts) = {}
    PROVE  ts.status # "pending" /\ ~ Assigned(ts) /\ ts.reserved = NoUser
  BY DEF WorkInvOf, WorkAgreesIn

\* Steps that change neither what is a draft nor who works on it.
LEMMA SameShape ==
    ASSUME NEW ts, TaskTyped(ts), CorpusInvOf(ts), WorkInvOf(ts), NEW tt,
           SamePointer(tt, ts), SameRounds(tt, ts), tt.baseline = ts.baseline,
           tt.assignment = ts.assignment, tt.reserved \in {ts.reserved, NoUser},
           \A n \in VersionNo :
              /\ tt.version[n].lifecycle = ts.version[n].lifecycle
              /\ tt.version[n].purpose = ts.version[n].purpose
              /\ tt.version[n].base = ts.version[n].base
              /\ tt.version[n].submitter = ts.version[n].submitter
    PROVE  WorkInvOf(tt)
  <1>1. \A s : VersionsIn(tt, s) = VersionsIn(ts, s)
    BY DEF VersionsIn
  <1>2. Drafts(tt) = Drafts(ts) /\ OpenRounds(tt) = OpenRounds(ts)
    BY <1>1 DEF Drafts, OpenRounds, SameRounds
  <1>3. Assigned(tt) <=> Assigned(ts)
    BY DEF Assigned
  <1>4. WorkAgreesIn(tt)
    <2>1. /\ ts.status # "pending" => ts.current \in VersionNo
          /\ Assigned(ts) => ts.assignment.version \in VersionNo
      BY HeldDraft, RowsWith DEF CorpusInvOf, CorpusPointerOf
    <2>2. QED
      BY <1>2, <1>3, <2>1 DEF WorkInvOf, WorkAgreesIn, SamePointer
  <1>5. RoundAgreesIn(tt)
    <2>1. \A k \in RoundNo : ts.round[k].state = "awaiting_review" =>
                                  ts.round[k].secondary \in VersionNo
      BY DEF TaskTyped, OpenRounds, OpenState
    <2>2. QED
      BY <1>2, <1>3, <2>1 DEF WorkInvOf, RoundAgreesIn, SamePointer, SameRounds, InProgress
  <1>6. QED
    BY <1>1, <1>3, <1>4, <1>5, RowsWith DEF WorkInvOf, SamePointer

LEMMA ClaimKeepsWork ==
    ASSUME NEW ts, TaskTyped(ts), WorkInvOf(ts), NEW tt, NEW u \in User, NEW d,
           ClaimStep(ts, tt, u, d)
    PROVE  WorkInvOf(tt)
  <1>1. /\ \A s : VersionsIn(tt, s) = VersionsIn(ts, s)
        /\ Drafts(tt) = Drafts(ts) /\ OpenRounds(tt) = OpenRounds(ts)
    BY DEF ClaimStep, VersionsIn, Drafts, OpenRounds, SameVersions, SameRounds
  <1>2. ts.status = "pending" /\ tt.status = "pending" /\ d \in Drafts(ts)
    BY DEF ClaimStep, CanClaim, SamePointer
  <1>3. /\ tt.assignment = [user |-> u, version |-> d, mode |-> "annotation", round |-> None]
        /\ tt.reserved = NoUser /\ tt.version = ts.version /\ tt.baseline = ts.baseline
    BY DEF ClaimStep, SameVersions
  <1>4. WorkAgreesIn(tt)
    BY <1>1, <1>2, <1>3 DEF WorkInvOf, WorkAgreesIn, None
  <1>5. RoundAgreesIn(tt)
    BY <1>1, <1>2, <1>3, NoOpenRounds, NoRoundsAgree
  <1>6. QED
    BY <1>3, <1>4, <1>5 DEF WorkInvOf

LEMMA SaveKeepsWork ==
    ASSUME NEW ts, TaskTyped(ts), CorpusInvOf(ts), WorkInvOf(ts), NEW tt, NEW u,
           SaveStep(ts, tt, u)
    PROVE  WorkInvOf(tt)
  <1>1. \A n \in VersionNo :
          /\ tt.version[n].lifecycle = ts.version[n].lifecycle
          /\ tt.version[n].purpose = ts.version[n].purpose
          /\ tt.version[n].base = ts.version[n].base
          /\ tt.version[n].submitter = ts.version[n].submitter
    BY EditedRow, RowsWith DEF SaveStep
  <1>2. QED
    BY <1>1, SameShape DEF SaveStep

LEMMA RefreshKeepsWork ==
    ASSUME NEW ts, TaskTyped(ts), CorpusInvOf(ts), WorkInvOf(ts), NEW tt,
           RefreshStep(ts, tt)
    PROVE  WorkInvOf(tt)
  <1>1. \A n \in VersionNo :
          /\ tt.version[n].lifecycle = ts.version[n].lifecycle
          /\ tt.version[n].purpose = ts.version[n].purpose
          /\ tt.version[n].base = ts.version[n].base
          /\ tt.version[n].submitter = ts.version[n].submitter
    BY RecutRow, RowsWith DEF RefreshStep
  <1>2. QED
    BY <1>1, SameShape DEF RefreshStep

LEMMA ReserveKeepsWork ==
    ASSUME NEW ts, TaskTyped(ts), CorpusInvOf(ts), WorkInvOf(ts), NEW tt,
           ReserveStep(ts, tt)
    PROVE  WorkInvOf(tt)
  BY SameShape DEF ReserveStep, SameVersions

LEMMA CompleteKeepsWork ==
    ASSUME NEW ts, TaskTyped(ts), WorkInvOf(ts), NEW tt, NEW u \in User,
           NEW outcome \in Outcome, CompleteStep(ts, tt, u, outcome)
    PROVE  WorkInvOf(tt)
  <1>1. Assigned(ts) /\ ts.assignment.mode # "cross_check"
    BY NoUserAssumption DEF CompleteStep, CanComplete, Assigned
  <1>2. /\ Drafts(ts) = {ts.assignment.version} /\ ts.assignment.version \in VersionNo
        /\ OpenRounds(ts) = {}
    BY <1>1, HeldDraft, NoOpenRounds
  <1>3. \A n \in VersionNo :
          tt.version[n].lifecycle = IF n = ts.assignment.version THEN "published"
                                    ELSE IF ts.version[n].lifecycle = "published"
                                    THEN "superseded" ELSE ts.version[n].lifecycle
    BY SubmittedRow, SupersedeIfPublishedRow, RowsWith DEF CompleteStep
  <1>4. Drafts(tt) = {} /\ OpenRounds(tt) = {}
    BY <1>2, <1>3 DEF Drafts, VersionsIn, OpenRounds, CompleteStep, SameRounds
  <1>5. /\ tt.assignment = NoAssignment /\ tt.status # "pending" /\ tt.reserved = NoUser
        /\ tt.baseline = ts.baseline
    BY DEF CompleteStep, Outcome
  <1>6. ts.version[ts.baseline].lifecycle = "baseline" /\ ts.assignment.version # ts.baseline
    BY <1>2 DEF WorkInvOf, Drafts, VersionsIn
  <1>7. QED
    BY <1>3, <1>4, <1>5, <1>6, PublishedIdle, NoRoundsAgree, RowsWith
       DEF WorkInvOf, NoAssignment

LEMMA AbandonKeepsWork ==
    ASSUME NEW ts, TaskTyped(ts), WorkInvOf(ts), NEW tt, AbandonStep(ts, tt)
    PROVE  WorkInvOf(tt)
  <1> DEFINE a == ts.assignment
  <1>1. /\ Drafts(ts) = {a.version} /\ a.version \in VersionNo /\ ts.reserved = NoUser
        /\ ts.status = "pending" <=> a.mode = "annotation"
        /\ Assigned(ts)
    BY HeldDraft DEF AbandonStep
  <1>2. \A n \in VersionNo :
          tt.version[n].lifecycle = IF n = a.version /\ a.mode # "annotation"
                                    THEN "abandoned" ELSE ts.version[n].lifecycle
    BY <1>1, AbandonIfDraftRow, RowsWith DEF AbandonStep, Drafts, VersionsIn
  <1>3. OpenRounds(tt) = {}
    <2>1. OpenRounds(ts) = {} \/ (a.mode = "cross_check" /\ OpenRounds(ts) = {a.round})
      BY <1>1, NoOpenRounds, OpenRoundFacts
    <2>2. \A k \in RoundNo :
            tt.round[k].state = IF a.mode = "cross_check" /\ k = a.round
                                THEN "cancelled" ELSE ts.round[k].state
      BY RoundRows, RowsWith DEF AbandonStep
    <2>3. QED
      BY <2>1, <2>2 DEF OpenRounds, OpenState
  <1>4. /\ tt.assignment = NoAssignment /\ tt.status = ts.status /\ tt.reserved = ts.reserved
        /\ tt.baseline = ts.baseline
    BY DEF AbandonStep, SamePointer
  <1>5. WorkAgreesIn(tt)
    <2>1. CASE a.mode = "annotation"
      <3>1. tt.version[a.version] = ts.version[a.version] /\ Drafts(tt) = {a.version}
        BY <1>1, <1>2, <2>1 DEF AbandonStep, Drafts, VersionsIn
      <3>2. ts.version[a.version].purpose = "annotation"
        BY <1>1, <2>1 DEF WorkInvOf, WorkAgreesIn
      <3>3. QED
        BY <1>1, <1>4, <2>1, <3>1, <3>2, PendingIdle
    <2>2. CASE a.mode # "annotation"
      <3>1. Drafts(tt) = {}
        BY <1>1, <1>2, <2>2 DEF Drafts, VersionsIn
      <3>2. QED
        BY <1>1, <1>4, <2>2, <3>1, PublishedIdle
    <2>3. QED
      BY <2>1, <2>2
  <1>6. ts.version[ts.baseline].lifecycle = "baseline" /\ a.version # ts.baseline
    BY <1>1 DEF WorkInvOf, Drafts, VersionsIn
  <1>7. QED
    BY <1>1, <1>2, <1>3, <1>4, <1>5, <1>6, NoRoundsAgree, RowsWith DEF WorkInvOf, NoAssignment

LEMMA ReopenKeepsWork ==
    ASSUME NEW ts, TaskTyped(ts), CorpusInvOf(ts), WorkInvOf(ts), NEW tt, NEW u \in User,
           ReopenStep(ts, tt, u)
    PROVE  WorkInvOf(tt)
  <1> DEFINE e == ts.versions + 1
  <1>1. /\ Drafts(ts) = {} /\ OpenRounds(ts) = {} /\ e \in VersionNo
        /\ ts.current \in VersionNo /\ ts.version[ts.current].submitter = u
    BY NextVersionNo, RowsWith DEF ReopenStep, CanReopen
  <1>2. ts.status # "pending" /\ ts.reserved = NoUser
    BY <1>1, NoDraft
  <1>3. ts.version[e].lifecycle = "none" /\ ts.version[ts.current].lifecycle = "published"
    <2>1. ts.version[e].lifecycle = "none"
      BY <1>1, RowsWith DEF CorpusInvOf
    <2>2. VersionsIn(ts, {"published"}) = {ts.current}
      BY <1>2 DEF CorpusInvOf, CorpusPointerOf
    <2>3. QED
      BY <2>1, <2>2 DEF VersionsIn
  <1>4. \A n \in VersionNo : tt.version[n] = IF n = e THEN CorrectionRow(ts) ELSE ts.version[n]
    BY DEF ReopenStep
  <1>5. CorrectionRow(ts).lifecycle = "draft" /\ CorrectionRow(ts).purpose = "annotation"
        /\ CorrectionRow(ts).base = ts.current
    BY NewRows
  <1>6. /\ tt.assignment = [user |-> u, version |-> e, mode |-> "revision", round |-> None]
        /\ tt.status = ts.status /\ tt.current = ts.current /\ tt.reserved = ts.reserved
        /\ tt.baseline = ts.baseline /\ tt.round = ts.round
    BY DEF ReopenStep, SamePointer, SameRounds
  <1>7. Drafts(tt) = {e}
    BY <1>1, <1>4, <1>5 DEF Drafts, VersionsIn
  <1>8. WorkAgreesIn(tt)
    <2>1. tt.version[ts.current] = ts.version[ts.current] /\ tt.version[e] = CorrectionRow(ts)
      BY <1>1, <1>3, <1>4
    <2>2. QED
      BY <1>1, <1>2, <1>5, <1>6, <1>7, <2>1, NoUserAssumption
         DEF WorkAgreesIn, Assigned, None
  <1>9. OpenRounds(tt) = {}
    BY <1>1, <1>6 DEF OpenRounds
  <1>10. tt.version[ts.baseline].lifecycle = "baseline"
    BY <1>3, <1>4, RowsWith DEF WorkInvOf
  <1>11. QED
    BY <1>2, <1>6, <1>8, <1>9, <1>10, NoRoundsAgree DEF WorkInvOf

LEMMA CrossCheckKeepsWork ==
    ASSUME NEW ts, TaskTyped(ts), CorpusInvOf(ts), WorkInvOf(ts), NEW tt, NEW u \in User,
           CrossCheckStep(ts, tt, u)
    PROVE  WorkInvOf(tt)
  <1> DEFINE e == ts.versions + 1
             k == ts.rounds + 1
             r == StartedRound(ts, u)
  <1>1. /\ Drafts(ts) = {} /\ OpenRounds(ts) = {} /\ e \in VersionNo
        /\ ts.current \in VersionNo /\ ts.status = "annotated" /\ k \in RoundNo
    BY NextVersionNo, RowsWith, BoundsAssumption
       DEF CrossCheckStep, CanCrossCheck, TaskTyped, TaskRow, RoundNo
  <1>2. ts.reserved = NoUser
    BY <1>1, NoDraft
  <1>3. ts.version[e].lifecycle = "none"
    BY <1>1, RowsWith DEF CorpusInvOf
  <1>4. /\ \A n \in VersionNo : tt.version[n] = IF n = e THEN BlindDraft(ts) ELSE ts.version[n]
        /\ \A j \in RoundNo : tt.round[j] = IF j = k THEN r ELSE ts.round[j]
    BY DEF CrossCheckStep
  <1>5. BlindDraft(ts).lifecycle = "draft" /\ BlindDraft(ts).purpose = "cross_check"
    BY NewRows
  <1>6. /\ tt.assignment = [user |-> u, version |-> e, mode |-> "cross_check", round |-> k]
        /\ tt.status = ts.status /\ tt.current = ts.current /\ tt.reserved = ts.reserved
        /\ tt.baseline = ts.baseline
    BY DEF CrossCheckStep, SamePointer
  <1>7. Drafts(tt) = {e}
    BY <1>1, <1>4, <1>5 DEF Drafts, VersionsIn
  <1>8. /\ r.state = "in_progress" /\ r.original = ts.current
        /\ r.secondary = e /\ r.secondaryAnnotator = u
    BY StartedRoundRow
  <1>9. k # None
    BY <1>1 DEF RoundNo, None
  <1> HIDE DEF e, k, r
  <1>10. WorkAgreesIn(tt)
    BY <1>1, <1>2, <1>4, <1>5, <1>6, <1>7, <1>9, NoUserAssumption DEF WorkAgreesIn, Assigned
  <1>11. OpenRounds(tt) = {k}
    BY <1>1, <1>4, <1>8 DEF OpenRounds, OpenState
  <1>12. RoundAgreesIn(tt)
    <2>1. \A j \in RoundNo : tt.round[j].state \in OpenState <=> j = k
      BY <1>11, <1>1 DEF OpenRounds
    <2>2. QED
      BY <1>1, <1>4, <1>6, <1>8, <1>11, <2>1 DEF RoundAgreesIn, InProgress, OpenState
  <1>13. tt.version[ts.baseline].lifecycle = "baseline"
    BY <1>3, <1>4, RowsWith DEF WorkInvOf
  <1>14. QED
    BY <1>2, <1>6, <1>10, <1>12, <1>13 DEF WorkInvOf

LEMMA FreezeKeepsWork ==
    ASSUME NEW ts, TaskTyped(ts), WorkInvOf(ts), NEW tt, NEW u \in User, NEW snap,
           NEW outcome, NEW needsReview, FreezeStep(ts, tt, u, snap, outcome, needsReview)
    PROVE  WorkInvOf(tt)
  <1> DEFINE k == snap.round
             w == snap.version
  <1>1. /\ Assigned(ts) /\ ts.assignment.mode = "cross_check" /\ ts.assignment.version = w
        /\ ts.assignment.round = k /\ k \in RoundNo /\ ts.round[k].state = "in_progress"
        /\ ts.round[k].secondary = w
    BY NoUserAssumption DEF FreezeStep, CanFreeze, Assigned, InProgress
  <1>2. /\ Drafts(ts) = {w} /\ w \in VersionNo /\ ts.reserved = NoUser
        /\ ts.status = "annotated" /\ OpenRounds(ts) = {k} /\ ts.current = ts.round[k].original
    BY <1>1, HeldDraft, OpenRoundFacts DEF OpenRounds, OpenState
  <1>3. \A n \in VersionNo : tt.version[n].lifecycle = IF n = w THEN "cross_check_submitted"
                                                       ELSE ts.version[n].lifecycle
    BY SubmittedRow, RowsWith DEF FreezeStep
  <1>4. \A j \in RoundNo :
          /\ tt.round[j].state = IF j = k
                                 THEN IF needsReview THEN "awaiting_review" ELSE "passed"
                                 ELSE ts.round[j].state
          /\ tt.round[j].original = ts.round[j].original
          /\ tt.round[j].secondary = ts.round[j].secondary
    BY RoundRows, RowsWith DEF FreezeStep, SamePair
  <1>5. /\ tt.assignment = NoAssignment /\ tt.status = ts.status /\ tt.current = ts.current
        /\ tt.reserved = ts.reserved /\ tt.baseline = ts.baseline
    BY DEF FreezeStep, SamePointer
  <1>6. Drafts(tt) = {}
    BY <1>2, <1>3 DEF Drafts, VersionsIn
  <1>7. WorkAgreesIn(tt)
    BY <1>2, <1>5, <1>6, PublishedIdle
  <1>8. RoundAgreesIn(tt)
    <2>1. \A j \in RoundNo : ts.round[j].state \in OpenState <=> j = k
      BY <1>1, <1>2 DEF OpenRounds
    <2>2. \A j \in RoundNo : tt.round[j].state \in OpenState => j = k
      BY <1>4, <2>1
    <2>3. \A j \in RoundNo : tt.round[j].state # "in_progress"
      BY <1>4, <2>1 DEF OpenState
    <2>4. tt.assignment.user = NoUser /\ tt.assignment.mode = "annotation"
      BY <1>5 DEF NoAssignment
    <2> HIDE DEF k, w
    <2>5. QED
      BY <1>1, <1>2, <1>3, <1>4, <1>5, <2>2, <2>3, <2>4
         DEF RoundAgreesIn, OpenRounds, OpenState, Assigned
  <1>9. ts.version[ts.baseline].lifecycle = "baseline" /\ w # ts.baseline
    BY <1>2 DEF WorkInvOf, Drafts, VersionsIn
  <1>10. QED
    BY <1>2, <1>3, <1>5, <1>7, <1>8, <1>9, RowsWith DEF WorkInvOf

LEMMA ReleaseKeepsWork ==
    ASSUME NEW ts, TaskTyped(ts), CorpusInvOf(ts), WorkInvOf(ts), NEW tt,
           ReleaseStep(ts, tt)
    PROVE  WorkInvOf(tt)
  <1> DEFINE a == ts.assignment
             e == ts.versions + 1
  <1>1. /\ Assigned(ts) /\ ts.reserved = NoUser /\ tt.reserved = NoUser
        /\ tt.assignment = NoAssignment /\ tt.status = ts.status /\ tt.baseline = ts.baseline
    BY HeldDraft DEF ReleaseStep, SamePointer
  <1>2. OpenRounds(tt) = {}
    <2>1. OpenRounds(ts) = {} \/ (a.mode = "cross_check" /\ OpenRounds(ts) = {a.round})
      BY <1>1, NoOpenRounds, OpenRoundFacts
    <2>2. \A k \in RoundNo :
            tt.round[k].state = IF a.mode = "cross_check" /\ k = a.round
                                THEN "cancelled" ELSE ts.round[k].state
      BY RoundRows, RowsWith DEF ReleaseStep
    <2>3. QED
      BY <2>1, <2>2 DEF OpenRounds, OpenState
  <1>3. /\ \A n \in VersionNo : AbandonIfDraft(ts.version[n]).lifecycle # "draft"
        /\ AbandonIfDraft(ts.version[ts.baseline]).lifecycle = "baseline"
    BY AbandonIfDraftRow, RowsWith DEF WorkInvOf
  <1>4. /\ CleanRow(ts).lifecycle = "draft" /\ CleanRow(ts).purpose = "annotation"
    BY NewRows
  <1>5. CASE NeedsCleanDraft(ts)
    <2>1. /\ e \in VersionNo /\ ts.status = "pending"
          /\ \A n \in VersionNo : tt.version[n] = IF n = e THEN CleanRow(ts)
                                                  ELSE AbandonIfDraft(ts.version[n])
      BY <1>5, NextVersionNo DEF ReleaseStep, NeedsCleanDraft
    <2>2. Drafts(tt) = {e}
      BY <1>3, <1>4, <2>1 DEF Drafts, VersionsIn
    <2>3. WorkAgreesIn(tt)
      BY <1>1, <1>4, <2>1, <2>2, PendingIdle
    <2>4. ts.baseline # e
      BY <2>1, RowsWith DEF CorpusInvOf, WorkInvOf
    <2>5. QED
      BY <1>1, <1>2, <1>3, <2>1, <2>3, <2>4, NoRoundsAgree, RowsWith DEF WorkInvOf, NoAssignment
  <1>6. CASE ~ NeedsCleanDraft(ts)
    <2>1. /\ ts.status # "pending"
          /\ \A n \in VersionNo : tt.version[n] = AbandonIfDraft(ts.version[n])
      BY <1>6 DEF ReleaseStep, NeedsCleanDraft, CorpusInvOf, CorpusPointerOf
    <2>2. Drafts(tt) = {}
      BY <1>3, <2>1 DEF Drafts, VersionsIn
    <2>3. QED
      BY <1>1, <1>2, <1>3, <2>1, <2>2, PublishedIdle, NoRoundsAgree, RowsWith
         DEF WorkInvOf, NoAssignment
  <1>7. QED
    BY <1>5, <1>6

LEMMA RevokeKeepsWork ==
    ASSUME NEW ts, TaskTyped(ts), CorpusInvOf(ts), WorkInvOf(ts), NEW tt, NEW author, NEW a,
           NEW block, RevokeStep(ts, tt, author, a, block)
    PROVE  WorkInvOf(tt)
  <1> DEFINE e == ts.versions + 1
  <1>1. /\ e \in VersionNo /\ ts.current \in VersionNo
        /\ ts.version[ts.current].lifecycle = "published"
    BY NextVersionNo, RowsWith DEF RevokeStep
  <1>2. /\ \A n \in VersionNo : tt.version[n] = IF n = e THEN CleanRow(ts)
                                                ELSE IF n = ts.current
                                                THEN RevokedRow(ts.version[n], a)
                                                ELSE AbandonIfDraft(ts.version[n])
        /\ tt.status = "pending" /\ tt.reserved = NoUser /\ tt.assignment = NoAssignment
        /\ tt.baseline = ts.baseline
    BY DEF RevokeStep
  <1>3. /\ CleanRow(ts).lifecycle = "draft" /\ CleanRow(ts).purpose = "annotation"
    BY NewRows
  <1>4. \A n \in VersionNo : n # e =>
          tt.version[n].lifecycle # "draft"
    BY <1>2, AbandonIfDraftRow, RevokedRowRow, RowsWith
  <1>5. Drafts(tt) = {e}
    BY <1>1, <1>2, <1>3, <1>4 DEF Drafts, VersionsIn
  <1>6. WorkAgreesIn(tt)
    BY <1>1, <1>2, <1>3, <1>5, PendingIdle
  <1>7. OpenRounds(tt) = {}
    <2>1. \A k \in RoundNo :
            tt.round[k].state = IF k \in OpenRounds(ts) THEN "invalidated" ELSE ts.round[k].state
      BY RoundRows, RowsWith DEF RevokeStep
    <2>2. QED
      BY <2>1 DEF OpenRounds, OpenState
  <1>8. tt.version[ts.baseline].lifecycle = "baseline"
    <2>1. ts.version[ts.baseline].lifecycle = "baseline" /\ ts.baseline # ts.current
      BY <1>1 DEF WorkInvOf
    <2>2. ts.baseline # e
      BY <1>1, <2>1, RowsWith DEF CorpusInvOf
    <2>3. QED
      BY <1>2, <2>1, <2>2, AbandonIfDraftRow, RowsWith
  <1>9. QED
    BY <1>2, <1>6, <1>7, <1>8, NoRoundsAgree DEF WorkInvOf, NoAssignment

LEMMA RestoreKeepsWork ==
    ASSUME NEW ts, TaskTyped(ts), CorpusInvOf(ts), WorkInvOf(ts), NEW tt, NEW a, NEW author,
           NEW before \in VersionNo, NEW after \in VersionNo,
           RestoreStep(ts, tt, a, author, before, after)
    PROVE  WorkInvOf(tt)
  <1>1. /\ ts.status = "pending" /\ ~ Assigned(ts) /\ OpenRounds(ts) = {}
        /\ ts.version[after].lifecycle = "draft" /\ ts.version[before].lifecycle = "revoked"
    BY DEF RestoreStep, CanRestore, Untouched
  <1>2. Drafts(ts) = {after} /\ ts.reserved = NoUser
    BY <1>1 DEF WorkInvOf, WorkAgreesIn, Drafts, VersionsIn
  <1>3. \A n \in VersionNo :
          tt.version[n].lifecycle = IF n = before THEN "published"
                                    ELSE IF n = after THEN "abandoned"
                                    ELSE ts.version[n].lifecycle
    BY ReinstatedRow, InStateRow, RowsWith DEF RestoreStep
  <1>4. Drafts(tt) = {}
    BY <1>2, <1>3 DEF Drafts, VersionsIn
  <1>5. ts.version[before].target \in Outcome
    BY <1>1 DEF CorpusInvOf, VersionsIn
  <1>6. /\ tt.status = ts.version[before].target /\ tt.assignment = ts.assignment
        /\ tt.reserved = ts.reserved /\ tt.baseline = ts.baseline /\ tt.round = ts.round
    BY DEF RestoreStep, SameRounds
  <1>7. WorkAgreesIn(tt)
    BY <1>1, <1>4, <1>5, <1>6 DEF WorkAgreesIn, WorkInvOf, Assigned, Outcome
  <1>8. OpenRounds(tt) = {} /\ ~ Assigned(tt)
    BY <1>1, <1>6 DEF OpenRounds, Assigned
  <1>9. RoundAgreesIn(tt)
    <2>1. ts.assignment.mode # "cross_check"
      BY <1>1 DEF WorkInvOf, RoundAgreesIn, InProgress, OpenRounds, OpenState
    <2>2. QED
      BY <1>6, <1>8, <2>1, NoRoundsAgree
  <1>10. ts.version[ts.baseline].lifecycle = "baseline"
    BY DEF WorkInvOf
  <1>11. QED
    BY <1>1, <1>2, <1>3, <1>6, <1>7, <1>9, <1>10, RowsWith DEF WorkInvOf

\* A decision leaves no open round; whatever it does to the versions makes no
\* draft and no baseline.
LEMMA DecideKeepsWork ==
    ASSUME NEW ts, TaskTyped(ts), CorpusInvOf(ts), WorkInvOf(ts), NEW tt, NEW k \in RoundNo,
           NEW decision, NEW final, DecideStep(ts, tt, k, decision, final),
           tt.status # "pending",
           \A n \in VersionNo :
              /\ tt.version[n].lifecycle = "draft" => ts.version[n].lifecycle = "draft"
              /\ ts.version[n].lifecycle = "baseline" => tt.version[n].lifecycle = "baseline"
    PROVE  WorkInvOf(tt)
  <1>1. /\ Drafts(ts) = {} /\ ~ Assigned(ts) /\ k \in OpenRounds(ts)
    BY DEF DecideStep, CanDecide, OpenRounds, OpenState
  <1>2. /\ OpenRounds(ts) = {k} /\ ts.reserved = NoUser
    BY <1>1, OpenRoundFacts, NoDraft
  <1>3. /\ tt.assignment = ts.assignment /\ tt.reserved = ts.reserved
        /\ tt.baseline = ts.baseline
    BY DEF DecideStep
  <1>4. Drafts(tt) = {}
    BY <1>1 DEF Drafts, VersionsIn
  <1>5. OpenRounds(tt) = {}
    <2>1. \A j \in RoundNo :
            tt.round[j].state = IF j = k THEN "adjudicated" ELSE ts.round[j].state
      BY RoundRows, RowsWith DEF DecideStep
    <2>2. QED
      BY <1>2, <2>1 DEF OpenRounds, OpenState
  <1>6. ~ Assigned(tt)
    BY <1>1, <1>3 DEF Assigned
  <1>7. ts.assignment.mode # "cross_check"
    <2>1. ts.round[k].state # "in_progress" /\ OpenRounds(ts) = {k}
      BY <1>2 DEF DecideStep, CanDecide
    <2>2. QED
      BY <2>1 DEF WorkInvOf, RoundAgreesIn, InProgress, OpenRounds, OpenState
  <1>8. WorkAgreesIn(tt)
    BY <1>4, <1>6 DEF WorkAgreesIn
  <1>9. RoundAgreesIn(tt)
    BY <1>3, <1>5, <1>7, NoRoundsAgree
  <1>10. QED
    BY <1>2, <1>3, <1>8, <1>9, RowsWith DEF WorkInvOf

LEMMA KeepKeepsWork ==
    ASSUME NEW ts, TaskTyped(ts), CorpusInvOf(ts), WorkInvOf(ts), NEW tt, NEW k \in RoundNo,
           KeepStep(ts, tt, k)
    PROVE  WorkInvOf(tt)
  <1>1. k \in OpenRounds(ts)
    BY DEF KeepStep, DecideStep, CanDecide, OpenRounds, OpenState
  <1>2. ts.status = "annotated"
    BY <1>1, OpenRoundFacts
  <1>3. QED
    BY <1>2, DecideKeepsWork DEF KeepStep, SameVersions

LEMMA SecondKeepsWork ==
    ASSUME NEW ts, TaskTyped(ts), CorpusInvOf(ts), WorkInvOf(ts), NEW tt, NEW k \in RoundNo,
           SecondStep(ts, tt, k)
    PROVE  WorkInvOf(tt)
  <1> DEFINE s == ts.round[k].secondary
  <1>1. /\ k \in OpenRounds(ts) /\ s \in VersionNo /\ ts.current \in VersionNo
        /\ ts.version[s].lifecycle = "cross_check_submitted"
        /\ ts.version[ts.current].lifecycle = "published"
    BY DEF SecondStep, DecideStep, CanDecide, CanReplace, OpenRounds, OpenState, TaskTyped
  <1>2. tt.status \in Outcome
    BY <1>1 DEF SecondStep, CorpusInvOf, VersionsIn
  <1>3. \A n \in VersionNo :
          tt.version[n].lifecycle = IF n = s THEN "published"
                                    ELSE IF n = ts.current THEN "superseded"
                                    ELSE ts.version[n].lifecycle
    BY InStateRow, RowsWith DEF SecondStep
  <1>4. tt.status # "pending" /\ DecideStep(ts, tt, k, "secondary", s)
    BY <1>2 DEF SecondStep, Outcome
  <1>5. QED
    BY <1>1, <1>3, <1>4, DecideKeepsWork

LEMMA EditKeepsWork ==
    ASSUME NEW ts, TaskTyped(ts), CorpusInvOf(ts), WorkInvOf(ts), NEW tt, NEW k \in RoundNo,
           NEW base, NEW outcome \in Outcome, EditStep(ts, tt, k, base, outcome)
    PROVE  WorkInvOf(tt)
  <1> DEFINE e == ts.versions + 1
  <1>1. /\ e \in VersionNo /\ ts.current \in VersionNo
        /\ ts.version[ts.current].lifecycle = "published"
    BY NextVersionNo DEF EditStep, DecideStep, CanDecide, CanReplace, OpenRounds, OpenState,
                         TaskTyped
  <1>2. ts.version[e].lifecycle = "none"
    BY <1>1, RowsWith DEF CorpusInvOf
  <1>3. \A n \in VersionNo :
          tt.version[n].lifecycle = IF n = e THEN "published"
                                    ELSE IF n = ts.current THEN "superseded"
                                    ELSE ts.version[n].lifecycle
    <2>1. AdminEdit(ts, base, outcome).lifecycle = "published"
      BY NewRows
    <2>2. QED
      BY <2>1, InStateRow, RowsWith DEF EditStep
  <1>4. tt.status # "pending" /\ DecideStep(ts, tt, k, "edited", e)
    BY DEF EditStep, Outcome
  <1>5. QED
    BY <1>1, <1>2, <1>3, <1>4, DecideKeepsWork

LEMMA CancelKeepsWork ==
    ASSUME NEW ts, TaskTyped(ts), WorkInvOf(ts), NEW tt, NEW k \in RoundNo,
           CancelStep(ts, tt, k)
    PROVE  WorkInvOf(tt)
  <1> DEFINE s == ts.round[k].secondary
  <1>1. ts.round[k].state = "in_progress" /\ k \in OpenRounds(ts)
    BY DEF CancelStep, CanCancel, OpenRounds, OpenState
  <1>2. /\ ts.status = "annotated" /\ OpenRounds(ts) = {k} /\ ts.reserved = NoUser
    BY <1>1, OpenRoundFacts DEF WorkInvOf
  <1>3. Drafts(ts) \subseteq {s}
    <2>1. ts.assignment.version = s
      BY <1>1 DEF WorkInvOf, RoundAgreesIn
    <2>2. QED
      BY <1>2, <2>1 DEF WorkInvOf, WorkAgreesIn
  <1>4. \A n \in VersionNo :
          /\ tt.version[n].lifecycle # "draft"
          /\ ts.version[n].lifecycle # "draft" => tt.version[n] = ts.version[n]
    BY <1>3, AbandonIfDraftRow, RowsWith DEF CancelStep, Drafts, VersionsIn
  <1>5. /\ tt.assignment = NoAssignment /\ tt.status = ts.status /\ tt.reserved = ts.reserved
        /\ tt.baseline = ts.baseline
    BY DEF CancelStep, SamePointer
  <1>6. Drafts(tt) = {}
    BY <1>4 DEF Drafts, VersionsIn
  <1>7. OpenRounds(tt) = {}
    <2>1. \A j \in RoundNo :
            tt.round[j].state = IF j = k THEN "cancelled" ELSE ts.round[j].state
      BY RoundRows, RowsWith DEF CancelStep
    <2>2. QED
      BY <1>2, <2>1 DEF OpenRounds, OpenState
  <1>8. ts.version[ts.baseline].lifecycle = "baseline"
    BY DEF WorkInvOf
  <1>9. QED
    BY <1>2, <1>4, <1>5, <1>6, <1>7, <1>8, PublishedIdle, NoRoundsAgree, RowsWith
       DEF WorkInvOf, NoAssignment

-----------------------------------------------------------------------------
(* What a step of the store does to each task                              *)

\* No other task changes.
OnlyTask(t) == \A s \in Task \ {t} : task'[s] = task[s]

\* Of the annotator u, who is active.
AnnotatorMove(ts, tt, u) ==
    \/ HoldsNothing(u) /\ \E d \in VersionNo : ClaimStep(ts, tt, u, d)
    \/ HoldsNothing(u) /\ CrossCheckStep(ts, tt, u)
    \/ HoldsNothing(u) /\ ReopenStep(ts, tt, u)
    \/ SaveStep(ts, tt, u)
    \/ \E outcome \in Outcome : CompleteStep(ts, tt, u, outcome)
    \/ \E snap \in SubmissionRow : FreezeStep(ts, tt, u, snap, snap.outcome, snap.needsReview)

\* Of the recorded admin action a.
RestoreMove(t, ts, tt, a) ==
    LET r == action[a] IN
    /\ a <= actions /\ AuthorStillActive(r.annotator)
    /\ r.before[t] # None /\ r.after[t] # None
    /\ RestoreStep(ts, tt, a, r.annotator, r.before[t], r.after[t])

\* Of an administrator deciding round k.
DecisionMove(ts, tt, k) ==
    \/ KeepStep(ts, tt, k)
    \/ SecondStep(ts, tt, k)
    \/ \E base \in VersionNo, outcome \in Outcome : EditStep(ts, tt, k, base, outcome)

\* Everything that records no admin action.
QuietMove(t, ts, tt) ==
    \/ tt = ts
    \/ \E u \in User : Active(u) /\ OnlyTask(t) /\ AnnotatorMove(ts, tt, u)
    \/ AbandonStep(ts, tt) \/ RefreshStep(ts, tt) \/ ReleaseStep(ts, tt)
    \/ \E a \in ActionNo : RestoreMove(t, ts, tt, a)
    \/ \E k \in RoundNo : DecisionMove(ts, tt, k) \/ CancelStep(ts, tt, k)

\* Offboarding u: first the task is let go, then his result withdrawn.
OffboardStep(ts, tt, u, a) ==
    \E free \in TaskRow :
        /\ TaskTyped(free) /\ CorpusInvOf(free)
        /\ ReleaseStep(ts, free) \/ ReserveStep(ts, free)
        /\ free.assignment.user # u /\ free.reserved # u
        /\ IF PublishedBy(free, u) THEN RevokeStep(free, tt, u, a, TRUE) ELSE tt = free

Withdrew(ts, tt) == ts.current # None /\ tt.current = None

\* The next admin action names u and, of a task it withdrew, both versions.
RecordedFor(t, u) ==
    LET a == actions + 1
        gone == Withdrew(task[t], task'[t])
    IN  /\ a \in ActionNo /\ actions' = a
        /\ \A b \in ActionNo : b # a => action'[b] = action[b]
        /\ action'[a].annotator = u
        /\ action'[a].before[t] = IF gone THEN task[t].current ELSE None
        /\ action'[a].after[t] = IF gone THEN task'[t].versions ELSE None

\* Every step is one of these three, for every task.
Moved(t) ==
    \/ /\ UNCHANGED <<annotator, actions, action>>
       /\ QuietMove(t, task[t], task'[t])
    \/ \E author \in User \cup {NoUser}, block \in BOOLEAN :
         /\ UNCHANGED annotator /\ RecordedFor(t, author)
         /\ \/ task'[t] = task[t]
            \/ RevokeStep(task[t], task'[t], author, actions + 1, block)
    \/ \E u \in User :
         /\ annotator' = [annotator EXCEPT ![u] = "deactivated"] /\ RecordedFor(t, u)
         /\ OffboardStep(task[t], task'[t], u, actions + 1)

\* A recorded withdrawal names the clean draft it left behind.
ItemsNamed ==
    \A a \in ActionNo, t \in Task : action[a].before[t] # None => action[a].after[t] # None

WorkInv == CorpusInv /\ (\A t \in Task : WorkInvOf(task[t])) /\ ItemsNamed

LEMMA SetTaskMoves ==
    ASSUME TypeOK, NEW t \in Task, NEW s \in Task, NEW row, SetTask(s, row)
    PROVE  task'[t] = IF t = s THEN row ELSE task[t]
  BY DEF SetTask, TypeOK

LEMMA SetTaskOnly ==
    ASSUME TypeOK, NEW s \in Task, NEW row, SetTask(s, row)
    PROVE  OnlyTask(s)
  BY DEF SetTask, OnlyTask, TypeOK

LEMMA AnnotatorStepMoves ==
    ASSUME WorkInv, NEW u \in User, AnnotatorStep(u), NEW t \in Task
    PROVE  Moved(t)
  <1>1. TypeOK /\ \A s \in Task : TaskTyped(task[s])
    BY DEF WorkInv, CorpusInv, TypeOK
  <1> SUFFICES /\ UNCHANGED <<annotator, actions, action>>
               /\ QuietMove(t, task[t], task'[t])
    BY DEF Moved
  <1>2. CASE \E s \in Task, d \in VersionNo, began \in 0 .. MaxActions : Claim(u, s, d, began)
    <2>1. PICK s \in Task, d \in VersionNo, began \in 0 .. MaxActions : Claim(u, s, d, began)
      BY <1>2
    <2>2. ClaimStep(task[s], Claimed(task[s], u, d, began), u, d)
      BY <1>1, <2>1, ClaimedIsStep DEF Claim
    <2>3. QED
      BY <1>1, <2>1, <2>2, SetTaskMoves, SetTaskOnly DEF Claim, UnchangedButTask, QuietMove, AnnotatorMove
  <1>3. CASE \E s \in Task : ClaimCrossCheck(u, s)
    <2>1. PICK s \in Task : ClaimCrossCheck(u, s)
      BY <1>3
    <2>2. CrossCheckStep(task[s], CrossCheckStarted(task[s], u), u)
      BY <1>1, <2>1, CrossCheckStartedIsStep DEF ClaimCrossCheck
    <2>3. QED
      BY <1>1, <2>1, <2>2, SetTaskMoves, SetTaskOnly
         DEF ClaimCrossCheck, UnchangedButTask, QuietMove, AnnotatorMove
  <1>4. CASE \E s \in Task : SaveDraft(u, s)
    <2>1. PICK s \in Task : SaveDraft(u, s)
      BY <1>4
    <2>2. SaveStep(task[s], Saved(task[s], u), u)
      BY <1>1, <2>1, SavedIsStep DEF SaveDraft
    <2>3. QED
      BY <1>1, <2>1, <2>2, SetTaskMoves, SetTaskOnly DEF SaveDraft, UnchangedButTask, QuietMove, AnnotatorMove
  <1>5. CASE \E s \in Task, outcome \in Outcome : Complete(u, s, outcome)
    <2>1. PICK s \in Task, outcome \in Outcome : Complete(u, s, outcome)
      BY <1>5
    <2>2. CompleteStep(task[s], Completed(task[s], u, outcome), u, outcome)
      BY <1>1, <2>1, CompletedIsStep DEF Complete
    <2>3. QED
      BY <1>1, <2>1, <2>2, SetTaskMoves, SetTaskOnly DEF Complete, UnchangedButTask, QuietMove, AnnotatorMove
  <1>6. CASE \E s \in Task : Abandon(u, s)
    <2>1. PICK s \in Task : Abandon(u, s)
      BY <1>6
    <2>2. AbandonStep(task[s], AbandonedBy(task[s]))
      BY <1>1, <2>1, AbandonedByIsStep DEF Abandon
    <2>3. QED
      BY <1>1, <2>1, <2>2, SetTaskMoves, SetTaskOnly DEF Abandon, UnchangedButTask, QuietMove
  <1>7. CASE \E s \in Task : Reopen(u, s)
    <2>1. PICK s \in Task : Reopen(u, s)
      BY <1>7
    <2>2. ReopenStep(task[s], Reopened(task[s], u), u)
      BY <1>1, <2>1, ReopenedIsStep DEF Reopen
    <2>3. QED
      BY <1>1, <2>1, <2>2, SetTaskMoves, SetTaskOnly DEF Reopen, UnchangedButTask, QuietMove, AnnotatorMove
  <1>8. CASE CommitSubmit(u)
    <2> DEFINE s == submission[u]
    <2>1. s \in SubmissionRow /\ s.task \in Task
      BY <1>1 DEF TypeOK, SubmissionRow
    <2>2. FreezeStep(task[s.task], Frozen(task[s.task], u, s, s.outcome, s.needsReview),
                     u, s, s.outcome, s.needsReview)
      BY <1>1, <1>8, <2>1, FrozenIsStep DEF CommitSubmit
    <2>3. /\ Active(u) /\ UNCHANGED <<annotator, actions, action>>
          /\ SetTask(s.task, Frozen(task[s.task], u, s, s.outcome, s.needsReview))
      BY <1>8 DEF CommitSubmit
    <2> HIDE DEF s
    <2>4. QED
      BY <1>1, <2>1, <2>2, <2>3, SetTaskMoves, SetTaskOnly DEF QuietMove, AnnotatorMove
  <1>9. CASE \/ \E s \in Task, outcome \in Outcome, needsReview \in BOOLEAN :
                  BeginSubmit(u, s, outcome, needsReview)
             \/ FailSubmit(u)
    BY <1>9 DEF BeginSubmit, FailSubmit, QuietMove
  <1>10. QED
    BY <1>2, <1>3, <1>4, <1>5, <1>6, <1>7, <1>8, <1>9 DEF AnnotatorStep

LEMMA OperatorStepMoves ==
    ASSUME WorkInv, OperatorStep, NEW t \in Task
    PROVE  Moved(t)
  <1>1. TypeOK /\ \A s \in Task : TaskTyped(task[s])
    BY DEF WorkInv, CorpusInv, TypeOK
  <1> SUFFICES /\ UNCHANGED <<annotator, actions, action>>
               /\ QuietMove(t, task[t], task'[t])
    BY DEF Moved
  <1>2. CASE \E s \in Task : Refresh(s)
    <2>1. PICK s \in Task : Refresh(s)
      BY <1>2
    <2>2. RefreshStep(task[s], Refreshed(task[s]))
      BY <1>1, <2>1, RefreshedIsStep DEF Refresh
    <2>3. QED
      BY <1>1, <2>1, <2>2, SetTaskMoves DEF Refresh, UnchangedButTask, QuietMove
  <1>3. CASE \E u \in User, s \in Task : ReleaseByCli(u, s)
    <2>1. PICK u \in User, s \in Task : ReleaseByCli(u, s)
      BY <1>3
    <2>2. AbandonStep(task[s], AbandonedBy(task[s]))
      BY <1>1, <2>1, AbandonedByIsStep DEF ReleaseByCli
    <2>3. QED
      BY <1>1, <2>1, <2>2, SetTaskMoves DEF ReleaseByCli, UnchangedButTask, QuietMove
  <1>4. QED
    BY <1>2, <1>3 DEF OperatorStep

LEMMA RestoreMoves ==
    ASSUME WorkInv, NEW S \in SUBSET Task, NEW a \in ActionNo, Restore(S, a), NEW t \in Task
    PROVE  Moved(t)
  <1> DEFINE r == action[a]
             tt == Restored(task[t], a, r.annotator, r.before[t], r.after[t])
  <1>1. /\ task'[t] = IF t \in S THEN tt ELSE task[t]
        /\ UNCHANGED <<annotator, actions, action>>
    BY DEF Restore, SetTasks, UnchangedButTask
  <1>2. CASE t \in S
    <2>1. /\ CanRestore(task[t], a, r.annotator, r.before[t], r.after[t])
          /\ AuthorStillActive(r.annotator) /\ a <= actions /\ r.before[t] # None
      BY <1>2 DEF Restore
    <2>2. TaskTyped(task[t]) /\ r.after[t] # None
      BY <2>1 DEF WorkInv, ItemsNamed, CorpusInv, TypeOK
    <2>3. RestoreStep(task[t], tt, a, r.annotator, r.before[t], r.after[t])
      BY <2>1, <2>2, RestoredIsStep
    <2> HIDE DEF tt
    <2>4. RestoreMove(t, task[t], task'[t], a)
      BY <1>1, <1>2, <2>1, <2>2, <2>3 DEF RestoreMove
    <2>5. QED
      BY <1>1, <2>4 DEF Moved, QuietMove
  <1>3. CASE t \notin S
    BY <1>1, <1>3 DEF Moved, QuietMove
  <1>4. QED
    BY <1>2, <1>3

\* A batch of revocations: the items list exactly the tasks of the batch.
LEMMA RevokeMoves ==
    ASSUME WorkInv, NEW S \in SUBSET Task, NEW author \in User \cup {NoUser},
           NEW block \in BOOLEAN, NEW releaseConflicts \in BOOLEAN,
           Revoke(S, author, block, releaseConflicts), NEW t \in Task
    PROVE  Moved(t)
  <1> DEFINE a == actions + 1
             row(s) == Revoked(task[s], author, a, block)
  <1>1. a \in ActionNo /\ TaskTyped(task[t]) /\ action \in [ActionNo -> ActionRow]
    BY BoundsAssumption DEF Revoke, WorkInv, CorpusInv, TypeOK, ActionNo
  <1>2. task'[t] = IF t \in S THEN row(t) ELSE task[t]
    BY DEF Revoke, SetTasks
  <1>3. /\ actions' = a /\ UNCHANGED annotator
        /\ \A b \in ActionNo : b # a => action'[b] = action[b]
        /\ action'[a].annotator = author
        /\ action'[a].before[t] = IF t \in S THEN task[t].current ELSE None
        /\ action'[a].after[t] = IF t \in S THEN row(t).versions ELSE None
    BY <1>1 DEF Revoke, Record
  <1>4. CASE t \in S
    <2>1. RevokeStep(task[t], row(t), author, a, block)
      BY <1>1, <1>4, RevokedIsStep DEF Revoke
    <2> HIDE DEF row
    <2>2. Withdrew(task[t], task'[t])
      BY <1>2, <1>4, <2>1 DEF RevokeStep, Withdrew
    <2>3. RecordedFor(t, author)
      BY <1>1, <1>2, <1>3, <1>4, <2>2 DEF RecordedFor
    <2>4. QED
      BY <1>2, <1>3, <1>4, <2>1, <2>3 DEF Moved
  <1>5. CASE t \notin S
    <2>1. ~ Withdrew(task[t], task'[t])
      BY <1>2, <1>5 DEF Withdrew
    <2>2. RecordedFor(t, author)
      BY <1>1, <1>3, <1>5, <2>1 DEF RecordedFor
    <2>3. QED
      BY <1>2, <1>3, <1>5, <2>2 DEF Moved
  <1>6. QED
    BY <1>4, <1>5

LEMMA DeactivateMoves ==
    ASSUME WorkInv, NEW u \in User, Deactivate(u), NEW t \in Task
    PROVE  Moved(t)
  <1> DEFINE a == actions + 1
             free == LetGo(task[t], u)
             row(s) == Offboarded(task[s], u, a)
             withdrawn == {s \in Task : PublishedBy(LetGo(task[s], u), u)}
  <1>1. a \in ActionNo /\ TaskTyped(task[t]) /\ action \in [ActionNo -> ActionRow]
    BY BoundsAssumption DEF Deactivate, WorkInv, CorpusInv, TypeOK, ActionNo
  <1>2. task'[t] = row(t)
    BY DEF Deactivate, SetTasks
  <1>3. /\ actions' = a /\ annotator' = [annotator EXCEPT ![u] = "deactivated"]
        /\ \A b \in ActionNo : b # a => action'[b] = action[b]
        /\ action'[a].annotator = u
        /\ action'[a].before[t] = IF t \in withdrawn THEN task[t].current ELSE None
        /\ action'[a].after[t] = IF t \in withdrawn THEN row(t).versions ELSE None
    BY <1>1 DEF Deactivate, Record
  <1>4. /\ TaskTyped(free) /\ (ReleaseStep(task[t], free) \/ ReserveStep(task[t], free))
        /\ free.assignment.user # u /\ free.reserved # u
        /\ IF PublishedBy(free, u) THEN RevokeStep(free, row(t), u, a, TRUE) ELSE row(t) = free
    BY <1>1, OffboardedIsSteps DEF Deactivate
  <1> CorpusInvOf(free)
    BY <1>1, LetGoKeeps DEF Deactivate, WorkInv, CorpusInv
  <1>5. t \in withdrawn <=> PublishedBy(free, u)
    OBVIOUS
  <1> HIDE DEF row, free, withdrawn
  <1>6. free.current = task[t].current
    BY <1>4 DEF ReleaseStep, ReserveStep, SamePointer
  <1>7. Withdrew(task[t], task'[t]) <=> PublishedBy(free, u)
    BY <1>2, <1>4, <1>6 DEF Withdrew, PublishedBy, RevokeStep
  <1>8. RecordedFor(t, u)
    BY <1>1, <1>2, <1>3, <1>5, <1>7 DEF RecordedFor
  <1>9. OffboardStep(task[t], task'[t], u, a)
    BY <1>2, <1>4 DEF OffboardStep, TaskTyped
  <1>10. QED
    BY <1>3, <1>8, <1>9 DEF Moved

LEMMA AdminStepMoves ==
    ASSUME WorkInv, AdminStep, NEW t \in Task
    PROVE  Moved(t)
  <1>1. TypeOK /\ \A s \in Task : TaskTyped(task[s]) /\ CorpusInvOf(task[s])
    BY DEF WorkInv, CorpusInv, TypeOK
  <1>2. CASE UpdateSettings
    BY <1>2 DEF UpdateSettings, Moved, QuietMove
  <1>3. CASE \E S \in SUBSET Task, author \in User \cup {NoUser},
                block \in BOOLEAN, releaseConflicts \in BOOLEAN :
               Revoke(S, author, block, releaseConflicts)
    BY <1>3, RevokeMoves
  <1>4. CASE \E S \in SUBSET Task, a \in ActionNo : Restore(S, a)
    BY <1>4, RestoreMoves
  <1>5. CASE \E s \in Task : ReleaseAssignment(s)
    <2>1. PICK s \in Task : ReleaseAssignment(s)
      BY <1>5
    <2>2. ReleaseStep(task[s], Released(task[s]))
      BY <1>1, <2>1, ReleasedIsStep DEF ReleaseAssignment
    <2>3. QED
      BY <1>1, <2>1, <2>2, SetTaskMoves DEF ReleaseAssignment, UnchangedButTask, QuietMove, Moved
  <1>6. CASE \E u \in User : Deactivate(u)
    BY <1>6, DeactivateMoves
  <1>7. CASE \E s \in Task, k \in RoundNo, decision \in Decision,
                base \in VersionNo, outcome \in Outcome :
               Decide(s, k, decision, base, outcome)
    <2>1. PICK s \in Task, k \in RoundNo, decision \in Decision,
               base \in VersionNo, outcome \in Outcome :
                 Decide(s, k, decision, base, outcome)
      BY <1>7
    <2>2. DecisionMove(task[s], Decided(task[s], k, decision, base, outcome), k)
      BY <1>1, <2>1, DecidedIsStep DEF Decide, DecisionMove
    <2>3. QED
      BY <1>1, <2>1, <2>2, SetTaskMoves DEF Decide, UnchangedButTask, QuietMove, Moved
  <1>8. CASE \E s \in Task, k \in RoundNo : Cancel(s, k)
    <2>1. PICK s \in Task, k \in RoundNo : Cancel(s, k)
      BY <1>8
    <2>2. CancelStep(task[s], Cancelled(task[s], k), k)
      BY <1>1, <2>1, CancelledIsStep DEF Cancel
    <2>3. QED
      BY <1>1, <2>1, <2>2, SetTaskMoves DEF Cancel, UnchangedButTask, QuietMove, Moved
  <1>9. QED
    BY <1>2, <1>3, <1>4, <1>5, <1>6, <1>7, <1>8 DEF AdminStep

LEMMA TaskMoves ==
    ASSUME WorkInv, [Next]_vars, NEW t \in Task
    PROVE  Moved(t)
  <1>1. CASE \E u \in User : AnnotatorStep(u)
    BY <1>1, AnnotatorStepMoves
  <1>2. CASE OperatorStep
    BY <1>2, OperatorStepMoves
  <1>3. CASE AdminStep
    BY <1>3, AdminStepMoves
  <1>4. CASE UNCHANGED vars
    BY <1>4 DEF vars, Moved, QuietMove
  <1>5. QED
    BY <1>1, <1>2, <1>3, <1>4 DEF Next

-----------------------------------------------------------------------------
(* A task nobody has worked on                                             *)

\* What the initial tasks have in common: version w and the baseline.
FreshVersions(ts, w) ==
    /\ w \in {1, 2} /\ ts.baseline \in {1, 2} \ {w} /\ ts.versions = 2
    /\ \A n \in VersionNo :
         LET v == ts.version[n] IN
         /\ v.lifecycle = "baseline" <=> n = ts.baseline
         /\ v.lifecycle = "none" <=> n \notin {1, 2}
         /\ v.purpose = "annotation" /\ v.revokedBy = None /\ v.cut = 0
         /\ n # w => v.modifiedBy = NoUser /\ v.submitter = NoUser

FreshRest(ts) ==
    /\ ts.rounds = 0 /\ \A k \in RoundNo : ts.round[k] = NoRoundRow
    /\ \A u \in User : ts.blockedBy[u] = None

FreshDraft(ts, w) ==
    /\ ts.status = "pending" /\ ts.current = None
    /\ ts.version[w].lifecycle = "draft" /\ ts.version[w].submitter = NoUser
    /\ \/ ts.assignment = NoAssignment
       \/ /\ ts.reserved = NoUser
          /\ \E h \in User : ts.assignment = [user |-> h, version |-> w,
                                              mode |-> "annotation", round |-> None]

FreshResult(ts, w) ==
    /\ ts.status \in Outcome /\ ts.current = w
    /\ ts.version[w].lifecycle = "published"
    /\ ts.assignment = NoAssignment /\ ts.reserved = NoUser

\* Whoever is named in the rows took part, as far as the migration knew.
FreshAuthors(ts, w) ==
    Backfilled =>
      {ts.version[w].modifiedBy, ts.version[w].submitter, ts.assignment.user}
        \subseteq ts.participants \cup {NoUser}

FreshTask(ts) ==
    \E w \in VersionNo :
        /\ FreshVersions(ts, w) /\ FreshRest(ts) /\ FreshAuthors(ts, w)
        /\ FreshDraft(ts, w) \/ FreshResult(ts, w)

LEMMA TaskWithFresh ==
    ASSUME NEW vr, NEW b, NEW r, NEW p
    PROVE  LET ts == TaskWith(2, vr, b, r, p) IN
           /\ FreshRest(ts) /\ ts.status = "pending" /\ ts.current = None
           /\ ts.baseline = b /\ ts.versions = 2 /\ ts.version = vr
           /\ ts.assignment = NoAssignment /\ ts.reserved = r /\ ts.participants = p
  BY DEF TaskWith, FreshRest

LEMMA BlankRows ==
    /\ BaselineRow.lifecycle = "baseline" /\ NoVersionRow.lifecycle = "none"
    /\ \A v \in {BaselineRow, NoVersionRow} :
         /\ v.purpose = "annotation" /\ v.revokedBy = None /\ v.cut = 0
         /\ v.modifiedBy = NoUser /\ v.submitter = NoUser
  BY DEF BaselineRow, NoVersionRow

LEMMA PreprocessedFresh == FreshTask(PreprocessedTask)
  <1> DEFINE row == [NoVersionRow EXCEPT !.lifecycle = "draft", !.base = 1]
             vr == [n \in VersionNo |-> CASE n = 1 -> BaselineRow
                                          [] n = 2 -> row
                                          [] OTHER -> NoVersionRow]
             ts == PreprocessedTask
  <1>1. 1 \in VersionNo /\ 2 \in VersionNo
    BY BoundsAssumption DEF VersionNo
  <1>2. /\ row.lifecycle = "draft" /\ row.purpose = "annotation" /\ row.revokedBy = None
        /\ row.cut = 0 /\ row.modifiedBy = NoUser /\ row.submitter = NoUser
    BY DEF NoVersionRow
  <1>3. /\ FreshRest(ts) /\ ts.status = "pending" /\ ts.current = None
        /\ ts.baseline = 1 /\ ts.versions = 2 /\ ts.version = vr
        /\ ts.assignment = NoAssignment /\ ts.participants = {}
    BY TaskWithFresh DEF PreprocessedTask
  <1> HIDE DEF row, ts
  <1>4. FreshVersions(ts, 2)
    BY <1>1, <1>2, <1>3, BlankRows DEF FreshVersions
  <1>5. FreshAuthors(ts, 2) /\ FreshDraft(ts, 2)
    BY <1>1, <1>2, <1>3 DEF FreshAuthors, FreshDraft, NoAssignment
  <1>6. QED
    BY <1>1, <1>3, <1>4, <1>5 DEF FreshTask, ts

LEMMA ImportedTaskFresh ==
    ASSUME NEW row, NEW r, NEW p,
           row.lifecycle \notin {"baseline", "none"}, row.purpose = "annotation",
           row.revokedBy = None, row.cut = 0
    PROVE  LET ts == ImportedTask(row, r, p) IN
           /\ FreshVersions(ts, 1) /\ FreshRest(ts)
           /\ ts.status = "pending" /\ ts.current = None /\ ts.version[1] = row
           /\ ts.assignment = NoAssignment /\ ts.reserved = r /\ ts.participants = p
  <1> DEFINE vr == [n \in VersionNo |-> CASE n = 1 -> row
                                          [] n = 2 -> BaselineRow
                                          [] OTHER -> NoVersionRow]
             ts == ImportedTask(row, r, p)
  <1>1. 1 \in VersionNo /\ 2 \in VersionNo
    BY BoundsAssumption DEF VersionNo
  <1>2. /\ FreshRest(ts) /\ ts.status = "pending" /\ ts.current = None
        /\ ts.baseline = 2 /\ ts.versions = 2 /\ ts.version = vr
        /\ ts.assignment = NoAssignment /\ ts.reserved = r /\ ts.participants = p
    BY TaskWithFresh DEF ImportedTask
  <1> HIDE DEF ts
  <1>3. FreshVersions(ts, 1)
    BY <1>1, <1>2, BlankRows DEF FreshVersions
  <1>4. ts.version[1] = row
    BY <1>1, <1>2
  <1>5. QED
    BY <1>2, <1>3, <1>4 DEF ts

LEMMA LegacyRow ==
    ASSUME NEW last
    PROVE  LET v == LegacyVersion(last) IN
           /\ v.purpose = "annotation" /\ v.revokedBy = None /\ v.cut = 0
           /\ v.modifiedBy = last.editor /\ v.submitter = NoUser
  BY DEF LegacyVersion, NoVersionRow

LEMMA KnownAuthorsAre ==
    ASSUME NEW u \in User \cup {NoUser}, NEW v \in User \cup {NoUser}, Backfilled
    PROVE  {u, v} \subseteq KnownAuthors(u, v) \cup {NoUser}
  BY DEF KnownAuthors

LEMMA ImportedDraftFresh ==
    ASSUME NEW last \in LastEdit, NEW p,
           Backfilled => last.editor \in p \cup {NoUser}
    PROVE  LET ts == ImportedDraft(last, p) IN
           /\ FreshVersions(ts, 1) /\ FreshRest(ts) /\ FreshAuthors(ts, 1)
           /\ FreshDraft(ts, 1) /\ ts.assignment = NoAssignment
           /\ ts.version[1].modifiedBy = last.editor /\ ts.participants = p
  <1> DEFINE row == [LegacyVersion(last) EXCEPT !.lifecycle = "draft"]
             ts == ImportedDraft(last, p)
  <1>1. /\ row.lifecycle = "draft" /\ row.purpose = "annotation" /\ row.revokedBy = None
        /\ row.cut = 0 /\ row.modifiedBy = last.editor /\ row.submitter = NoUser
    BY DEF LegacyVersion, NoVersionRow
  <1> HIDE DEF row
  <1>2. /\ FreshVersions(ts, 1) /\ FreshRest(ts)
        /\ ts.status = "pending" /\ ts.current = None /\ ts.version[1] = row
        /\ ts.assignment = NoAssignment /\ ts.participants = p
    <2>1. ts = ImportedTask(row, last.editor, p)
      BY DEF ImportedDraft, row
    <2>2. QED
      BY <1>1, <2>1, ImportedTaskFresh
  <1> HIDE DEF ts
  <1>3. FreshAuthors(ts, 1) /\ FreshDraft(ts, 1)
    BY <1>1, <1>2 DEF FreshAuthors, FreshDraft, NoAssignment
  <1>4. QED
    BY <1>1, <1>2, <1>3 DEF ts

LEMMA ImportedAssignedFresh ==
    ASSUME NEW h \in User, NEW last \in LastEdit
    PROVE  FreshTask(ImportedAssigned(h, last, KnownAuthors(h, last.editor)))
  <1> DEFINE p  == KnownAuthors(h, last.editor)
             a  == [user |-> h, version |-> 1, mode |-> "annotation", round |-> None]
             id == ImportedDraft(last, p)
             ts == ImportedAssigned(h, last, p)
  <1>1. 1 \in VersionNo
    BY BoundsAssumption DEF VersionNo
  <1>2. Backfilled => h \in p \cup {NoUser} /\ last.editor \in p \cup {NoUser}
    BY KnownAuthorsAre DEF LastEdit
  <1> HIDE DEF p
  <1>3. /\ FreshVersions(id, 1) /\ FreshRest(id) /\ FreshAuthors(id, 1)
        /\ FreshDraft(id, 1) /\ id.version[1].modifiedBy = last.editor
        /\ id.participants = p
    BY <1>2, ImportedDraftFresh
  <1>4. /\ ts.status = id.status /\ ts.current = id.current /\ ts.baseline = id.baseline
        /\ ts.versions = id.versions /\ ts.version = id.version /\ ts.rounds = id.rounds
        /\ ts.round = id.round /\ ts.blockedBy = id.blockedBy /\ ts.reserved = NoUser
        /\ ts.participants = id.participants /\ ts.assignment = a
    BY DEF ImportedAssigned, ImportedDraft, ImportedTask, TaskWith
  <1> HIDE DEF id, ts
  <1>5. FreshVersions(ts, 1) /\ FreshRest(ts)
    BY <1>3, <1>4 DEF FreshVersions, FreshRest
  <1>6. FreshDraft(ts, 1)
    BY <1>3, <1>4 DEF FreshDraft
  <1>7. FreshAuthors(ts, 1)
    BY <1>2, <1>3, <1>4 DEF FreshAuthors, FreshDraft
  <1>8. QED
    BY <1>1, <1>5, <1>6, <1>7 DEF FreshTask, ts, p

LEMMA ImportedResultFresh ==
    ASSUME NEW u \in User \cup {NoUser}, NEW last \in LastEdit, NEW o \in Outcome
    PROVE  FreshTask(ImportedResult(u, last, o, KnownAuthors(u, last.editor)))
  <1> DEFINE p   == KnownAuthors(u, last.editor)
             row == [LegacyVersion(last) EXCEPT !.lifecycle = "published",
                       !.target = o, !.submitter = u]
             id  == ImportedTask(row, NoUser, p)
             ts  == ImportedResult(u, last, o, p)
  <1>1. 1 \in VersionNo
    BY BoundsAssumption DEF VersionNo
  <1>2. Backfilled => u \in p \cup {NoUser} /\ last.editor \in p \cup {NoUser}
    BY KnownAuthorsAre DEF LastEdit
  <1> HIDE DEF p
  <1>3. /\ row.lifecycle = "published" /\ row.purpose = "annotation" /\ row.revokedBy = None
        /\ row.cut = 0 /\ row.modifiedBy = last.editor /\ row.submitter = u
    BY DEF LegacyVersion, NoVersionRow
  <1>4. /\ ts.status = o /\ ts.current = 1 /\ ts.baseline = id.baseline
        /\ ts.versions = id.versions /\ ts.version = id.version /\ ts.rounds = id.rounds
        /\ ts.round = id.round /\ ts.blockedBy = id.blockedBy /\ ts.reserved = id.reserved
        /\ ts.participants = id.participants /\ ts.assignment = id.assignment
    BY DEF ImportedResult, ImportedTask, TaskWith
  <1> HIDE DEF row
  <1>5. /\ FreshVersions(id, 1) /\ FreshRest(id) /\ id.version[1] = row
        /\ id.assignment = NoAssignment /\ id.reserved = NoUser /\ id.participants = p
    BY <1>3, ImportedTaskFresh
  <1> HIDE DEF id, ts
  <1>6. FreshVersions(ts, 1) /\ FreshRest(ts)
    BY <1>4, <1>5 DEF FreshVersions, FreshRest
  <1>7. FreshResult(ts, 1)
    BY <1>3, <1>4, <1>5 DEF FreshResult
  <1>8. FreshAuthors(ts, 1)
    BY <1>2, <1>3, <1>4, <1>5 DEF FreshAuthors, NoAssignment
  <1>9. QED
    BY <1>1, <1>6, <1>7, <1>8 DEF FreshTask, ts, p

LEMMA StartingTasksFresh == \A ts \in StartingTasks : FreshTask(ts)
  <1> SUFFICES ASSUME NEW ts \in StartingTasks PROVE FreshTask(ts)
    OBVIOUS
  <1>1. 1 \in VersionNo
    BY BoundsAssumption DEF VersionNo
  <1>2. CASE ts = PreprocessedTask
    BY <1>2, PreprocessedFresh
  <1>3. ASSUME NEW last \in LastEdit, ts = ImportedDraft(last, KnownAuthors(NoUser, last.editor))
        PROVE  FreshTask(ts)
    <2> DEFINE p == KnownAuthors(NoUser, last.editor)
    <2>1. Backfilled => last.editor \in p \cup {NoUser}
      BY KnownAuthorsAre DEF LastEdit
    <2> HIDE DEF p
    <2>2. ts = ImportedDraft(last, p)
      BY <1>3 DEF p
    <2>3. /\ FreshVersions(ts, 1) /\ FreshRest(ts) /\ FreshAuthors(ts, 1) /\ FreshDraft(ts, 1)
      BY <2>1, <2>2, ImportedDraftFresh
    <2>4. QED
      BY <1>1, <2>3 DEF FreshTask
  <1>4. CASE \E h \in User, last \in LastEdit :
               ts = ImportedAssigned(h, last, KnownAuthors(h, last.editor))
    BY <1>4, ImportedAssignedFresh
  <1>5. CASE \E u \in User \cup {NoUser}, last \in LastEdit, o \in Outcome :
               ts = ImportedResult(u, last, o, KnownAuthors(u, last.editor))
    BY <1>5, ImportedResultFresh
  <1>6. QED
    BY <1>2, <1>3, <1>4, <1>5, StartingTasksForms

LEMMA FreshWork ==
    ASSUME NEW ts, FreshTask(ts), ts.baseline \in VersionNo
    PROVE  WorkInvOf(ts)
  <1>1. PICK w \in VersionNo :
          /\ FreshVersions(ts, w) /\ FreshRest(ts)
          /\ FreshDraft(ts, w) \/ FreshResult(ts, w)
    BY DEF FreshTask
  <1>2. OpenRounds(ts) = {} /\ ts.assignment.mode # "cross_check"
    <2>1. NoRoundRow.state \notin OpenState
      BY DEF NoRoundRow, OpenState
    <2>2. OpenRounds(ts) = {}
      BY <1>1, <2>1 DEF OpenRounds, FreshRest
    <2>3. ts.assignment.mode = "annotation"
      <3>1. NoAssignment.mode = "annotation"
        BY DEF NoAssignment
      <3>2. QED
        <4>1. CASE ts.assignment = NoAssignment
          BY <3>1, <4>1
        <4>2. CASE \E h \in User : ts.assignment = [user |-> h, version |-> w,
                                                   mode |-> "annotation", round |-> None]
          BY <4>2
        <4>3. QED
          BY <1>1, <4>1, <4>2 DEF FreshDraft, FreshResult
    <2>4. QED
      BY <2>2, <2>3
  <1>3. RoundAgreesIn(ts)
    BY <1>2, NoRoundsAgree
  <1>4. ts.version[ts.baseline].lifecycle = "baseline" /\ \A n \in VersionNo :
          n # w => ts.version[n].lifecycle \in {"baseline", "none"}
    BY <1>1 DEF FreshVersions
  <1>5. CASE FreshDraft(ts, w)
    <2>1. Drafts(ts) = {w} /\ VersionsIn(ts, {"revoked"}) = {}
      BY <1>4, <1>5 DEF FreshDraft, Drafts, VersionsIn
    <2>2. ts.version[w].purpose = "annotation" /\ ts.status = "pending"
      BY <1>1, <1>5 DEF FreshVersions, FreshDraft
    <2>3. CASE ts.assignment = NoAssignment
      BY <1>3, <1>4, <2>1, <2>2, <2>3, PendingIdle DEF WorkInvOf, NoAssignment, Assigned
    <2>4. CASE /\ ts.reserved = NoUser
               /\ \E h \in User : ts.assignment = [user |-> h, version |-> w,
                                                   mode |-> "annotation", round |-> None]
      BY <1>3, <1>4, <2>1, <2>2, <2>4, NoUserAssumption DEF WorkInvOf, WorkAgreesIn, Assigned
    <2>5. QED
      BY <1>5, <2>3, <2>4 DEF FreshDraft
  <1>6. CASE FreshResult(ts, w)
    <2>1. Drafts(ts) = {} /\ ts.status # "pending" /\ ts.assignment = NoAssignment
          /\ ts.reserved = NoUser
      BY <1>4, <1>6 DEF FreshResult, Drafts, VersionsIn, Outcome
    <2>2. QED
      BY <1>3, <1>4, <2>1, PublishedIdle DEF WorkInvOf
  <1>7. QED
    BY <1>1, <1>5, <1>6

-----------------------------------------------------------------------------
(* The invariant                                                           *)

LEMMA QuietKeepsWork ==
    ASSUME NEW t, NEW ts, TaskTyped(ts), CorpusInvOf(ts), WorkInvOf(ts), NEW tt,
           QuietMove(t, ts, tt), action \in [ActionNo -> ActionRow], t \in Task
    PROVE  WorkInvOf(tt)
  <1>1. ASSUME NEW u \in User, AnnotatorMove(ts, tt, u)
        PROVE  WorkInvOf(tt)
    BY <1>1, ClaimKeepsWork, CrossCheckKeepsWork, ReopenKeepsWork, SaveKeepsWork,
       CompleteKeepsWork, FreezeKeepsWork DEF AnnotatorMove
  <1>2. ASSUME NEW a \in ActionNo, RestoreMove(t, ts, tt, a)
        PROVE  WorkInvOf(tt)
    <2>1. action[a].before[t] \in VersionNo /\ action[a].after[t] \in VersionNo
      BY <1>2 DEF RestoreMove, ActionRow
    <2>2. QED
      BY <1>2, <2>1, RestoreKeepsWork DEF RestoreMove
  <1>3. ASSUME NEW k \in RoundNo, DecisionMove(ts, tt, k)
        PROVE  WorkInvOf(tt)
    BY <1>3, KeepKeepsWork, SecondKeepsWork, EditKeepsWork DEF DecisionMove
  <1>4. QED
    BY <1>1, <1>2, <1>3, AbandonKeepsWork, RefreshKeepsWork, ReleaseKeepsWork, CancelKeepsWork
       DEF QuietMove

LEMMA OffboardKeepsWork ==
    ASSUME NEW ts, TaskTyped(ts), CorpusInvOf(ts), WorkInvOf(ts), NEW tt, NEW u, NEW a,
           OffboardStep(ts, tt, u, a)
    PROVE  WorkInvOf(tt)
  BY ReleaseKeepsWork, ReserveKeepsWork, RevokeKeepsWork DEF OffboardStep

LEMMA MovedKeepsWork ==
    ASSUME WorkInv, NEW t \in Task, Moved(t)
    PROVE  /\ WorkInvOf(task[t])'
           /\ \A a \in ActionNo : action'[a].before[t] # None => action'[a].after[t] # None
  <1>1. /\ TaskTyped(task[t]) /\ CorpusInvOf(task[t]) /\ WorkInvOf(task[t])
        /\ action \in [ActionNo -> ActionRow]
        /\ \A a \in ActionNo : action[a].before[t] # None => action[a].after[t] # None
    BY DEF WorkInv, CorpusInv, TypeOK, ItemsNamed
  <1>2. CASE /\ UNCHANGED <<annotator, actions, action>>
             /\ QuietMove(t, task[t], task'[t])
    <2>1. WorkInvOf(task'[t])
      BY <1>1, <1>2, QuietKeepsWork
    <2>2. QED
      BY <1>1, <1>2, <2>1
  <1>3. ASSUME NEW u, RecordedFor(t, u),
               Withdrew(task[t], task'[t]) => task'[t].versions # None
        PROVE  \A a \in ActionNo : action'[a].before[t] # None => action'[a].after[t] # None
    BY <1>1, <1>3 DEF RecordedFor
  <1>4. ASSUME NEW ts, TaskTyped(ts), NEW author, NEW a, NEW block,
               RevokeStep(ts, task'[t], author, a, block)
        PROVE  task'[t].versions # None
    BY <1>4, RowsWith DEF RevokeStep, None
  <1>5. CASE \E author \in User \cup {NoUser}, block \in BOOLEAN :
               /\ UNCHANGED annotator /\ RecordedFor(t, author)
               /\ \/ task'[t] = task[t]
                  \/ RevokeStep(task[t], task'[t], author, actions + 1, block)
    <2>1. PICK author \in User \cup {NoUser}, block \in BOOLEAN :
               /\ RecordedFor(t, author)
               /\ \/ task'[t] = task[t]
                  \/ RevokeStep(task[t], task'[t], author, actions + 1, block)
      BY <1>5
    <2>2. WorkInvOf(task'[t])
      BY <1>1, <2>1, RevokeKeepsWork
    <2>3. Withdrew(task[t], task'[t]) => task'[t].versions # None
      BY <1>1, <1>4, <2>1 DEF Withdrew
    <2>4. QED
      BY <1>3, <2>1, <2>2, <2>3
  <1>6. CASE \E u \in User :
               /\ annotator' = [annotator EXCEPT ![u] = "deactivated"] /\ RecordedFor(t, u)
               /\ OffboardStep(task[t], task'[t], u, actions + 1)
    <2>1. PICK u \in User : RecordedFor(t, u) /\ OffboardStep(task[t], task'[t], u, actions + 1)
      BY <1>6
    <2>2. WorkInvOf(task'[t])
      BY <1>1, <2>1, OffboardKeepsWork
    <2>3. Withdrew(task[t], task'[t]) => task'[t].versions # None
      <3>1. PICK free \in TaskRow :
              /\ TaskTyped(free)
              /\ ReleaseStep(task[t], free) \/ ReserveStep(task[t], free)
              /\ \/ RevokeStep(free, task'[t], u, actions + 1, TRUE)
                 \/ task'[t] = free
        BY <2>1 DEF OffboardStep
      <3>2. free.current = task[t].current
        BY <3>1 DEF ReleaseStep, ReserveStep, SamePointer
      <3>3. QED
        BY <1>4, <3>1, <3>2 DEF Withdrew
    <2>4. QED
      BY <1>3, <2>1, <2>2, <2>3
  <1>7. QED
    BY <1>2, <1>5, <1>6 DEF Moved

\* Drafts, assignments, rounds and the items of admin actions agree in every
\* reachable state.
THEOREM WorkInvHolds == Spec => []WorkInv
  <1>1. Init => WorkInv
    <2>1. Init => CorpusInv
      BY StartingTasksCorpus, InitTyped DEF Init, CorpusInv
    <2>2. Init => \A t \in Task : WorkInvOf(task[t])
      <3>1. ASSUME Init, NEW t \in Task
            PROVE  WorkInvOf(task[t])
        <4>1. task[t] \in StartingTasks /\ TaskTyped(task[t])
          BY <3>1, InitTyped DEF Init, TypeOK
        <4>2. QED
          BY <4>1, StartingTasksFresh, FreshWork, RowsWith
      <3>2. QED
        BY <3>1
    <2>3. Init => ItemsNamed
      BY DEF Init, ItemsNamed, NoActionRow, NoItems
    <2>4. QED
      BY <2>1, <2>2, <2>3 DEF WorkInv
  <1>2. WorkInv /\ CorpusInv' /\ [Next]_vars => WorkInv'
    <2>1. SUFFICES ASSUME WorkInv, CorpusInv', [Next]_vars
                   PROVE  WorkInv'
      OBVIOUS
    <2>2. \A t \in Task : Moved(t)
      BY <2>1, TaskMoves
    <2>3. \A t \in Task : WorkInvOf(task[t])'
      BY <2>1, <2>2, MovedKeepsWork
    <2>4. ItemsNamed'
      BY <2>1, <2>2, MovedKeepsWork DEF ItemsNamed
    <2>5. QED
      BY <2>1, <2>3, <2>4 DEF WorkInv
  <1>3. QED
    BY <1>1, <1>2, CorpusInvHolds, PTL DEF Spec

\* Drafts and assignments agree (WorkAgrees).
THEOREM WorkAgreesHolds == Spec => []WorkAgrees
  <1>1. WorkInv => WorkAgrees
    BY DEF WorkInv, WorkInvOf, WorkAgrees
  <1>2. QED
    BY <1>1, WorkInvHolds, PTL

\* Rounds and assignments agree (RoundAgrees).
THEOREM RoundAgreesHolds == Spec => []RoundAgrees
  <1>1. WorkInv => RoundAgrees
    BY DEF WorkInv, WorkInvOf, RoundAgrees
  <1>2. QED
    BY <1>1, WorkInvHolds, PTL

-----------------------------------------------------------------------------
(* One task per annotator                                                  *)

LEMMA NewHolder ==
    ASSUME WorkInv, NEW t \in Task, Moved(t), NEW u \in User, task'[t].assignment.user = u
    PROVE  task[t].assignment.user = u \/ (OnlyTask(t) /\ HoldsNothing(u))
  <1> DEFINE ts == task[t]
             tt == task'[t]
  <1>1. NoAssignment.user # u
    BY NoUserAssumption DEF NoAssignment
  <1>2. CASE QuietMove(t, ts, tt)
    <2>1. CASE \E v \in User : OnlyTask(t) /\ AnnotatorMove(ts, tt, v)
      <3>1. PICK v \in User : OnlyTask(t) /\ AnnotatorMove(ts, tt, v)
        BY <2>1
      <3>2. CASE /\ HoldsNothing(v)
                 /\ \/ \E d \in VersionNo : ClaimStep(ts, tt, v, d)
                    \/ CrossCheckStep(ts, tt, v)
                    \/ ReopenStep(ts, tt, v)
        <4>1. tt.assignment.user = v
          <5>1. CASE \E d \in VersionNo : ClaimStep(ts, tt, v, d)
            BY <5>1 DEF ClaimStep
          <5>2. CASE CrossCheckStep(ts, tt, v)
            BY <5>2 DEF CrossCheckStep
          <5>3. CASE ReopenStep(ts, tt, v)
            BY <5>3 DEF ReopenStep
          <5>4. QED
            BY <3>2, <5>1, <5>2, <5>3
        <4>2. QED
          BY <3>1, <3>2, <4>1
      <3>3. CASE \/ SaveStep(ts, tt, v)
                 \/ \E outcome \in Outcome : CompleteStep(ts, tt, v, outcome)
                 \/ \E snap \in SubmissionRow :
                      FreezeStep(ts, tt, v, snap, snap.outcome, snap.needsReview)
        BY <1>1, <3>3 DEF SaveStep, CompleteStep, FreezeStep
      <3>4. QED
        BY <3>1, <3>2, <3>3 DEF AnnotatorMove
    <2>2. CASE \/ tt = ts \/ AbandonStep(ts, tt) \/ RefreshStep(ts, tt) \/ ReleaseStep(ts, tt)
               \/ \E a \in ActionNo : RestoreMove(t, ts, tt, a)
      BY <1>1, <2>2 DEF AbandonStep, RefreshStep, ReleaseStep, RestoreMove, RestoreStep
    <2>3. CASE \E k \in RoundNo : DecisionMove(ts, tt, k) \/ CancelStep(ts, tt, k)
      BY <1>1, <2>3 DEF DecisionMove, KeepStep, SecondStep, EditStep, DecideStep, CancelStep
    <2>4. QED
      BY <1>2, <2>1, <2>2, <2>3 DEF QuietMove
  <1>3. CASE tt = ts \/ \E author, a, block : RevokeStep(ts, tt, author, a, block)
    BY <1>1, <1>3 DEF RevokeStep
  <1>4. CASE \E v \in User : OffboardStep(ts, tt, v, actions + 1)
    BY <1>1, <1>4 DEF OffboardStep, ReleaseStep, ReserveStep, RevokeStep
  <1>5. QED
    BY <1>2, <1>3, <1>4 DEF Moved

HoldsOne == \A u \in User : \A s, t \in HeldBy(u) : s = t

LEMMA HoldsOneKept ==
    ASSUME WorkInv, HoldsOne, \A t \in Task : Moved(t)
    PROVE  HoldsOne'
  <1>1. ASSUME NEW u \in User, NEW s \in Task, NEW t \in Task,
               task'[s].assignment.user = u, task'[t].assignment.user = u, s # t
        PROVE  FALSE
    <2>1. task[s].assignment.user = u \/ (OnlyTask(s) /\ HoldsNothing(u))
      BY <1>1, NewHolder
    <2>2. task[t].assignment.user = u \/ (OnlyTask(t) /\ HoldsNothing(u))
      BY <1>1, NewHolder
    <2>3. CASE OnlyTask(s) /\ HoldsNothing(u)
      BY <1>1, <2>3 DEF OnlyTask, HoldsNothing, HeldBy
    <2>4. CASE OnlyTask(t) /\ HoldsNothing(u)
      BY <1>1, <2>4 DEF OnlyTask, HoldsNothing, HeldBy
    <2>5. CASE task[s].assignment.user = u /\ task[t].assignment.user = u
      BY <1>1, <2>5 DEF HoldsOne, HeldBy
    <2>6. QED
      BY <2>1, <2>2, <2>3, <2>4, <2>5
  <1>2. QED
    BY <1>1 DEF HoldsOne, HeldBy

LEMMA AtMostOne ==
    ASSUME NEW S, IsFiniteSet(S)
    PROVE  Cardinality(S) <= 1 <=> \A s, t \in S : s = t
  <1>1. ASSUME Cardinality(S) <= 1, NEW s \in S, NEW t \in S, s # t
        PROVE  FALSE
    <2>1. IsFiniteSet({s}) /\ Cardinality({s}) = 1
      BY FS_Singleton
    <2>2. IsFiniteSet({s} \cup {t}) /\ Cardinality({s} \cup {t}) = 2
      <3>1. /\ IsFiniteSet({s} \cup {t})
            /\ Cardinality({s} \cup {t}) = IF t \in {s} THEN Cardinality({s})
                                                      ELSE Cardinality({s}) + 1
        BY <2>1, FS_AddElement
      <3>2. t \notin {s}
        BY <1>1
      <3>3. QED
        BY <2>1, <3>1, <3>2
    <2>3. Cardinality({s} \cup {t}) <= Cardinality(S)
      BY <2>2, FS_Subset
    <2>4. Cardinality(S) \in Nat
      BY FS_CardinalityType
    <2>5. QED
      BY <1>1, <2>2, <2>3, <2>4
  <1>2. ASSUME \A s, t \in S : s = t
        PROVE  Cardinality(S) <= 1
    <2>1. CASE S = {}
      BY <2>1, FS_EmptySet
    <2>2. CASE \E s : s \in S
      <3>1. PICK s : S = {s}
        BY <1>2, <2>2
      <3>2. QED
        BY <3>1, FS_Singleton
    <2>3. QED
      BY <2>1, <2>2
  <1>3. QED
    BY <1>1, <1>2

LEMMA HeldFinite ==
    ASSUME NEW u
    PROVE  IsFiniteSet(HeldBy(u))
  BY StoreAssumption, FS_Subset DEF HeldBy

\* No annotator ever holds two tasks (OneTaskPerUser).
THEOREM OneTaskPerUserHolds == Spec => []OneTaskPerUser
  <1>1. OneTaskPerUser <=> HoldsOne
    BY HeldFinite, AtMostOne DEF OneTaskPerUser, HoldsOne
  <1>2. Init => HoldsOne
    BY <1>1 DEF Init, OneTaskPerUser
  <1>3. WorkInv /\ HoldsOne /\ [Next]_vars => HoldsOne'
    BY TaskMoves, HoldsOneKept
  <1>4. QED
    BY <1>1, <1>2, <1>3, WorkInvHolds, PTL DEF Spec

-----------------------------------------------------------------------------
(* What may happen to one version                                          *)

\* Written by the holder: saved, or submitted in one of the two ways.
WrittenRow(ts, n, w) ==
    LET v == ts.version[n]
        u == ts.assignment.user
    IN  /\ Assigned(ts) /\ u \in User /\ n = ts.assignment.version /\ v.lifecycle = "draft"
        /\ \/ w = Edited(v, u)
           \/ \E o \in Outcome : /\ v.purpose = "annotation"
                                 /\ w = Submitted(v, u, "published", o)
           \/ \E o \in Outcome : w = Submitted(v, u, "cross_check_submitted", o)

\* The next version of the task, a draft.
AddedDraft(ts, tt, n, w) ==
    /\ n = ts.versions + 1 /\ tt.versions = n /\ ts.version[n].lifecycle = "none"
    /\ \/ w \in {CleanRow(ts), BlindDraft(ts)}
       \/ w = CorrectionRow(ts) /\ ts.current # None /\ ts.version[ts.current].lifecycle = "published"

\* What happens to a version except by a decision on a round ...
PlainMove(ts, tt, n) ==
    LET v == ts.version[n]
        w == tt.version[n]
    IN  \/ w = v
        \/ v.lifecycle = "draft" /\ w = InState(v, "abandoned")
        \/ v.lifecycle = "published" /\ w = InState(v, "superseded")
        \/ v.lifecycle = "published" /\ \E a \in ActionNo : w = RevokedRow(v, a)
        \/ v.lifecycle = "revoked" /\ w = Reinstated(v)
        \/ WrittenRow(ts, n, w)
        \/ CanRefresh(ts) /\ v.lifecycle \in {"draft", "baseline"}
             /\ \E c \in Nat, b \in {0, 1} : w = Recut(v, c, b)
        \/ AddedDraft(ts, tt, n, w)

\* ... and by one.
RowMove(ts, tt, n) ==
    LET v == ts.version[n]
        w == tt.version[n]
    IN  \/ PlainMove(ts, tt, n)
        \/ v.lifecycle = "cross_check_submitted" /\ w = InState(v, "published")
        \/ /\ n = ts.versions + 1 /\ tt.versions = n /\ v.lifecycle = "none"
           /\ \E base \in VersionNo, o \in Outcome : w = AdminEdit(ts, base, o)

LEMMA RowFacts ==
    ASSUME NEW ts, TaskTyped(ts), NEW n \in VersionNo
    PROVE  LET v == ts.version[n] IN
           /\ v \in VersionRow
           /\ AbandonIfDraft(v) = IF v.lifecycle = "draft" THEN InState(v, "abandoned") ELSE v
           /\ SupersedeIfPublished(v) =
                IF v.lifecycle = "published" THEN InState(v, "superseded") ELSE v
  BY RowsWith DEF AbandonIfDraft, SupersedeIfPublished, InState

LEMMA NewNumber ==
    ASSUME NEW ts, TaskTyped(ts), CorpusInvOf(ts), ts.versions + 1 \in VersionNo
    PROVE  ts.version[ts.versions + 1].lifecycle = "none"
  BY RowsWith DEF CorpusInvOf

LEMMA ClaimRows ==
    ASSUME NEW ts, NEW tt, NEW u, NEW d, ClaimStep(ts, tt, u, d)
    PROVE  \A n \in VersionNo : PlainMove(ts, tt, n)
  BY DEF ClaimStep, SameVersions, PlainMove

LEMMA SaveRows ==
    ASSUME NEW ts, WorkInvOf(ts), NEW tt, NEW u \in User, SaveStep(ts, tt, u)
    PROVE  \A n \in VersionNo : PlainMove(ts, tt, n)
  <1>1. ts.assignment.user = u /\ Assigned(ts)
    BY NoUserAssumption DEF SaveStep, CanSave, Assigned
  <1>2. ts.version[ts.assignment.version].lifecycle = "draft"
    BY <1>1 DEF WorkInvOf, WorkAgreesIn, Drafts, VersionsIn
  <1>3. QED
    BY <1>1, <1>2 DEF SaveStep, PlainMove, WrittenRow

LEMMA CompleteRows ==
    ASSUME NEW ts, TaskTyped(ts), WorkInvOf(ts), NEW tt, NEW u \in User,
           NEW outcome \in Outcome, CompleteStep(ts, tt, u, outcome)
    PROVE  \A n \in VersionNo : PlainMove(ts, tt, n)
  <1>1. ts.assignment.user = u /\ Assigned(ts) /\ ts.assignment.mode # "cross_check"
    BY NoUserAssumption DEF CompleteStep, CanComplete, Assigned
  <1>2. /\ ts.version[ts.assignment.version].lifecycle = "draft"
        /\ ts.version[ts.assignment.version].purpose = "annotation"
    BY <1>1 DEF WorkInvOf, WorkAgreesIn, Drafts, VersionsIn
  <1>3. QED
    BY <1>1, <1>2, RowFacts DEF CompleteStep, PlainMove, WrittenRow

LEMMA AbandonRows ==
    ASSUME NEW ts, TaskTyped(ts), NEW tt, AbandonStep(ts, tt)
    PROVE  \A n \in VersionNo : PlainMove(ts, tt, n)
  BY RowFacts DEF AbandonStep, PlainMove

LEMMA ReopenRows ==
    ASSUME NEW ts, TaskTyped(ts), CorpusInvOf(ts), NEW tt, NEW u, ReopenStep(ts, tt, u)
    PROVE  \A n \in VersionNo : PlainMove(ts, tt, n)
  <1>1. ts.version[ts.current].lifecycle = "published" /\ ts.current # None
    BY RowsWith DEF ReopenStep, CanReopen, CorpusInvOf, CorpusPointerOf, VersionsIn
  <1>2. QED
    BY <1>1, NewNumber DEF ReopenStep, PlainMove, AddedDraft

LEMMA CrossCheckRows ==
    ASSUME NEW ts, TaskTyped(ts), CorpusInvOf(ts), NEW tt, NEW u, CrossCheckStep(ts, tt, u)
    PROVE  \A n \in VersionNo : PlainMove(ts, tt, n)
  BY NewNumber DEF CrossCheckStep, PlainMove, AddedDraft

LEMMA FreezeRows ==
    ASSUME NEW ts, NEW tt, NEW u \in User, NEW snap, NEW outcome \in Outcome,
           NEW needsReview, FreezeStep(ts, tt, u, snap, outcome, needsReview)
    PROVE  \A n \in VersionNo : PlainMove(ts, tt, n)
  <1>1. /\ ts.assignment.user = u /\ Assigned(ts) /\ ts.assignment.version = snap.version
        /\ ts.version[snap.version].lifecycle = "draft"
    BY NoUserAssumption DEF FreezeStep, CanFreeze, Assigned
  <1>2. QED
    BY <1>1 DEF FreezeStep, PlainMove, WrittenRow

LEMMA RefreshRows ==
    ASSUME NEW ts, TaskTyped(ts), WorkInvOf(ts), NEW tt, RefreshStep(ts, tt)
    PROVE  \A n \in VersionNo : PlainMove(ts, tt, n)
  <1>1. ts.version[ts.baseline].cut + 1 \in Nat
    BY RowsWith DEF VersionRow
  <1>2. \A n \in Drafts(ts) : ts.version[n].lifecycle = "draft"
    BY DEF Drafts, VersionsIn
  <1>3. QED
    BY <1>1, <1>2 DEF RefreshStep, PlainMove, WorkInvOf

LEMMA ReleaseRows ==
    ASSUME NEW ts, TaskTyped(ts), CorpusInvOf(ts), NEW tt, ReleaseStep(ts, tt)
    PROVE  \A n \in VersionNo : PlainMove(ts, tt, n)
  BY RowFacts, NewNumber DEF ReleaseStep, PlainMove, AddedDraft

LEMMA ReserveRows ==
    ASSUME NEW ts, NEW tt, ReserveStep(ts, tt)
    PROVE  \A n \in VersionNo : PlainMove(ts, tt, n)
  BY DEF ReserveStep, SameVersions, PlainMove

LEMMA RevokeRows ==
    ASSUME NEW ts, TaskTyped(ts), CorpusInvOf(ts), NEW tt, NEW author, NEW a \in ActionNo,
           NEW block, RevokeStep(ts, tt, author, a, block)
    PROVE  \A n \in VersionNo : PlainMove(ts, tt, n)
  BY RowFacts, NewNumber DEF RevokeStep, PlainMove, AddedDraft

LEMMA RestoreRows ==
    ASSUME NEW ts, NEW tt, NEW a, NEW author, NEW before, NEW after,
           RestoreStep(ts, tt, a, author, before, after)
    PROVE  \A n \in VersionNo : PlainMove(ts, tt, n)
  BY DEF RestoreStep, CanRestore, Untouched, PlainMove

LEMMA KeepRows ==
    ASSUME NEW ts, NEW tt, NEW k, KeepStep(ts, tt, k)
    PROVE  \A n \in VersionNo : PlainMove(ts, tt, n)
  BY DEF KeepStep, SameVersions, PlainMove

LEMMA SecondRows ==
    ASSUME NEW ts, NEW tt, NEW k, SecondStep(ts, tt, k)
    PROVE  \A n \in VersionNo : RowMove(ts, tt, n)
  BY DEF SecondStep, DecideStep, CanReplace, RowMove, PlainMove

LEMMA EditRows ==
    ASSUME NEW ts, TaskTyped(ts), CorpusInvOf(ts), NEW tt, NEW k \in RoundNo, NEW base,
           NEW outcome \in Outcome, EditStep(ts, tt, k, base, outcome)
    PROVE  \A n \in VersionNo : RowMove(ts, tt, n)
  <1>1. /\ base \in VersionNo /\ tt.versions = ts.versions + 1
        /\ ts.version[ts.current].lifecycle = "published"
    BY DEF EditStep, DecideStep, CanDecide, CanReplace, TaskTyped, OpenRounds, OpenState
  <1>2. QED
    BY <1>1, NewNumber DEF EditStep, RowMove, PlainMove

LEMMA CancelRows ==
    ASSUME NEW ts, TaskTyped(ts), NEW tt, NEW k, CancelStep(ts, tt, k)
    PROVE  \A n \in VersionNo : PlainMove(ts, tt, n)
  BY RowFacts DEF CancelStep, PlainMove

-----------------------------------------------------------------------------
(* What may happen to the rounds                                           *)

\* Nothing, but that open ones end without a verdict.
RoundsClosed(ts, tt) ==
    /\ tt.rounds = ts.rounds
    /\ \A k \in RoundNo :
         \/ tt.round[k] = ts.round[k]
         \/ /\ ts.round[k].state \in OpenState
            /\ \E s \in {"cancelled", "invalidated"} : tt.round[k] = RoundInState(ts.round[k], s)

PlainStep(ts, tt) ==
    (\A n \in VersionNo : PlainMove(ts, tt, n)) /\ RoundsClosed(ts, tt)

LEMMA ClaimPlain ==
    ASSUME NEW ts, NEW tt, NEW u, NEW d, ClaimStep(ts, tt, u, d)
    PROVE  PlainStep(ts, tt)
  BY ClaimRows DEF ClaimStep, SameRounds, PlainStep, RoundsClosed

LEMMA SavePlain ==
    ASSUME NEW ts, WorkInvOf(ts), NEW tt, NEW u \in User, SaveStep(ts, tt, u)
    PROVE  PlainStep(ts, tt)
  BY SaveRows DEF SaveStep, SameRounds, PlainStep, RoundsClosed

LEMMA CompletePlain ==
    ASSUME NEW ts, TaskTyped(ts), WorkInvOf(ts), NEW tt, NEW u \in User,
           NEW outcome \in Outcome, CompleteStep(ts, tt, u, outcome)
    PROVE  PlainStep(ts, tt)
  BY CompleteRows DEF CompleteStep, SameRounds, PlainStep, RoundsClosed

LEMMA AbandonPlain ==
    ASSUME NEW ts, TaskTyped(ts), NEW tt, AbandonStep(ts, tt)
    PROVE  PlainStep(ts, tt)
  BY AbandonRows DEF AbandonStep, InProgress, OpenState, PlainStep, RoundsClosed

LEMMA ReopenPlain ==
    ASSUME NEW ts, TaskTyped(ts), CorpusInvOf(ts), NEW tt, NEW u, ReopenStep(ts, tt, u)
    PROVE  PlainStep(ts, tt)
  BY ReopenRows DEF ReopenStep, SameRounds, PlainStep, RoundsClosed

LEMMA RefreshPlain ==
    ASSUME NEW ts, TaskTyped(ts), WorkInvOf(ts), NEW tt, RefreshStep(ts, tt)
    PROVE  PlainStep(ts, tt)
  BY RefreshRows DEF RefreshStep, SameRounds, PlainStep, RoundsClosed

LEMMA ReleasePlain ==
    ASSUME NEW ts, TaskTyped(ts), CorpusInvOf(ts), NEW tt, ReleaseStep(ts, tt)
    PROVE  PlainStep(ts, tt)
  BY ReleaseRows DEF ReleaseStep, CanReleaseDraft, InProgress, OpenState, PlainStep, RoundsClosed

LEMMA ReservePlain ==
    ASSUME NEW ts, NEW tt, ReserveStep(ts, tt)
    PROVE  PlainStep(ts, tt)
  BY ReserveRows DEF ReserveStep, SameRounds, PlainStep, RoundsClosed

LEMMA RevokePlain ==
    ASSUME NEW ts, TaskTyped(ts), CorpusInvOf(ts), NEW tt, NEW author, NEW a \in ActionNo,
           NEW block, RevokeStep(ts, tt, author, a, block)
    PROVE  PlainStep(ts, tt)
  BY RevokeRows DEF RevokeStep, OpenRounds, PlainStep, RoundsClosed

LEMMA RestorePlain ==
    ASSUME NEW ts, NEW tt, NEW a, NEW author, NEW before, NEW after,
           RestoreStep(ts, tt, a, author, before, after)
    PROVE  PlainStep(ts, tt)
  <1>1. \A n \in VersionNo : PlainMove(ts, tt, n)
    BY RestoreRows
  <1>2. QED
    BY <1>1 DEF RestoreStep, SameRounds, PlainStep, RoundsClosed

LEMMA CancelPlain ==
    ASSUME NEW ts, TaskTyped(ts), NEW tt, NEW k, CancelStep(ts, tt, k)
    PROVE  PlainStep(ts, tt)
  BY CancelRows DEF CancelStep, CanCancel, OpenState, PlainStep, RoundsClosed

-----------------------------------------------------------------------------
(* What a move leaves of a version                                         *)

Lasting == {"published", "superseded", "revoked", "cross_check_submitted"}

Final == {"published", "superseded", "revoked"}

\* HistoryIsImmutable, of one version.
HistoryRow(v, w) ==
    /\ v.lifecycle # w.lifecycle => <<v.lifecycle, w.lifecycle>> \in Moves
    /\ v.lifecycle \notin {"draft", "baseline"} => Content(v) = Content(w)

LEMMA SameContentIs ==
    ASSUME NEW v, NEW w, SameContent(w, v)
    PROVE  Content(v) = Content(w)
  BY DEF SameContent, Content

LEMMA WrittenRowIs ==
    ASSUME NEW ts, TaskTyped(ts), NEW n \in VersionNo, NEW w, WrittenRow(ts, n, w)
    PROVE  LET v == ts.version[n] IN
           /\ v.lifecycle = "draft"
           /\ w.lifecycle \in {"draft", "published", "cross_check_submitted"}
           /\ w.purpose = v.purpose /\ w.cut = v.cut /\ w.revokedBy = v.revokedBy
           /\ w.revision = v.revision + 1
           /\ w.modifiedBy = ts.assignment.user
           /\ w.submitter \in {v.submitter, ts.assignment.user}
           /\ w.lifecycle = "published" => v.purpose = "annotation"
  BY RowFacts, EditedRow, SubmittedRow DEF WrittenRow

LEMMA AddedDraftIs ==
    ASSUME NEW ts, NEW tt, NEW n, NEW w, AddedDraft(ts, tt, n, w)
    PROVE  /\ ts.version[n].lifecycle = "none" /\ w.lifecycle = "draft"
           /\ w.modifiedBy = NoUser /\ w.submitter = NoUser /\ w.revokedBy = None
           /\ \/ w.cut = ts.version[ts.baseline].cut
              \/ /\ w.cut = ts.version[ts.current].cut
                 /\ ts.current # None /\ ts.version[ts.current].lifecycle = "published"
  <1>1. /\ CleanRow(ts).lifecycle = "draft" /\ CleanRow(ts).modifiedBy = NoUser
        /\ CleanRow(ts).submitter = NoUser /\ CleanRow(ts).revokedBy = None
        /\ BlindDraft(ts).lifecycle = "draft" /\ BlindDraft(ts).modifiedBy = NoUser
        /\ BlindDraft(ts).submitter = NoUser /\ BlindDraft(ts).revokedBy = None
        /\ CorrectionRow(ts).lifecycle = "draft" /\ CorrectionRow(ts).modifiedBy = NoUser
        /\ CorrectionRow(ts).submitter = NoUser /\ CorrectionRow(ts).revokedBy = None
    BY NewRows
  <1>2. /\ CleanRow(ts).cut = ts.version[ts.baseline].cut
        /\ BlindDraft(ts).cut = ts.version[ts.baseline].cut
        /\ CorrectionRow(ts).cut = ts.version[ts.current].cut
    BY NewRows
  <1>3. QED
    BY <1>1, <1>2 DEF AddedDraft

LEMMA PlainKeeps ==
    ASSUME NEW ts, TaskTyped(ts), NEW tt, NEW n \in VersionNo, PlainMove(ts, tt, n)
    PROVE  LET v == ts.version[n]
               w == tt.version[n]
           IN  /\ v.lifecycle # "none" => HistoryRow(v, w) /\ w.purpose = v.purpose
               /\ v.lifecycle \in Lasting => w.lifecycle \in Lasting /\ SameContent(w, v)
               /\ w.lifecycle \in Final /\ w.purpose # "annotation" => v.lifecycle \in Final
               /\ v.lifecycle = "none" => w.lifecycle \in {"none", "draft"}
  <1> DEFINE v == ts.version[n]
             w == tt.version[n]
  <1>1. v \in VersionRow
    BY RowFacts
  <1> SUFFICES /\ v.lifecycle # "none" => HistoryRow(v, w) /\ w.purpose = v.purpose
               /\ v.lifecycle \in Lasting => w.lifecycle \in Lasting /\ SameContent(w, v)
               /\ w.lifecycle \in Final /\ w.purpose # "annotation" => v.lifecycle \in Final
               /\ v.lifecycle = "none" => w.lifecycle \in {"none", "draft"}
    OBVIOUS
  <1>2. CASE w = v
    BY <1>1, <1>2 DEF HistoryRow, SameContent, Lasting, Final
  <1>3. CASE v.lifecycle = "draft" /\ w = InState(v, "abandoned")
    BY <1>1, <1>3, InStateRow DEF HistoryRow, SameContent, Lasting, Final, Moves
  <1>4. CASE v.lifecycle = "published" /\ w = InState(v, "superseded")
    BY <1>1, <1>4, InStateRow, SameContentIs DEF HistoryRow, SameContent, Lasting, Final, Moves
  <1>5. CASE v.lifecycle = "published" /\ \E a \in ActionNo : w = RevokedRow(v, a)
    BY <1>1, <1>5, RevokedRowRow, SameContentIs
       DEF HistoryRow, SameContent, Lasting, Final, Moves
  <1>6. CASE v.lifecycle = "revoked" /\ w = Reinstated(v)
    BY <1>1, <1>6, ReinstatedRow, SameContentIs DEF HistoryRow, SameContent, Lasting, Final, Moves
  <1>7. CASE WrittenRow(ts, n, w)
    BY <1>1, <1>7, WrittenRowIs DEF HistoryRow, Lasting, Final, Moves
  <1>8. CASE /\ v.lifecycle \in {"draft", "baseline"}
             /\ \E c \in Nat, b \in {0, 1} : w = Recut(v, c, b)
    BY <1>1, <1>8, RecutRow DEF HistoryRow, Lasting, Final
  <1>9. CASE AddedDraft(ts, tt, n, w)
    BY <1>9, AddedDraftIs DEF Lasting, Final
  <1>10. QED
    BY <1>2, <1>3, <1>4, <1>5, <1>6, <1>7, <1>8, <1>9 DEF PlainMove

LEMMA MoveKeeps ==
    ASSUME NEW ts, TaskTyped(ts), NEW tt, NEW n \in VersionNo, RowMove(ts, tt, n)
    PROVE  LET v == ts.version[n]
               w == tt.version[n]
           IN  /\ v.lifecycle # "none" => HistoryRow(v, w) /\ w.purpose = v.purpose
               /\ v.lifecycle \in Lasting => w.lifecycle \in Lasting /\ SameContent(w, v)
  <1> DEFINE v == ts.version[n]
             w == tt.version[n]
  <1>1. v \in VersionRow
    BY RowFacts
  <1> SUFFICES /\ v.lifecycle # "none" => HistoryRow(v, w) /\ w.purpose = v.purpose
               /\ v.lifecycle \in Lasting => w.lifecycle \in Lasting /\ SameContent(w, v)
    OBVIOUS
  <1>2. CASE v.lifecycle = "cross_check_submitted" /\ w = InState(v, "published")
    BY <1>1, <1>2, InStateRow, SameContentIs DEF HistoryRow, SameContent, Lasting, Moves
  <1>3. CASE v.lifecycle = "none"
    BY <1>3 DEF Lasting
  <1>4. CASE PlainMove(ts, tt, n)
    BY <1>4, PlainKeeps
  <1>5. QED
    BY <1>2, <1>3, <1>4 DEF RowMove

-----------------------------------------------------------------------------
(* Evidence of cross-checks                                                *)

Judged == {"awaiting_review", "passed", "adjudicated"}

\* EvidenceMatches of one round, and what keeps it so: numbers are never
\* reused, and a round names two versions of which the first has been
\* published and, once there is a verdict, the second frozen.
RoundEvidence(ts, k) ==
    LET r == ts.round[k]
        first  == ts.version[r.original]
        second == ts.version[r.secondary]
    IN  /\ k > ts.rounds => r.state = "none"
        /\ r.state # "none" => /\ r.original \in VersionNo /\ r.secondary \in VersionNo
                               /\ first.lifecycle \in Lasting
        /\ r.state = "in_progress" => first.submitter = r.originalAnnotator
        /\ r.state = "awaiting_review" => second.purpose = "cross_check"
        /\ r.final # None => r.state = "adjudicated"
        /\ r.state \in Judged => /\ r.originalInput = first.revision
                                 /\ r.secondaryInput + 1 = second.revision
                                 /\ first.submitter = r.originalAnnotator
                                 /\ second.submitter = r.secondaryAnnotator
                                 /\ second.lifecycle \in Lasting

EvidenceInvOf(ts) ==
    (\A k \in RoundNo : RoundEvidence(ts, k)) /\ FinalIsDecidedIn(ts)

LEMMA EvidenceImplies ==
    ASSUME NEW ts, EvidenceInvOf(ts)
    PROVE  EvidenceMatchesIn(ts) /\ FinalIsDecidedIn(ts)
  BY DEF EvidenceInvOf, RoundEvidence, EvidenceMatchesIn, Judged, Lasting

\* What was frozen or published once stays, with its purpose.
LEMMA LastingKept ==
    ASSUME NEW ts, TaskTyped(ts), NEW tt, NEW n \in VersionNo, RowMove(ts, tt, n),
           ts.version[n].lifecycle \in Lasting
    PROVE  LET v == ts.version[n]
               w == tt.version[n]
           IN  /\ w.lifecycle \in Lasting /\ w.purpose = v.purpose
               /\ w.revision = v.revision /\ w.submitter = v.submitter
  <1>1. ts.version[n].lifecycle # "none"
    BY DEF Lasting
  <1>2. QED
    BY <1>1, MoveKeeps DEF SameContent

\* A round that a step leaves alone still says what it said ...
LEMMA SameRoundKept ==
    ASSUME NEW ts, TaskTyped(ts), NEW tt, \A n \in VersionNo : RowMove(ts, tt, n),
           NEW k \in RoundNo, RoundEvidence(ts, k), tt.round[k] = ts.round[k],
           k > tt.rounds => k > ts.rounds
    PROVE  RoundEvidence(tt, k)
  <1>1. ASSUME NEW n \in VersionNo, ts.version[n].lifecycle \in Lasting
        PROVE  LET v == ts.version[n]
                   w == tt.version[n]
               IN  /\ w.lifecycle \in Lasting /\ w.purpose = v.purpose
                   /\ w.revision = v.revision /\ w.submitter = v.submitter
    BY <1>1, LastingKept
  <1>2. \A s \in Judged \cup {"in_progress"} : s # "none"
    BY DEF Judged
  <1>3. "awaiting_review" \in Judged
    BY DEF Judged
  <1>4. QED
    BY <1>1, <1>2, <1>3 DEF RoundEvidence

\* ... and one that ends without a verdict says nothing.
LEMMA ClosedRoundKept ==
    ASSUME NEW ts, TaskTyped(ts), NEW tt, \A n \in VersionNo : RowMove(ts, tt, n),
           NEW k \in RoundNo, RoundEvidence(ts, k), ts.round[k].state \in OpenState,
           NEW s \in {"cancelled", "invalidated"},
           tt.round[k] = RoundInState(ts.round[k], s), tt.rounds = ts.rounds
    PROVE  RoundEvidence(tt, k)
  <1> DEFINE q == ts.round[k]
             r == tt.round[k]
  <1>1. /\ r.state = s /\ r.original = q.original /\ r.secondary = q.secondary
        /\ r.final = q.final
    BY RoundRows, RowsWith DEF SamePair, SameDecision
  <1>2. /\ q.original \in VersionNo /\ q.secondary \in VersionNo
        /\ ts.version[q.original].lifecycle \in Lasting /\ k <= ts.rounds /\ q.final = None
    BY RowsWith DEF RoundEvidence, OpenState, RoundNo
  <1>3. tt.version[q.original].lifecycle \in Lasting
    BY <1>2, LastingKept
  <1>4. QED
    BY <1>1, <1>2, <1>3, RowsWith DEF RoundEvidence, Judged, RoundNo

\* Nothing that is not plain annotation is published by a plain step.
LEMMA PlainKeepsEvidence ==
    ASSUME NEW ts, TaskTyped(ts), EvidenceInvOf(ts), NEW tt, PlainStep(ts, tt)
    PROVE  EvidenceInvOf(tt)
  <1>1. \A n \in VersionNo : RowMove(ts, tt, n)
    BY DEF PlainStep, RowMove
  <1>2. ASSUME NEW k \in RoundNo
        PROVE  RoundEvidence(tt, k)
    <2>1. CASE tt.round[k] = ts.round[k]
      BY <1>1, <2>1, SameRoundKept DEF PlainStep, RoundsClosed, EvidenceInvOf
    <2>2. CASE /\ ts.round[k].state \in OpenState
               /\ \E s \in {"cancelled", "invalidated"} :
                    tt.round[k] = RoundInState(ts.round[k], s)
      BY <1>1, <2>2, ClosedRoundKept DEF PlainStep, RoundsClosed, EvidenceInvOf
    <2>3. QED
      BY <2>1, <2>2 DEF PlainStep, RoundsClosed
  <1>3. ASSUME NEW n \in VersionNo,
               tt.version[n].purpose \in {"cross_check", "adjudication"},
               tt.version[n].lifecycle \in {"published", "superseded", "revoked"}
        PROVE  \E k \in RoundNo :
                 /\ tt.round[k].state = "adjudicated" /\ tt.round[k].final = n
                 /\ tt.round[k].decision =
                      IF tt.version[n].purpose = "cross_check" THEN "secondary" ELSE "edited"
    <2>1. ts.version[n].lifecycle \in Final /\ tt.version[n].purpose = ts.version[n].purpose
      BY <1>3, PlainKeeps DEF PlainStep, Final
    <2>2. PICK k \in RoundNo :
            /\ ts.round[k].state = "adjudicated" /\ ts.round[k].final = n
            /\ ts.round[k].decision =
                 IF ts.version[n].purpose = "cross_check" THEN "secondary" ELSE "edited"
      BY <1>3, <2>1 DEF EvidenceInvOf, FinalIsDecidedIn, Final
    <2>3. tt.round[k] = ts.round[k]
      BY <2>2 DEF PlainStep, RoundsClosed, OpenState
    <2>4. QED
      BY <2>1, <2>2, <2>3
  <1>4. QED
    BY <1>2, <1>3 DEF EvidenceInvOf, FinalIsDecidedIn

LEMMA CrossCheckKeepsEvidence ==
    ASSUME NEW ts, TaskTyped(ts), CorpusInvOf(ts), EvidenceInvOf(ts), NEW tt,
           NEW u \in User, CrossCheckStep(ts, tt, u)
    PROVE  EvidenceInvOf(tt)
  <1> DEFINE j == ts.rounds + 1
  <1>1. (\A n \in VersionNo : PlainMove(ts, tt, n)) /\ \A n \in VersionNo : RowMove(ts, tt, n)
    BY CrossCheckRows DEF RowMove
  <1>2. /\ ts.current \in VersionNo /\ ts.version[ts.current].lifecycle = "published"
        /\ ts.versions + 1 \in VersionNo /\ tt.rounds = j /\ tt.round[j] = StartedRound(ts, u)
        /\ \A k \in RoundNo : k # j => tt.round[k] = ts.round[k]
        /\ j \in RoundNo
    BY NextVersionNo, RowsWith, BoundsAssumption
       DEF CrossCheckStep, CanCrossCheck, RoundNo, TaskTyped, TaskRow
  <1>3. /\ tt.version[ts.current].lifecycle \in Lasting
        /\ tt.version[ts.current].submitter = ts.version[ts.current].submitter
    BY <1>1, <1>2, LastingKept DEF Lasting
  <1>4. RoundEvidence(tt, j)
    BY <1>2, <1>3, StartedRoundRow, RowsWith DEF RoundEvidence, Judged
  <1>5. ASSUME NEW k \in RoundNo, k # j
        PROVE  RoundEvidence(tt, k)
    BY <1>1, <1>2, <1>5, SameRoundKept, RowsWith DEF EvidenceInvOf, RoundNo
  <1>6. ASSUME NEW n \in VersionNo,
               tt.version[n].purpose \in {"cross_check", "adjudication"},
               tt.version[n].lifecycle \in {"published", "superseded", "revoked"}
        PROVE  \E k \in RoundNo :
                 /\ tt.round[k].state = "adjudicated" /\ tt.round[k].final = n
                 /\ tt.round[k].decision =
                      IF tt.version[n].purpose = "cross_check" THEN "secondary" ELSE "edited"
    <2>1. ts.version[n].lifecycle \in Final /\ tt.version[n].purpose = ts.version[n].purpose
      BY <1>1, <1>6, PlainKeeps DEF Final
    <2>2. PICK k \in RoundNo :
            /\ ts.round[k].state = "adjudicated" /\ ts.round[k].final = n
            /\ ts.round[k].decision =
                 IF ts.version[n].purpose = "cross_check" THEN "secondary" ELSE "edited"
      BY <1>6, <2>1 DEF EvidenceInvOf, FinalIsDecidedIn, Final
    <2>3. k # j
      BY <1>2, <2>2, RowsWith DEF EvidenceInvOf, RoundEvidence
    <2>4. QED
      BY <1>2, <2>1, <2>2, <2>3
  <1>7. QED
    BY <1>4, <1>5, <1>6 DEF EvidenceInvOf, FinalIsDecidedIn

LEMMA FreezeKeepsEvidence ==
    ASSUME NEW ts, TaskTyped(ts), WorkInvOf(ts), EvidenceInvOf(ts), NEW tt,
           NEW u \in User, NEW snap, NEW outcome \in Outcome, NEW needsReview,
           FreezeStep(ts, tt, u, snap, outcome, needsReview)
    PROVE  EvidenceInvOf(tt)
  <1> DEFINE j == snap.round
             w == snap.version
             q == ts.round[j]
             r == tt.round[j]
  <1>1. (\A n \in VersionNo : PlainMove(ts, tt, n)) /\ \A n \in VersionNo : RowMove(ts, tt, n)
    BY FreezeRows DEF RowMove
  <1>2. /\ ts.assignment.user = u /\ ts.assignment.version = w
        /\ j \in RoundNo /\ q.state = "in_progress"
        /\ q.original = snap.original /\ q.secondary = w
        /\ ts.version[w].purpose = "cross_check"
        /\ ts.version[snap.original].revision = snap.originalInput
        /\ ts.version[w].revision = snap.secondaryInput
    BY DEF FreezeStep, CanFreeze, InputsUnchanged, InProgress
  <1>3. /\ q.secondaryAnnotator = u /\ q.original \in VersionNo /\ w \in VersionNo
        /\ ts.version[q.original].lifecycle \in Lasting
        /\ ts.version[q.original].submitter = q.originalAnnotator
        /\ q.final = None /\ j <= ts.rounds
    BY <1>2, RowsWith DEF WorkInvOf, RoundAgreesIn, EvidenceInvOf, RoundEvidence, RoundNo
  <1>4. /\ r.state \in {"awaiting_review", "passed"}
        /\ r.originalInput = snap.originalInput /\ r.secondaryInput = snap.secondaryInput
        /\ SamePair(r, q) /\ SameDecision(r, q)
    <2>1. r = WithVerdict(q, snap, needsReview)
      BY <1>2 DEF FreezeStep
    <2>2. QED
      BY <1>2, <2>1, RoundRows, RowsWith
  <1>5. /\ tt.version[w].lifecycle = "cross_check_submitted"
        /\ tt.version[w].purpose = "cross_check" /\ tt.version[w].submitter = u
        /\ tt.version[w].revision = snap.secondaryInput + 1
    <2>1. tt.version[w] = Submitted(ts.version[w], u, "cross_check_submitted", outcome)
      BY <1>3 DEF FreezeStep
    <2>2. QED
      BY <1>2, <1>3, <2>1, SubmittedRow, RowsWith
  <1>6. /\ tt.version[q.original].lifecycle \in Lasting
        /\ tt.version[q.original].revision = snap.originalInput
        /\ tt.version[q.original].submitter = q.originalAnnotator
    BY <1>1, <1>2, <1>3, LastingKept
  <1>7. tt.rounds = ts.rounds /\ \A k \in RoundNo : k # j => tt.round[k] = ts.round[k]
    BY DEF FreezeStep
  <1>8. "cross_check_submitted" \in Lasting
    BY DEF Lasting
  <1> HIDE DEF j, w
  <1>9. RoundEvidence(tt, j)
    <2>1. /\ r.original = q.original /\ r.secondary = w /\ r.final = None
          /\ r.originalAnnotator = q.originalAnnotator /\ r.secondaryAnnotator = u
      BY <1>2, <1>3, <1>4 DEF SamePair, SameDecision
    <2>2. ~ (j > tt.rounds)
      BY <1>2, <1>3, <1>7, RowsWith DEF RoundNo
    <2> HIDE DEF q, r
    <2>3. QED
      BY <1>3, <1>4, <1>5, <1>6, <1>8, <2>1, <2>2 DEF RoundEvidence, r
  <1>10. ASSUME NEW k \in RoundNo, k # j
         PROVE  RoundEvidence(tt, k)
    BY <1>1, <1>7, <1>10, SameRoundKept DEF EvidenceInvOf
  <1>11. ASSUME NEW n \in VersionNo,
                tt.version[n].purpose \in {"cross_check", "adjudication"},
                tt.version[n].lifecycle \in {"published", "superseded", "revoked"}
         PROVE  \E k \in RoundNo :
                  /\ tt.round[k].state = "adjudicated" /\ tt.round[k].final = n
                  /\ tt.round[k].decision =
                       IF tt.version[n].purpose = "cross_check" THEN "secondary" ELSE "edited"
    <2>1. ts.version[n].lifecycle \in Final /\ tt.version[n].purpose = ts.version[n].purpose
      BY <1>1, <1>11, PlainKeeps DEF Final
    <2>2. PICK k \in RoundNo :
            /\ ts.round[k].state = "adjudicated" /\ ts.round[k].final = n
            /\ ts.round[k].decision =
                 IF ts.version[n].purpose = "cross_check" THEN "secondary" ELSE "edited"
      BY <1>11, <2>1 DEF EvidenceInvOf, FinalIsDecidedIn, Final
    <2>3. k # j
      BY <1>2, <2>2
    <2>4. QED
      BY <1>7, <2>1, <2>2, <2>3
  <1>12. QED
    BY <1>9, <1>10, <1>11 DEF EvidenceInvOf, FinalIsDecidedIn

\* A decision closes a round that had its verdict; what it publishes it names.
LEMMA DecideKeepsEvidence ==
    ASSUME NEW ts, TaskTyped(ts), EvidenceInvOf(ts), NEW tt, NEW j \in RoundNo,
           NEW d, NEW f, DecideStep(ts, tt, j, d, f), \A n \in VersionNo : RowMove(ts, tt, n),
           \A n \in VersionNo :
              tt.version[n].lifecycle \in Final /\ tt.version[n].purpose # "annotation" =>
                \/ /\ ts.version[n].lifecycle \in Final
                   /\ tt.version[n].purpose = ts.version[n].purpose
                \/ /\ n = f
                   /\ d = IF tt.version[n].purpose = "cross_check" THEN "secondary" ELSE "edited"
    PROVE  EvidenceInvOf(tt)
  <1> DEFINE q == ts.round[j]
             r == tt.round[j]
  <1>1. /\ r = DecidedRound(q, d, f) /\ q.state = "awaiting_review" /\ tt.rounds = ts.rounds
        /\ \A k \in RoundNo : k # j => tt.round[k] = ts.round[k]
    BY DEF DecideStep, CanDecide
  <1>2. /\ r.state = "adjudicated" /\ r.decision = d /\ r.final = f
        /\ SamePair(r, q) /\ SameInputs(r, q)
    BY <1>1, RoundRows, RowsWith
  <1>3. /\ q.original \in VersionNo /\ q.secondary \in VersionNo /\ ~ (j > ts.rounds)
        /\ ts.version[q.original].lifecycle \in Lasting
        /\ ts.version[q.secondary].lifecycle \in Lasting
        /\ q.originalInput = ts.version[q.original].revision
        /\ q.secondaryInput + 1 = ts.version[q.secondary].revision
        /\ ts.version[q.original].submitter = q.originalAnnotator
        /\ ts.version[q.secondary].submitter = q.secondaryAnnotator
    BY <1>1 DEF EvidenceInvOf, RoundEvidence, Judged
  <1>4. RoundEvidence(tt, j)
    <2>1. /\ tt.version[q.original].lifecycle \in Lasting
          /\ tt.version[q.original].revision = ts.version[q.original].revision
          /\ tt.version[q.original].submitter = ts.version[q.original].submitter
      BY <1>3, LastingKept
    <2>2. /\ tt.version[q.secondary].lifecycle \in Lasting
          /\ tt.version[q.secondary].revision = ts.version[q.secondary].revision
          /\ tt.version[q.secondary].submitter = ts.version[q.secondary].submitter
      BY <1>3, LastingKept
    <2> HIDE DEF q, r
    <2>3. QED
      BY <1>1, <1>2, <1>3, <2>1, <2>2 DEF RoundEvidence, SamePair, SameInputs, r
  <1>5. ASSUME NEW k \in RoundNo, k # j
        PROVE  RoundEvidence(tt, k)
    BY <1>1, <1>5, SameRoundKept DEF EvidenceInvOf
  <1>6. ASSUME NEW n \in VersionNo,
               tt.version[n].purpose \in {"cross_check", "adjudication"},
               tt.version[n].lifecycle \in {"published", "superseded", "revoked"}
        PROVE  \E k \in RoundNo :
                 /\ tt.round[k].state = "adjudicated" /\ tt.round[k].final = n
                 /\ tt.round[k].decision =
                      IF tt.version[n].purpose = "cross_check" THEN "secondary" ELSE "edited"
    <2>1. CASE /\ ts.version[n].lifecycle \in Final
               /\ tt.version[n].purpose = ts.version[n].purpose
      <3>1. PICK k \in RoundNo :
              /\ ts.round[k].state = "adjudicated" /\ ts.round[k].final = n
              /\ ts.round[k].decision =
                   IF ts.version[n].purpose = "cross_check" THEN "secondary" ELSE "edited"
        BY <1>6, <2>1 DEF EvidenceInvOf, FinalIsDecidedIn, Final
      <3>2. k # j
        BY <1>1, <3>1
      <3>3. QED
        BY <1>1, <2>1, <3>1, <3>2
    <2>2. CASE /\ n = f
               /\ d = IF tt.version[n].purpose = "cross_check" THEN "secondary" ELSE "edited"
      BY <1>2, <2>2
    <2>3. QED
      BY <1>6, <2>1, <2>2 DEF Final
  <1>7. QED
    BY <1>4, <1>5, <1>6 DEF EvidenceInvOf, FinalIsDecidedIn

LEMMA KeepKeepsEvidence ==
    ASSUME NEW ts, TaskTyped(ts), EvidenceInvOf(ts), NEW tt, NEW j \in RoundNo,
           KeepStep(ts, tt, j)
    PROVE  EvidenceInvOf(tt)
  <1>1. \A n \in VersionNo : RowMove(ts, tt, n)
    BY KeepRows DEF RowMove
  <1>2. \A n \in VersionNo : tt.version[n] = ts.version[n]
    BY DEF KeepStep, SameVersions
  <1>3. QED
    BY <1>1, <1>2, DecideKeepsEvidence DEF KeepStep

LEMMA SecondKeepsEvidence ==
    ASSUME NEW ts, TaskTyped(ts), EvidenceInvOf(ts), NEW tt, NEW j \in RoundNo,
           SecondStep(ts, tt, j)
    PROVE  EvidenceInvOf(tt)
  <1> DEFINE s == ts.round[j].secondary
  <1>1. /\ DecideStep(ts, tt, j, "secondary", s) /\ ts.round[j].state = "awaiting_review"
        /\ ts.version[ts.current].lifecycle = "published"
    BY DEF SecondStep, DecideStep, CanDecide, CanReplace
  <1>2. ts.version[s].purpose = "cross_check"
    BY <1>1 DEF EvidenceInvOf, RoundEvidence
  <1>3. ASSUME NEW n \in VersionNo
        PROVE  \/ /\ ts.version[n].lifecycle \in Final \/ tt.version[n].lifecycle \notin Final
                  /\ tt.version[n].purpose = ts.version[n].purpose
               \/ n = s /\ tt.version[n].purpose = "cross_check"
    <2>1. CASE n = s
      BY <1>2, <2>1, InStateRow, RowsWith DEF SecondStep, SameContent
    <2>2. CASE n # s /\ n = ts.current
      BY <1>1, <2>2, InStateRow, RowsWith DEF SecondStep, SameContent, Final
    <2>3. CASE n # s /\ n # ts.current
      BY <2>3 DEF SecondStep
    <2>4. QED
      BY <2>1, <2>2, <2>3
  <1>4. \A n \in VersionNo : RowMove(ts, tt, n)
    BY SecondRows
  <1>5. QED
    BY <1>1, <1>3, <1>4, DecideKeepsEvidence

LEMMA EditKeepsEvidence ==
    ASSUME NEW ts, TaskTyped(ts), CorpusInvOf(ts), EvidenceInvOf(ts), NEW tt, NEW j \in RoundNo,
           NEW base, NEW outcome \in Outcome, EditStep(ts, tt, j, base, outcome)
    PROVE  EvidenceInvOf(tt)
  <1> DEFINE e == ts.versions + 1
  <1>1. /\ DecideStep(ts, tt, j, "edited", e) /\ ts.version[ts.current].lifecycle = "published"
    BY DEF EditStep, DecideStep, CanDecide, CanReplace
  <1>2. AdminEdit(ts, base, outcome).purpose = "adjudication"
    BY NewRows
  <1>3. ASSUME NEW n \in VersionNo
        PROVE  \/ /\ ts.version[n].lifecycle \in Final \/ tt.version[n].lifecycle \notin Final
                  /\ tt.version[n].purpose = ts.version[n].purpose
               \/ n = e /\ tt.version[n].purpose = "adjudication"
    <2>1. CASE n = e
      BY <1>2, <2>1 DEF EditStep
    <2>2. CASE n # e /\ n = ts.current
      BY <1>1, <2>2, InStateRow, RowsWith DEF EditStep, SameContent, Final
    <2>3. CASE n # e /\ n # ts.current
      BY <2>3 DEF EditStep
    <2>4. QED
      BY <2>1, <2>2, <2>3
  <1>4. \A n \in VersionNo : RowMove(ts, tt, n)
    BY EditRows
  <1>5. QED
    BY <1>1, <1>3, <1>4, DecideKeepsEvidence

-----------------------------------------------------------------------------
(* The evidence, in the store                                              *)

LEMMA QuietKeepsEvidence ==
    ASSUME NEW t \in Task, NEW ts, TaskTyped(ts), CorpusInvOf(ts), WorkInvOf(ts),
           EvidenceInvOf(ts), NEW tt, QuietMove(t, ts, tt), action \in [ActionNo -> ActionRow]
    PROVE  EvidenceInvOf(tt)
  <1>1. ASSUME NEW u \in User, AnnotatorMove(ts, tt, u)
        PROVE  EvidenceInvOf(tt)
    <2>1. CASE \/ \E d \in VersionNo : ClaimStep(ts, tt, u, d)
               \/ ReopenStep(ts, tt, u) \/ SaveStep(ts, tt, u)
               \/ \E outcome \in Outcome : CompleteStep(ts, tt, u, outcome)
      BY <2>1, ClaimPlain, ReopenPlain, SavePlain, CompletePlain, PlainKeepsEvidence
    <2>2. CASE CrossCheckStep(ts, tt, u)
      BY <2>2, CrossCheckKeepsEvidence
    <2>3. CASE \E snap \in SubmissionRow :
                 FreezeStep(ts, tt, u, snap, snap.outcome, snap.needsReview)
      BY <2>3, FreezeKeepsEvidence DEF SubmissionRow
    <2>4. QED
      BY <1>1, <2>1, <2>2, <2>3 DEF AnnotatorMove
  <1>2. ASSUME NEW a \in ActionNo, RestoreMove(t, ts, tt, a)
        PROVE  EvidenceInvOf(tt)
    BY <1>2, RestorePlain, PlainKeepsEvidence DEF RestoreMove
  <1>3. ASSUME NEW k \in RoundNo, DecisionMove(ts, tt, k)
        PROVE  EvidenceInvOf(tt)
    BY <1>3, KeepKeepsEvidence, SecondKeepsEvidence, EditKeepsEvidence DEF DecisionMove
  <1>4. ASSUME \/ AbandonStep(ts, tt) \/ RefreshStep(ts, tt) \/ ReleaseStep(ts, tt)
               \/ \E k \in RoundNo : CancelStep(ts, tt, k)
        PROVE  EvidenceInvOf(tt)
    BY <1>4, AbandonPlain, RefreshPlain, ReleasePlain, CancelPlain, PlainKeepsEvidence
  <1>5. QED
    BY <1>1, <1>2, <1>3, <1>4 DEF QuietMove

LEMMA OffboardKeepsEvidence ==
    ASSUME NEW ts, TaskTyped(ts), CorpusInvOf(ts), EvidenceInvOf(ts), NEW tt, NEW u,
           NEW a \in ActionNo, OffboardStep(ts, tt, u, a)
    PROVE  EvidenceInvOf(tt)
  <1>1. PICK free \in TaskRow :
          /\ TaskTyped(free) /\ CorpusInvOf(free)
          /\ ReleaseStep(ts, free) \/ ReserveStep(ts, free)
          /\ IF PublishedBy(free, u) THEN RevokeStep(free, tt, u, a, TRUE) ELSE tt = free
    BY DEF OffboardStep
  <1>2. EvidenceInvOf(free)
    BY <1>1, ReleasePlain, ReservePlain, PlainKeepsEvidence
  <1>3. QED
    BY <1>1, <1>2, RevokePlain, PlainKeepsEvidence

LEMMA MovedKeepsEvidence ==
    ASSUME WorkInv, NEW t \in Task, Moved(t), EvidenceInvOf(task[t])
    PROVE  EvidenceInvOf(task'[t])
  <1>1. /\ TaskTyped(task[t]) /\ CorpusInvOf(task[t]) /\ WorkInvOf(task[t])
        /\ action \in [ActionNo -> ActionRow]
    BY DEF WorkInv, CorpusInv, TypeOK
  <1>2. CASE QuietMove(t, task[t], task'[t])
    BY <1>1, <1>2, QuietKeepsEvidence
  <1>3. CASE \E author \in User \cup {NoUser}, block \in BOOLEAN :
               /\ RecordedFor(t, author)
               /\ \/ task'[t] = task[t]
                  \/ RevokeStep(task[t], task'[t], author, actions + 1, block)
    BY <1>1, <1>3, RevokePlain, PlainKeepsEvidence DEF RecordedFor
  <1>4. CASE \E u \in User :
               RecordedFor(t, u) /\ OffboardStep(task[t], task'[t], u, actions + 1)
    BY <1>1, <1>4, OffboardKeepsEvidence DEF RecordedFor
  <1>5. QED
    BY <1>2, <1>3, <1>4 DEF Moved

LEMMA FreshEvidence ==
    ASSUME NEW ts, FreshTask(ts)
    PROVE  EvidenceInvOf(ts)
  <1>1. PICK w \in VersionNo : FreshVersions(ts, w) /\ FreshRest(ts)
    BY DEF FreshTask
  <1>2. ASSUME NEW k \in RoundNo
        PROVE  RoundEvidence(ts, k)
    <2>1. ts.round[k].state = "none" /\ ts.round[k].final = None
      BY <1>1 DEF FreshRest, NoRoundRow
    <2>2. QED
      BY <2>1 DEF RoundEvidence, Judged
  <1>3. \A n \in VersionNo : ts.version[n].purpose = "annotation"
    BY <1>1 DEF FreshVersions
  <1>4. QED
    BY <1>2, <1>3 DEF EvidenceInvOf, FinalIsDecidedIn

EvidenceInv == WorkInv /\ \A t \in Task : EvidenceInvOf(task[t])

LEMMA InitFresh ==
    ASSUME Init
    PROVE  \A t \in Task : FreshTask(task[t])
  BY StartingTasksFresh DEF Init

\* What the rounds of every task say is true of its versions.
THEOREM EvidenceInvHolds == Spec => []EvidenceInv
  <1>1. Init => \A t \in Task : EvidenceInvOf(task[t])
    BY InitFresh, FreshEvidence
  <1>2. /\ WorkInv /\ (\A t \in Task : EvidenceInvOf(task[t])) /\ [Next]_vars
        => (\A t \in Task : EvidenceInvOf(task[t]))'
    BY TaskMoves, MovedKeepsEvidence
  <1>3. QED
    BY <1>1, <1>2, WorkInvHolds, PTL DEF Spec, EvidenceInv

\* A stored verdict is about the two texts that were stored (EvidenceMatches).
THEOREM EvidenceMatchesHolds == Spec => []EvidenceMatches
  <1>1. EvidenceInv => EvidenceMatches
    BY EvidenceImplies DEF EvidenceInv, EvidenceMatches
  <1>2. QED
    BY <1>1, EvidenceInvHolds, PTL

\* A second transcription or an administrator's edit enters the corpus by a
\* decision that says so (FinalIsDecided).
THEOREM FinalIsDecidedHolds == Spec => []FinalIsDecided
  <1>1. EvidenceInv => FinalIsDecided
    BY EvidenceImplies DEF EvidenceInv, FinalIsDecided
  <1>2. QED
    BY <1>1, EvidenceInvHolds, PTL

-----------------------------------------------------------------------------
(* History                                                                 *)

LEMMA QuietRows ==
    ASSUME NEW t \in Task, NEW ts, TaskTyped(ts), CorpusInvOf(ts), WorkInvOf(ts), NEW tt,
           QuietMove(t, ts, tt)
    PROVE  \A n \in VersionNo : RowMove(ts, tt, n)
  <1>1. ASSUME NEW u \in User, AnnotatorMove(ts, tt, u)
        PROVE  \A n \in VersionNo : PlainMove(ts, tt, n)
    BY <1>1, ClaimRows, CrossCheckRows, ReopenRows, SaveRows, CompleteRows, FreezeRows
       DEF AnnotatorMove, SubmissionRow
  <1>2. ASSUME NEW a \in ActionNo, RestoreMove(t, ts, tt, a)
        PROVE  \A n \in VersionNo : PlainMove(ts, tt, n)
    BY <1>2, RestoreRows DEF RestoreMove
  <1>3. ASSUME NEW k \in RoundNo, DecisionMove(ts, tt, k)
        PROVE  \A n \in VersionNo : RowMove(ts, tt, n)
    BY <1>3, KeepRows, SecondRows, EditRows DEF DecisionMove, RowMove
  <1>4. ASSUME \/ tt = ts \/ AbandonStep(ts, tt) \/ RefreshStep(ts, tt) \/ ReleaseStep(ts, tt)
               \/ \E k \in RoundNo : CancelStep(ts, tt, k)
        PROVE  \A n \in VersionNo : PlainMove(ts, tt, n)
    <2>1. CASE tt = ts
      BY <2>1 DEF PlainMove
    <2>2. QED
      BY <1>4, <2>1, AbandonRows, RefreshRows, ReleaseRows, CancelRows
  <1>5. QED
    BY <1>1, <1>2, <1>3, <1>4 DEF QuietMove, RowMove

LEMMA MoveIsHistory ==
    ASSUME NEW ts, TaskTyped(ts), NEW tt, \A n \in VersionNo : RowMove(ts, tt, n)
    PROVE  \A n \in VersionNo :
             ts.version[n].lifecycle # "none" => HistoryRow(ts.version[n], tt.version[n])
  BY MoveKeeps

\* Letting go of a task and revoking it never abandons and revokes one version.
LEMMA OffboardIsHistory ==
    ASSUME NEW ts, TaskTyped(ts), CorpusInvOf(ts), NEW tt, NEW u, NEW a \in ActionNo,
           OffboardStep(ts, tt, u, a)
    PROVE  \A n \in VersionNo :
             ts.version[n].lifecycle # "none" => HistoryRow(ts.version[n], tt.version[n])
  <1>1. PICK free \in TaskRow :
          /\ TaskTyped(free) /\ CorpusInvOf(free)
          /\ ReleaseStep(ts, free) \/ ReserveStep(ts, free)
          /\ IF PublishedBy(free, u) THEN RevokeStep(free, tt, u, a, TRUE) ELSE tt = free
    BY DEF OffboardStep
  <1> SUFFICES ASSUME NEW n \in VersionNo, ts.version[n].lifecycle # "none"
               PROVE  HistoryRow(ts.version[n], tt.version[n])
    OBVIOUS
  <1> DEFINE v == ts.version[n]
             x == free.version[n]
             w == tt.version[n]
  <1>2. v \in VersionRow /\ x \in VersionRow
    BY <1>1, RowsWith
  <1>3. x = v \/ (v.lifecycle = "draft" /\ x.lifecycle = "abandoned")
    <2>1. CASE ReserveStep(ts, free)
      BY <2>1 DEF ReserveStep, SameVersions
    <2>2. CASE ReleaseStep(ts, free)
      <3>1. x = AbandonIfDraft(v) \/ (n = ts.versions + 1 /\ RoomForVersion(ts))
        BY <2>2 DEF ReleaseStep
      <3>2. x = AbandonIfDraft(v)
        BY <3>1, NewNumber
      <3>3. QED
        BY <1>2, <3>2, AbandonIfDraftRow
    <2>3. QED
      BY <1>1, <2>1, <2>2
  <1>4. CASE tt = free
    BY <1>2, <1>3, <1>4 DEF HistoryRow, Moves
  <1>5. CASE RevokeStep(free, tt, u, a, TRUE)
    <2>1. CASE x = v
      <3>1. PlainMove(free, tt, n)
        BY <1>1, <1>5, RevokeRows
      <3>2. QED
        BY <1>1, <2>1, <3>1, PlainKeeps
    <2>2. CASE v.lifecycle = "draft" /\ x.lifecycle = "abandoned"
      <3>1. n # free.current /\ n # free.versions + 1
        BY <1>1, <1>5, <2>2, NewNumber DEF RevokeStep
      <3>2. w = AbandonIfDraft(x)
        BY <1>5, <3>1 DEF RevokeStep
      <3>3. w = x
        BY <1>2, <2>2, <3>2, AbandonIfDraftRow
      <3>4. QED
        BY <2>2, <3>3 DEF HistoryRow, Moves
    <2>3. QED
      BY <1>3, <2>1, <2>2
  <1>6. QED
    BY <1>1, <1>4, <1>5

LEMMA MovedIsHistory ==
    ASSUME WorkInv, NEW t \in Task, Moved(t)
    PROVE  \A n \in VersionNo :
             task[t].version[n].lifecycle # "none"
               => HistoryRow(task[t].version[n], task'[t].version[n])
  <1>1. TaskTyped(task[t]) /\ CorpusInvOf(task[t]) /\ WorkInvOf(task[t])
    BY DEF WorkInv, CorpusInv, TypeOK
  <1>2. CASE QuietMove(t, task[t], task'[t])
    BY <1>1, <1>2, QuietRows, MoveIsHistory
  <1>3. CASE task'[t] = task[t]
    BY <1>3 DEF HistoryRow
  <1>4. CASE \E author, block :
               /\ RecordedFor(t, author)
               /\ RevokeStep(task[t], task'[t], author, actions + 1, block)
    <2>1. \A n \in VersionNo : PlainMove(task[t], task'[t], n)
      BY <1>1, <1>4, RevokeRows DEF RecordedFor
    <2>2. QED
      BY <1>1, <2>1, MoveIsHistory DEF RowMove
  <1>5. CASE \E u \in User :
               RecordedFor(t, u) /\ OffboardStep(task[t], task'[t], u, actions + 1)
    BY <1>1, <1>5, OffboardIsHistory DEF RecordedFor
  <1>6. QED
    BY <1>2, <1>3, <1>4, <1>5 DEF Moved

\* A version that left the draft state keeps its content and author for ever
\* (HistoryIsImmutable).
THEOREM HistoryIsImmutableHolds == Spec => HistoryIsImmutable
  <1>1. ASSUME WorkInv, [Next]_vars
        PROVE  \A t \in Task, n \in VersionNo :
                 LET v == task[t].version[n]
                     w == task'[t].version[n]
                 IN  v.lifecycle # "none" =>
                       /\ v.lifecycle # w.lifecycle =>
                            <<v.lifecycle, w.lifecycle>> \in Moves
                       /\ v.lifecycle \notin {"draft", "baseline"} =>
                            Content(v) = Content(w)
    BY <1>1, TaskMoves, MovedIsHistory DEF HistoryRow
  <1>2. QED
    BY <1>1, WorkInvHolds, PTL DEF Spec, HistoryIsImmutable

-----------------------------------------------------------------------------
(* Work left in the pool                                                   *)

\* While nobody holds a task, only a pending one has a draft.
LEMMA IdleDraft ==
    ASSUME NEW ts, TaskTyped(ts), CorpusInvOf(ts), WorkInvOf(ts), ~ Assigned(ts),
           NEW n \in Drafts(ts)
    PROVE  /\ ts.status = "pending" /\ ts.current = None /\ OpenRounds(ts) = {}
           /\ n \in VersionNo /\ ts.version[n].lifecycle = "draft"
  <1>1. ts.status = "pending"
    BY DEF WorkInvOf, WorkAgreesIn
  <1>2. OpenRounds(ts) = {}
    BY <1>1, NoOpenRounds
  <1>3. QED
    BY <1>1, <1>2 DEF CorpusInvOf, CorpusPointerOf, Drafts, VersionsIn

LEMMA QuietKeepsPool ==
    ASSUME NEW t \in Task, NEW ts, TaskTyped(ts), CorpusInvOf(ts), WorkInvOf(ts), NEW tt,
           QuietMove(t, ts, tt), ~ Assigned(ts), NEW n \in Drafts(ts), ts.version[n].human
    PROVE  tt.version[n] = ts.version[n]
  <1>1. /\ ts.status = "pending" /\ ts.current = None /\ OpenRounds(ts) = {}
        /\ n \in VersionNo /\ ts.version[n].lifecycle = "draft"
    BY IdleDraft
  <1>2. ASSUME NEW u \in User, AnnotatorMove(ts, tt, u)
        PROVE  tt.version[n] = ts.version[n]
    <2>1. ts.assignment.user # u
      BY NoUserAssumption DEF Assigned
    <2>2. QED
      BY <1>1, <1>2, <2>1
         DEF AnnotatorMove, ClaimStep, SameVersions, CrossCheckStep, CanCrossCheck, ReopenStep,
             CanReopen, SaveStep, CanSave, CompleteStep, CanComplete, FreezeStep, CanFreeze
  <1>3. ASSUME NEW a \in ActionNo, RestoreMove(t, ts, tt, a)
        PROVE  tt.version[n] = ts.version[n]
    BY <1>1, <1>3 DEF RestoreMove, RestoreStep, CanRestore, Untouched
  <1>4. ASSUME NEW k \in RoundNo, DecisionMove(ts, tt, k) \/ CancelStep(ts, tt, k)
        PROVE  tt.version[n] = ts.version[n]
    <2>1. ts.round[k].state \notin OpenState
      BY <1>1 DEF OpenRounds
    <2>2. QED
      BY <1>4, <2>1 DEF DecisionMove, KeepStep, SecondStep, EditStep, DecideStep, CanDecide,
                        CancelStep, CanCancel, OpenState
  <1>5. ~ RefreshStep(ts, tt)
    BY DEF RefreshStep, CanRefresh, Protected, HasHumanDraft
  <1>6. QED
    BY <1>2, <1>3, <1>4, <1>5 DEF QuietMove, AbandonStep, ReleaseStep

LEMMA MovedKeepsPool ==
    ASSUME WorkInv, NEW t \in Task, Moved(t), ~ Assigned(task[t]), NEW n \in Drafts(task[t]),
           task[t].version[n].human
    PROVE  task'[t].version[n] = task[t].version[n]
  <1>1. TaskTyped(task[t]) /\ CorpusInvOf(task[t]) /\ WorkInvOf(task[t])
    BY DEF WorkInv, CorpusInv, TypeOK
  <1>2. task[t].current = None
    BY <1>1, IdleDraft
  <1>3. CASE QuietMove(t, task[t], task'[t])
    BY <1>1, <1>3, QuietKeepsPool
  <1>4. ~ \E author, a, block : RevokeStep(task[t], task'[t], author, a, block)
    BY <1>2 DEF RevokeStep
  <1>5. CASE \E u \in User : OffboardStep(task[t], task'[t], u, actions + 1)
    <2>1. PICK u \in User, free \in TaskRow :
            /\ ReleaseStep(task[t], free) \/ ReserveStep(task[t], free)
            /\ IF PublishedBy(free, u) THEN RevokeStep(free, task'[t], u, actions + 1, TRUE)
                                       ELSE task'[t] = free
      BY <1>5 DEF OffboardStep
    <2>2. ReserveStep(task[t], free)
      BY <2>1 DEF ReleaseStep
    <2>3. free.current = None /\ free.version = task[t].version
      BY <1>2, <2>2 DEF ReserveStep, SamePointer, SameVersions
    <2>4. QED
      BY <2>1, <2>3 DEF PublishedBy
  <1>6. QED
    BY <1>3, <1>4, <1>5 DEF Moved

\* A pool draft with human text is never changed or discarded while nobody
\* holds the task (PooledWorkKept).
THEOREM PooledWorkKeptHolds == Spec => PooledWorkKept
  <1>1. ASSUME WorkInv, [Next]_vars
        PROVE  \A t \in Task : \A n \in Drafts(task[t]) :
                 task[t].version[n].human /\ ~ Assigned(task[t])
                   => task'[t].version[n] = task[t].version[n]
    BY <1>1, TaskMoves, MovedKeepsPool
  <1>2. QED
    BY <1>1, WorkInvHolds, PTL DEF Spec, PooledWorkKept

-----------------------------------------------------------------------------
(* Credit                                                                  *)

\* No version gets an author.
NoNewAuthor(ts, tt) ==
    \A n \in VersionNo : tt.version[n].submitter \in {ts.version[n].submitter, NoUser}

LEMMA SameSubmitter ==
    ASSUME NEW v \in VersionRow
    PROVE  /\ AbandonIfDraft(v).submitter = v.submitter
           /\ SupersedeIfPublished(v).submitter = v.submitter
           /\ Reinstated(v).submitter = v.submitter
           /\ \A l : InState(v, l).submitter = v.submitter
           /\ \A a : RevokedRow(v, a).submitter = v.submitter
           /\ \A u : Edited(v, u).submitter = v.submitter
           /\ \A c, b : Recut(v, c, b).submitter = v.submitter
  BY AbandonIfDraftRow, SupersedeIfPublishedRow, ReinstatedRow, InStateRow, RevokedRowRow,
     EditedRow, RecutRow DEF SameContent

\* Only completing and freezing name an author ...
LEMMA QuietAuthors ==
    ASSUME NEW t \in Task, NEW ts, TaskTyped(ts), NEW tt, QuietMove(t, ts, tt),
           \A u \in User : /\ \A o \in Outcome : ~ (Active(u) /\ CompleteStep(ts, tt, u, o))
                           /\ \A s \in SubmissionRow :
                                ~ (Active(u) /\ FreezeStep(ts, tt, u, s, s.outcome, s.needsReview))
    PROVE  NoNewAuthor(ts, tt)
  <1>1. \A n \in VersionNo : ts.version[n] \in VersionRow
    BY RowsWith
  <1>2. CASE \E u \in User : Active(u) /\ AnnotatorMove(ts, tt, u)
    <2>1. CorrectionRow(ts).submitter = NoUser /\ BlindDraft(ts).submitter = NoUser
      BY NewRows
    <2>2. PICK u \in User : Active(u) /\ AnnotatorMove(ts, tt, u)
      BY <1>2
    <2>3. CASE \E d \in VersionNo : ClaimStep(ts, tt, u, d)
      BY <2>3 DEF ClaimStep, SameVersions, NoNewAuthor
    <2>4. CASE SaveStep(ts, tt, u)
      BY <1>1, <2>4, EditedRow DEF SaveStep, NoNewAuthor
    <2>5. CASE CrossCheckStep(ts, tt, u) \/ ReopenStep(ts, tt, u)
      BY <2>1, <2>5 DEF CrossCheckStep, ReopenStep, NoNewAuthor
    <2>6. QED
      BY <2>2, <2>3, <2>4, <2>5 DEF AnnotatorMove
  <1>3. CASE \E a \in ActionNo : RestoreMove(t, ts, tt, a)
    BY <1>1, <1>3, SameSubmitter DEF RestoreMove, RestoreStep, NoNewAuthor
  <1>4. CASE \E k \in RoundNo : DecisionMove(ts, tt, k) \/ CancelStep(ts, tt, k)
    <2>1. \A base, o : AdminEdit(ts, base, o).submitter = NoUser
      BY NewRows
    <2>2. QED
      BY <1>1, <1>4, <2>1, SameSubmitter
         DEF DecisionMove, KeepStep, SameVersions, SecondStep, EditStep, CancelStep, NoNewAuthor
  <1>5. CASE AbandonStep(ts, tt) \/ RefreshStep(ts, tt)
    BY <1>1, <1>5, SameSubmitter DEF AbandonStep, RefreshStep, NoNewAuthor
  <1>6. CASE ReleaseStep(ts, tt)
    <2>1. CleanRow(ts).submitter = NoUser
      BY NewRows
    <2>2. QED
      BY <1>1, <1>6, <2>1, SameSubmitter DEF ReleaseStep, NoNewAuthor
  <1>7. QED
    BY <1>2, <1>3, <1>4, <1>5, <1>6 DEF QuietMove, NoNewAuthor

LEMMA ReleaseAuthors ==
    ASSUME NEW ts, TaskTyped(ts), NEW tt, ReleaseStep(ts, tt) \/ ReserveStep(ts, tt)
    PROVE  NoNewAuthor(ts, tt)
  <1>1. \A n \in VersionNo : ts.version[n] \in VersionRow
    BY RowsWith
  <1>2. CleanRow(ts).submitter = NoUser
    BY NewRows
  <1>3. QED
    BY <1>1, <1>2, SameSubmitter DEF ReleaseStep, ReserveStep, SameVersions, NoNewAuthor

LEMMA RevokeAuthors ==
    ASSUME NEW ts, TaskTyped(ts), NEW tt, NEW author, NEW a, NEW block,
           RevokeStep(ts, tt, author, a, block)
    PROVE  NoNewAuthor(ts, tt)
  <1>1. \A n \in VersionNo : ts.version[n] \in VersionRow
    BY RowsWith
  <1>2. CleanRow(ts).submitter = NoUser
    BY NewRows
  <1>3. QED
    BY <1>1, <1>2, SameSubmitter DEF RevokeStep, NoNewAuthor

\* ... and it is the active holder, of the version he holds.
LEMMA WriterAuthors ==
    ASSUME NEW ts, TaskTyped(ts), NEW tt, NEW u \in User,
           \/ \E o \in Outcome : CompleteStep(ts, tt, u, o)
           \/ \E s \in SubmissionRow : FreezeStep(ts, tt, u, s, s.outcome, s.needsReview)
    PROVE  /\ ts.assignment.user = u
           /\ \A n \in VersionNo \ {ts.assignment.version} :
                tt.version[n].submitter = ts.version[n].submitter
           /\ ts.assignment.version \in VersionNo =>
                tt.version[ts.assignment.version].submitter = u
  <1>1. \A n \in VersionNo : ts.version[n] \in VersionRow
    BY RowsWith
  <1>2. CASE \E o \in Outcome : CompleteStep(ts, tt, u, o)
    BY <1>1, <1>2, SameSubmitter, SubmittedRow DEF CompleteStep, CanComplete
  <1>3. CASE \E s \in SubmissionRow : FreezeStep(ts, tt, u, s, s.outcome, s.needsReview)
    BY <1>1, <1>3, SameSubmitter, SubmittedRow DEF FreezeStep, CanFreeze
  <1>4. QED
    BY <1>2, <1>3

LEMMA MovedCredits ==
    ASSUME WorkInv, NEW t \in Task, Moved(t), NEW n \in VersionNo,
           task'[t].version[n].submitter \notin {task[t].version[n].submitter, NoUser}
    PROVE  LET u == task'[t].version[n].submitter IN
           task[t].assignment.user = u /\ task[t].assignment.version = n /\ Active(u)
  <1> DEFINE ts == task[t]
             tt == task'[t]
  <1>1. TaskTyped(ts)
    BY DEF WorkInv, CorpusInv, TypeOK
  <1>2. CASE QuietMove(t, ts, tt)
    <2>1. PICK u \in User :
            /\ Active(u)
            /\ \/ \E o \in Outcome : CompleteStep(ts, tt, u, o)
               \/ \E s \in SubmissionRow : FreezeStep(ts, tt, u, s, s.outcome, s.needsReview)
      BY <1>1, <1>2, QuietAuthors DEF NoNewAuthor
    <2>2. /\ ts.assignment.user = u
          /\ \A m \in VersionNo \ {ts.assignment.version} :
               tt.version[m].submitter = ts.version[m].submitter
          /\ ts.assignment.version \in VersionNo =>
               tt.version[ts.assignment.version].submitter = u
      BY <1>1, <2>1, WriterAuthors
    <2>3. n = ts.assignment.version
      BY <2>2
    <2>4. QED
      BY <2>1, <2>2, <2>3
  <1>3. CASE tt = ts
    BY <1>3
  <1>4. CASE \E author, block : RevokeStep(ts, tt, author, actions + 1, block)
    BY <1>1, <1>4, RevokeAuthors DEF NoNewAuthor
  <1>5. CASE \E u \in User : OffboardStep(ts, tt, u, actions + 1)
    <2>1. PICK u \in User, free \in TaskRow :
            /\ TaskTyped(free)
            /\ ReleaseStep(ts, free) \/ ReserveStep(ts, free)
            /\ RevokeStep(free, tt, u, actions + 1, TRUE) \/ tt = free
      BY <1>5 DEF OffboardStep
    <2>2. NoNewAuthor(ts, free)
      BY <1>1, <2>1, ReleaseAuthors
    <2>3. NoNewAuthor(free, tt) \/ tt = free
      BY <2>1, RevokeAuthors
    <2>4. QED
      BY <2>2, <2>3 DEF NoNewAuthor
  <1>6. QED
    BY <1>2, <1>3, <1>4, <1>5 DEF Moved

\* An author was the active holder when he became the author (CreditIsEarned).
THEOREM CreditIsEarnedHolds == Spec => CreditIsEarned
  <1>1. ASSUME WorkInv, [Next]_vars
        PROVE  \A t \in Task, n \in VersionNo :
                 LET u == task'[t].version[n].submitter IN
                 u \notin {task[t].version[n].submitter, NoUser}
                   => /\ task[t].assignment.user = u
                      /\ task[t].assignment.version = n
                      /\ Active(u)
    BY <1>1, TaskMoves, MovedCredits
  <1>2. QED
    BY <1>1, WorkInvHolds, PTL DEF Spec, CreditIsEarned

-----------------------------------------------------------------------------
(* The second annotator is somebody else                                   *)

LEMMA MovePeople ==
    ASSUME NEW ts, TaskTyped(ts), NEW tt, NEW n \in VersionNo, RowMove(ts, tt, n)
    PROVE  LET v == ts.version[n]
               w == tt.version[n]
           IN  /\ w.modifiedBy \in {v.modifiedBy, NoUser, ts.assignment.user}
               /\ w.submitter \in {v.submitter, NoUser, ts.assignment.user}
               /\ v.lifecycle # "draft" /\ n # ts.versions + 1 =>
                    /\ w.modifiedBy = v.modifiedBy /\ w.submitter = v.submitter
                    /\ w.lifecycle # "draft"
  <1> DEFINE v == ts.version[n]
             w == tt.version[n]
             u == ts.assignment.user
  <1>1. v \in VersionRow
    BY RowsWith
  <1> SUFFICES /\ w.modifiedBy \in {v.modifiedBy, NoUser, u}
               /\ w.submitter \in {v.submitter, NoUser, u}
               /\ v.lifecycle # "draft" /\ n # ts.versions + 1 =>
                    /\ w.modifiedBy = v.modifiedBy /\ w.submitter = v.submitter
                    /\ w.lifecycle # "draft"
    OBVIOUS
  <1>2. CASE w = v
    BY <1>2
  <1>3. CASE \E l \in {"abandoned", "superseded", "published"} : w = InState(v, l)
    BY <1>1, <1>3, InStateRow DEF SameContent
  <1>4. CASE v.lifecycle = "published" /\ \E a \in ActionNo : w = RevokedRow(v, a)
    BY <1>1, <1>4, RevokedRowRow DEF SameContent
  <1>5. CASE w = Reinstated(v)
    BY <1>1, <1>5, ReinstatedRow DEF SameContent
  <1>6. CASE WrittenRow(ts, n, w)
    BY <1>6, WrittenRowIs
  <1>7. CASE \E c \in Nat, b \in {0, 1} : w = Recut(v, c, b)
    BY <1>1, <1>7, RecutRow
  <1>8. CASE AddedDraft(ts, tt, n, w)
    BY <1>8, AddedDraftIs DEF AddedDraft
  <1>9. CASE n = ts.versions + 1 /\ \E base \in VersionNo, o \in Outcome : w = AdminEdit(ts, base, o)
    <2>1. PICK base \in VersionNo, o \in Outcome : w = AdminEdit(ts, base, o)
      BY <1>9
    <2>2. AdminEdit(ts, base, o).modifiedBy = NoUser /\ AdminEdit(ts, base, o).submitter = NoUser
      BY NewRows
    <2>3. QED
      BY <1>9, <2>1, <2>2
  <1>10. QED
    BY <1>2, <1>3, <1>4, <1>5, <1>6, <1>7, <1>8, <1>9 DEF RowMove, PlainMove

\* What a round says of its second annotator: nothing before his version is
\* still being written, and none of it is his.
IndependentRound(ts, k) ==
    LET r == ts.round[k] IN
    /\ r.secondary <= ts.versions
    /\ r.secondaryAnnotator # r.originalAnnotator
    /\ \A n \in VersionNo : n < r.secondary =>
         /\ ts.version[n].lifecycle # "draft"
         /\ r.secondaryAnnotator \notin {ts.version[n].modifiedBy, ts.version[n].submitter}

\* Everybody named in a version, and whoever holds the task, is known to have
\* taken part.
IndepInvOf(ts) ==
    /\ \A n \in VersionNo : {ts.version[n].modifiedBy, ts.version[n].submitter}
                              \subseteq ts.participants \cup {NoUser}
    /\ ts.assignment.user \in ts.participants \cup {NoUser}
    /\ \A k \in RoundNo : k <= ts.rounds => IndependentRound(ts, k)

\* The frame of every step but a second opinion.
PeopleKept(ts, tt) ==
    /\ ts.participants \subseteq tt.participants
    /\ tt.assignment.user \in tt.participants \cup {NoUser}
    /\ tt.versions \in {ts.versions, ts.versions + 1} /\ tt.rounds = ts.rounds
    /\ \A k \in RoundNo : SamePair(tt.round[k], ts.round[k])

LEMMA SecondNumber ==
    ASSUME NEW ts, TaskTyped(ts), NEW k \in RoundNo
    PROVE  ts.round[k].secondary \in Nat /\ ts.round[k].secondary <= MaxVersions
  BY RowsWith, BoundsAssumption DEF RoundRow, VersionNo, None

LEMMA KeptKeepsIndep ==
    ASSUME NEW ts, TaskTyped(ts), IndepInvOf(ts), NEW tt,
           \A n \in VersionNo : RowMove(ts, tt, n), PeopleKept(ts, tt)
    PROVE  IndepInvOf(tt)
  <1>1. \A n \in VersionNo : {tt.version[n].modifiedBy, tt.version[n].submitter}
                               \subseteq tt.participants \cup {NoUser}
    <2>1. ASSUME NEW n \in VersionNo
          PROVE  {tt.version[n].modifiedBy, tt.version[n].submitter}
                   \subseteq tt.participants \cup {NoUser}
      <3>1. /\ tt.version[n].modifiedBy \in {ts.version[n].modifiedBy, NoUser, ts.assignment.user}
            /\ tt.version[n].submitter \in {ts.version[n].submitter, NoUser, ts.assignment.user}
        BY MovePeople
      <3>2. QED
        BY <3>1 DEF IndepInvOf, PeopleKept
    <2>2. QED
      BY <2>1
  <1>2. ASSUME NEW k \in RoundNo, k <= tt.rounds
        PROVE  IndependentRound(tt, k)
    <2>1. IndependentRound(ts, k) /\ ts.round[k].secondary \in Nat
      BY <1>2, SecondNumber DEF IndepInvOf, PeopleKept
    <2>2. /\ tt.round[k].secondary = ts.round[k].secondary
          /\ tt.round[k].secondaryAnnotator = ts.round[k].secondaryAnnotator
          /\ tt.round[k].originalAnnotator = ts.round[k].originalAnnotator
      BY DEF PeopleKept, SamePair
    <2>3. ts.round[k].secondary <= tt.versions
      BY <2>1, RowsWith DEF IndependentRound, PeopleKept, VersionNo
    <2>4. ASSUME NEW n \in VersionNo, n < ts.round[k].secondary
          PROVE  /\ tt.version[n].lifecycle # "draft"
                 /\ tt.version[n].modifiedBy = ts.version[n].modifiedBy
                 /\ tt.version[n].submitter = ts.version[n].submitter
      <3>1. ts.version[n].lifecycle # "draft" /\ n # ts.versions + 1
        BY <2>1, <2>4, RowsWith DEF IndependentRound, VersionNo
      <3>2. QED
        BY <3>1, MovePeople
    <2>5. QED
      BY <2>1, <2>2, <2>3, <2>4 DEF IndependentRound
  <1>3. QED
    BY <1>1, <1>2 DEF IndepInvOf, PeopleKept

LEMMA CrossCheckKeepsIndep ==
    ASSUME NEW ts, TaskTyped(ts), CorpusInvOf(ts), IndepInvOf(ts), NEW tt,
           NEW u \in User, CrossCheckStep(ts, tt, u)
    PROVE  IndepInvOf(tt)
  <1> DEFINE e == ts.versions + 1
             j == ts.rounds + 1
  <1>1. /\ CanCrossCheck(ts, u) /\ tt.participants = ts.participants \cup {u}
        /\ tt.versions = e /\ tt.rounds = j
        /\ \A n \in VersionNo :
              tt.version[n] = IF n = e THEN BlindDraft(ts) ELSE ts.version[n]
        /\ \A k \in RoundNo : tt.round[k] = IF k = j THEN StartedRound(ts, u) ELSE ts.round[k]
        /\ tt.assignment.user = u
    BY DEF CrossCheckStep
  <1>2. BlindDraft(ts).modifiedBy = NoUser /\ BlindDraft(ts).submitter = NoUser
    BY NewRows
  <1>3. \A n \in VersionNo : {tt.version[n].modifiedBy, tt.version[n].submitter}
                               \subseteq tt.participants \cup {NoUser}
    BY <1>1, <1>2 DEF IndepInvOf
  <1>4. \A n \in VersionNo : ts.version[n].lifecycle # "draft"
    BY <1>1 DEF CanCrossCheck, Drafts, VersionsIn
  <1>5. u \notin ts.participants \cup {NoUser}
    BY <1>1, NoUserAssumption DEF CanCrossCheck, NotParticipant
  <1>6. ASSUME j \in RoundNo
        PROVE  IndependentRound(tt, j)
    <2>1. /\ tt.round[j].secondary = e /\ tt.round[j].secondaryAnnotator = u
          /\ tt.round[j].originalAnnotator = ts.version[ts.current].submitter
      BY <1>1, <1>6, StartedRoundRow
    <2>2. e \in Int
      BY RowsWith
    <2>3. \A n \in VersionNo : n < e => tt.version[n] = ts.version[n]
      BY <1>1, <2>2 DEF VersionNo
    <2>4. u # ts.version[ts.current].submitter
      BY <1>1 DEF CanCrossCheck
    <2> HIDE DEF e, j
    <2>5. QED
      BY <1>1, <1>4, <1>5, <2>1, <2>2, <2>3, <2>4 DEF IndependentRound, IndepInvOf
  <1>7. ASSUME NEW k \in RoundNo, k <= ts.rounds
        PROVE  IndependentRound(tt, k)
    <2>1. tt.round[k] = ts.round[k] /\ IndependentRound(ts, k) /\ ts.round[k].secondary \in Nat
      BY <1>1, <1>7, RowsWith, SecondNumber DEF IndepInvOf, RoundNo
    <2>2. ts.round[k].secondary <= e /\ \A n \in VersionNo :
            n < ts.round[k].secondary => tt.version[n] = ts.version[n]
      BY <1>1, <2>1, RowsWith DEF IndependentRound, VersionNo
    <2>3. QED
      BY <1>1, <2>1, <2>2 DEF IndependentRound
  <1>8. \A k \in RoundNo : k <= j => k <= ts.rounds \/ k = j
    BY RowsWith DEF RoundNo
  <1>9. QED
    BY <1>1, <1>3, <1>6, <1>7, <1>8 DEF IndepInvOf

LEMMA ClosedPeople ==
    ASSUME NEW ts, TaskTyped(ts), IndepInvOf(ts), NEW tt, RoundsClosed(ts, tt),
           tt.participants = ts.participants,
           tt.versions \in {ts.versions, ts.versions + 1},
           tt.assignment \in {ts.assignment, NoAssignment}
    PROVE  PeopleKept(ts, tt)
  <1>1. \A k \in RoundNo : SamePair(tt.round[k], ts.round[k])
    BY RoundRows, RowsWith DEF RoundsClosed, SamePair
  <1>2. NoAssignment.user = NoUser
    BY DEF NoAssignment
  <1>3. QED
    BY <1>1, <1>2 DEF PeopleKept, RoundsClosed, IndepInvOf

LEMMA AnnotatorKeepsIndep ==
    ASSUME NEW ts, TaskTyped(ts), CorpusInvOf(ts), WorkInvOf(ts), IndepInvOf(ts), NEW tt,
           NEW u \in User, AnnotatorMove(ts, tt, u)
    PROVE  IndepInvOf(tt)
  <1>1. ASSUME NEW d \in VersionNo, ClaimStep(ts, tt, u, d)
        PROVE  IndepInvOf(tt)
    <2>1. PeopleKept(ts, tt)
      BY <1>1 DEF ClaimStep, PeopleKept, SameVersions, SameRounds, SamePair
    <2>2. \A n \in VersionNo : RowMove(ts, tt, n)
      BY <1>1, ClaimRows DEF RowMove
    <2>3. QED
      BY <2>1, <2>2, KeptKeepsIndep
  <1>2. CASE CrossCheckStep(ts, tt, u)
    BY <1>2, CrossCheckKeepsIndep
  <1>3. CASE ReopenStep(ts, tt, u)
    <2>1. ts.current \in VersionNo /\ ts.version[ts.current].submitter = u
      BY <1>3, RowsWith DEF ReopenStep, CanReopen
    <2>2. u \in ts.participants
      BY <2>1, NoUserAssumption DEF IndepInvOf
    <2>3. PeopleKept(ts, tt)
      BY <1>3, <2>2 DEF ReopenStep, PeopleKept, SamePeople, SameRounds, SamePair
    <2>4. \A n \in VersionNo : RowMove(ts, tt, n)
      BY <1>3, ReopenRows DEF RowMove
    <2>5. QED
      BY <2>3, <2>4, KeptKeepsIndep
  <1>4. CASE SaveStep(ts, tt, u)
    <2>1. PeopleKept(ts, tt)
      BY <1>4, SavePlain, ClosedPeople DEF SaveStep, SamePeople, PlainStep
    <2>2. \A n \in VersionNo : RowMove(ts, tt, n)
      BY <1>4, SaveRows DEF RowMove
    <2>3. QED
      BY <2>1, <2>2, KeptKeepsIndep
  <1>5. ASSUME NEW o \in Outcome, CompleteStep(ts, tt, u, o)
        PROVE  IndepInvOf(tt)
    <2>1. PeopleKept(ts, tt)
      BY <1>5, CompletePlain, ClosedPeople DEF CompleteStep, SamePeople, PlainStep
    <2>2. \A n \in VersionNo : RowMove(ts, tt, n)
      BY <1>5, CompleteRows DEF RowMove
    <2>3. QED
      BY <2>1, <2>2, KeptKeepsIndep
  <1>6. ASSUME NEW s \in SubmissionRow, FreezeStep(ts, tt, u, s, s.outcome, s.needsReview)
        PROVE  IndepInvOf(tt)
    <2>1. \A k \in RoundNo : SamePair(tt.round[k], ts.round[k])
      BY <1>6, RoundRows, RowsWith DEF FreezeStep, SamePair
    <2>2. PeopleKept(ts, tt)
      BY <1>6, <2>1 DEF FreezeStep, SamePeople, PeopleKept, NoAssignment
    <2>3. \A n \in VersionNo : RowMove(ts, tt, n)
      BY <1>6, FreezeRows DEF RowMove, SubmissionRow
    <2>4. QED
      BY <2>2, <2>3, KeptKeepsIndep
  <1>7. QED
    BY <1>1, <1>2, <1>3, <1>4, <1>5, <1>6 DEF AnnotatorMove

LEMMA PlainKeepsIndep ==
    ASSUME NEW ts, TaskTyped(ts), IndepInvOf(ts), NEW tt, PlainStep(ts, tt),
           tt.participants = ts.participants,
           tt.versions \in {ts.versions, ts.versions + 1},
           tt.assignment \in {ts.assignment, NoAssignment}
    PROVE  IndepInvOf(tt)
  BY ClosedPeople, KeptKeepsIndep DEF PlainStep, RowMove

LEMMA ReleaseKeepsIndep ==
    ASSUME NEW ts, TaskTyped(ts), CorpusInvOf(ts), IndepInvOf(ts), NEW tt,
           ReleaseStep(ts, tt) \/ ReserveStep(ts, tt)
    PROVE  IndepInvOf(tt)
  <1>1. CASE ReleaseStep(ts, tt)
    BY <1>1, ReleasePlain, PlainKeepsIndep DEF ReleaseStep, SamePeople
  <1>2. CASE ReserveStep(ts, tt)
    BY <1>2, ReservePlain, PlainKeepsIndep DEF ReserveStep, SamePeople, SameVersions
  <1>3. QED
    BY <1>1, <1>2

LEMMA RevokeKeepsIndep ==
    ASSUME NEW ts, TaskTyped(ts), CorpusInvOf(ts), IndepInvOf(ts), NEW tt, NEW author,
           NEW a \in ActionNo, NEW block, RevokeStep(ts, tt, author, a, block)
    PROVE  IndepInvOf(tt)
  BY RevokePlain, PlainKeepsIndep DEF RevokeStep

LEMMA DecideKeepsIndep ==
    ASSUME NEW ts, TaskTyped(ts), CorpusInvOf(ts), IndepInvOf(ts), NEW tt, NEW k \in RoundNo,
           DecisionMove(ts, tt, k)
    PROVE  IndepInvOf(tt)
  <1>1. \A n \in VersionNo : RowMove(ts, tt, n)
    BY KeepRows, SecondRows, EditRows DEF DecisionMove, RowMove
  <1>2. /\ \E d, f : DecideStep(ts, tt, k, d, f)
        /\ tt.versions \in {ts.versions, ts.versions + 1}
    BY DEF DecisionMove, KeepStep, SecondStep, EditStep, SameVersions
  <1>3. \A j \in RoundNo : SamePair(tt.round[j], ts.round[j])
    BY <1>2, RoundRows, RowsWith DEF DecideStep, SamePair
  <1>4. PeopleKept(ts, tt)
    BY <1>2, <1>3 DEF DecideStep, SamePeople, PeopleKept, IndepInvOf
  <1>5. QED
    BY <1>1, <1>4, KeptKeepsIndep

LEMMA MovedKeepsIndep ==
    ASSUME WorkInv, NEW t \in Task, Moved(t), IndepInvOf(task[t])
    PROVE  IndepInvOf(task'[t])
  <1> DEFINE ts == task[t]
             tt == task'[t]
  <1>1. TaskTyped(ts) /\ CorpusInvOf(ts) /\ WorkInvOf(ts)
    BY DEF WorkInv, CorpusInv, TypeOK
  <1>2. CASE tt = ts
    BY <1>2
  <1>3. ASSUME NEW u \in User, AnnotatorMove(ts, tt, u)
        PROVE  IndepInvOf(tt)
    BY <1>1, <1>3, AnnotatorKeepsIndep
  <1>4. CASE AbandonStep(ts, tt)
    BY <1>1, <1>4, AbandonPlain, PlainKeepsIndep DEF AbandonStep, SamePeople
  <1>5. CASE RefreshStep(ts, tt)
    BY <1>1, <1>5, RefreshPlain, PlainKeepsIndep DEF RefreshStep, SamePeople
  <1>6. ASSUME NEW a \in ActionNo, RestoreMove(t, ts, tt, a)
        PROVE  IndepInvOf(tt)
    BY <1>1, <1>6, RestorePlain, PlainKeepsIndep DEF RestoreMove, RestoreStep
  <1>7. ASSUME NEW k \in RoundNo, CancelStep(ts, tt, k)
        PROVE  IndepInvOf(tt)
    BY <1>1, <1>7, CancelPlain, PlainKeepsIndep DEF CancelStep, SamePeople
  <1>8. ASSUME NEW author, NEW block, RecordedFor(t, author),
               RevokeStep(ts, tt, author, actions + 1, block)
        PROVE  IndepInvOf(tt)
    BY <1>1, <1>8, RevokeKeepsIndep DEF RecordedFor
  <1>9. ASSUME NEW u \in User, RecordedFor(t, u), OffboardStep(ts, tt, u, actions + 1)
        PROVE  IndepInvOf(tt)
    <2>1. PICK free \in TaskRow :
            /\ TaskTyped(free) /\ CorpusInvOf(free)
            /\ ReleaseStep(ts, free) \/ ReserveStep(ts, free)
            /\ RevokeStep(free, tt, u, actions + 1, TRUE) \/ tt = free
      BY <1>9 DEF OffboardStep
    <2>2. IndepInvOf(free)
      BY <1>1, <2>1, ReleaseKeepsIndep
    <2>3. QED
      BY <1>9, <2>1, <2>2, RevokeKeepsIndep DEF RecordedFor
  <1>10. CASE QuietMove(t, ts, tt)
    BY <1>1, <1>2, <1>3, <1>4, <1>5, <1>6, <1>7, <1>10, ReleaseKeepsIndep, DecideKeepsIndep
       DEF QuietMove
  <1>11. QED
    BY <1>2, <1>8, <1>9, <1>10 DEF Moved

LEMMA FreshIndep ==
    ASSUME NEW ts, FreshTask(ts), Backfilled
    PROVE  IndepInvOf(ts)
  <1>1. PICK w \in VersionNo : FreshVersions(ts, w) /\ FreshRest(ts) /\ FreshAuthors(ts, w)
    BY DEF FreshTask
  <1>2. \A k \in RoundNo : ~ (k <= ts.rounds)
    BY <1>1 DEF FreshRest, RoundNo
  <1>3. /\ {ts.version[w].modifiedBy, ts.version[w].submitter} \subseteq ts.participants \cup {NoUser}
        /\ ts.assignment.user \in ts.participants \cup {NoUser}
    BY <1>1 DEF FreshAuthors
  <1>4. \A n \in VersionNo : n # w =>
          ts.version[n].modifiedBy = NoUser /\ ts.version[n].submitter = NoUser
    BY <1>1 DEF FreshVersions
  <1>5. QED
    BY <1>2, <1>3, <1>4 DEF IndepInvOf

LEMMA IndepImplies ==
    ASSUME NEW ts, TaskTyped(ts), IndepInvOf(ts), NEW k \in 1 .. ts.rounds
    PROVE  LET r == ts.round[k] IN
           /\ r.secondaryAnnotator # r.originalAnnotator
           /\ \A n \in 1 .. (r.secondary - 1) :
                r.secondaryAnnotator \notin {ts.version[n].modifiedBy, ts.version[n].submitter}
  <1>1. ts.rounds \in Nat /\ ts.rounds <= MaxRounds
    BY BoundsAssumption DEF TaskTyped, TaskRow, RoundNo
  <1>2. k \in RoundNo /\ k <= ts.rounds
    BY <1>1, BoundsAssumption DEF RoundNo
  <1>3. \A n \in 1 .. (ts.round[k].secondary - 1) : n \in VersionNo /\ n < ts.round[k].secondary
    BY <1>2, SecondNumber, BoundsAssumption DEF VersionNo
  <1>4. QED
    BY <1>2, <1>3 DEF IndepInvOf, IndependentRound

\* If the authors of imported work were known when the participants were
\* filled in, the second annotator of a round neither edited nor submitted any
\* earlier version (SecondAnnotatorIndependent).
THEOREM SecondAnnotatorIndependentHolds ==
    ASSUME Backfilled
    PROVE  Spec => []SecondAnnotatorIndependent
  <1> DEFINE Indep == \A t \in Task : IndepInvOf(task[t])
  <1>1. Init => Indep
    BY InitFresh, FreshIndep
  <1>2. WorkInv /\ Indep /\ [Next]_vars => Indep'
    BY TaskMoves, MovedKeepsIndep
  <1>3. WorkInv /\ Indep => SecondAnnotatorIndependent
    BY IndepImplies DEF WorkInv, CorpusInv, TypeOK, SecondAnnotatorIndependent
  <1> HIDE DEF Indep
  <1>4. QED
    BY <1>1, <1>2, <1>3, WorkInvHolds, PTL DEF Spec

-----------------------------------------------------------------------------
(* The audit trail                                                         *)

\* Neither marked as withdrawn nor unmarked.
SameMark(v, w) ==
    /\ w.revokedBy = v.revokedBy
    /\ w.lifecycle = "revoked" <=> v.lifecycle = "revoked"

MarksKept(ts, tt) ==
    \A n \in VersionNo :
        LET v == ts.version[n]
            w == tt.version[n]
        IN  \/ SameMark(v, w)
            \/ v.lifecycle = "none" /\ w.lifecycle # "revoked" /\ w.revokedBy = None

LEMMA SameMarks ==
    ASSUME NEW v \in VersionRow
    PROVE  /\ SameMark(v, v) /\ SameMark(v, AbandonIfDraft(v))
           /\ SameMark(v, SupersedeIfPublished(v))
           /\ \A u : SameMark(v, Edited(v, u))
           /\ \A c, b : SameMark(v, Recut(v, c, b))
           /\ v.lifecycle # "revoked" =>
                /\ \A l \in {"abandoned", "superseded", "published"} : SameMark(v, InState(v, l))
                /\ \A u \in User, l \in {"published", "cross_check_submitted"} : \A o :
                     SameMark(v, Submitted(v, u, l, o))
  <1>1. SameMark(v, v) /\ SameMark(v, AbandonIfDraft(v)) /\ SameMark(v, SupersedeIfPublished(v))
    BY AbandonIfDraftRow, SupersedeIfPublishedRow DEF SameMark
  <1>2. /\ \A u : SameMark(v, Edited(v, u))
        /\ \A c, b : SameMark(v, Recut(v, c, b))
    BY EditedRow, RecutRow DEF SameMark
  <1>3. ASSUME v.lifecycle # "revoked"
        PROVE  \A l \in {"abandoned", "superseded", "published"} : SameMark(v, InState(v, l))
    BY <1>3, InStateRow DEF SameMark
  <1>4. ASSUME v.lifecycle # "revoked"
        PROVE  \A u \in User, l \in {"published", "cross_check_submitted"} : \A o :
                 SameMark(v, Submitted(v, u, l, o))
    BY <1>4, SubmittedRow DEF SameMark
  <1>5. QED
    BY <1>1, <1>2, <1>3, <1>4

\* What is new is not marked.
LEMMA NewMarks ==
    ASSUME NEW ts
    PROVE  /\ CleanRow(ts).lifecycle # "revoked" /\ CleanRow(ts).revokedBy = None
           /\ CorrectionRow(ts).lifecycle # "revoked" /\ CorrectionRow(ts).revokedBy = None
           /\ BlindDraft(ts).lifecycle # "revoked" /\ BlindDraft(ts).revokedBy = None
           /\ \A base, o : /\ AdminEdit(ts, base, o).lifecycle # "revoked"
                           /\ AdminEdit(ts, base, o).revokedBy = None
  <1>1. CleanRow(ts).lifecycle # "revoked" /\ CleanRow(ts).revokedBy = None
    BY NewRows
  <1>2. CorrectionRow(ts).lifecycle # "revoked" /\ CorrectionRow(ts).revokedBy = None
    BY NewRows
  <1>3. BlindDraft(ts).lifecycle # "revoked" /\ BlindDraft(ts).revokedBy = None
    BY NewRows
  <1>4. \A base, o : AdminEdit(ts, base, o).lifecycle = "published"
                       /\ AdminEdit(ts, base, o).revokedBy = None
    BY NewRows
  <1>5. QED
    BY <1>1, <1>2, <1>3, <1>4

LEMMA AnnotatorMarks ==
    ASSUME NEW ts, TaskTyped(ts), CorpusInvOf(ts), WorkInvOf(ts), NEW tt, NEW u \in User,
           AnnotatorMove(ts, tt, u)
    PROVE  MarksKept(ts, tt)
  <1>1. \A n \in VersionNo : ts.version[n] \in VersionRow
    BY RowsWith
  <1>2. CASE \E d \in VersionNo : ClaimStep(ts, tt, u, d)
    BY <1>2 DEF ClaimStep, SameVersions, MarksKept, SameMark
  <1>3. CASE SaveStep(ts, tt, u)
    BY <1>1, <1>3, SameMarks DEF SaveStep, MarksKept
  <1>4. CASE CrossCheckStep(ts, tt, u)
    <2>1. ts.versions + 1 \in VersionNo => ts.version[ts.versions + 1].lifecycle = "none"
      BY NewNumber
    <2>2. QED
      BY <1>1, <1>4, <2>1, NewMarks, SameMarks DEF CrossCheckStep, MarksKept
  <1>5. CASE ReopenStep(ts, tt, u)
    <2>1. ts.versions + 1 \in VersionNo => ts.version[ts.versions + 1].lifecycle = "none"
      BY NewNumber
    <2>2. QED
      BY <1>1, <1>5, <2>1, NewMarks, SameMarks DEF ReopenStep, MarksKept
  <1>6. ASSUME NEW o \in Outcome, CompleteStep(ts, tt, u, o)
        PROVE  MarksKept(ts, tt)
    <2>1. Assigned(ts)
      BY <1>6, NoUserAssumption DEF CompleteStep, CanComplete, Assigned
    <2>2. ts.version[ts.assignment.version].lifecycle = "draft"
      BY <2>1, HeldDraft DEF Drafts, VersionsIn
    <2>3. QED
      BY <1>1, <1>6, <2>2, SameMarks DEF CompleteStep, MarksKept
  <1>7. ASSUME NEW s \in SubmissionRow, FreezeStep(ts, tt, u, s, s.outcome, s.needsReview)
        PROVE  MarksKept(ts, tt)
    BY <1>1, <1>7, SameMarks DEF FreezeStep, CanFreeze, MarksKept
  <1>8. QED
    BY <1>2, <1>3, <1>4, <1>5, <1>6, <1>7 DEF AnnotatorMove

LEMMA ReleaseMarks ==
    ASSUME NEW ts, TaskTyped(ts), CorpusInvOf(ts), NEW tt,
           ReleaseStep(ts, tt) \/ ReserveStep(ts, tt)
    PROVE  MarksKept(ts, tt)
  <1>1. \A n \in VersionNo : ts.version[n] \in VersionRow
    BY RowsWith
  <1>2. ts.versions + 1 \in VersionNo => ts.version[ts.versions + 1].lifecycle = "none"
    BY NewNumber
  <1>3. CASE ReserveStep(ts, tt)
    BY <1>3 DEF ReserveStep, SameVersions, MarksKept, SameMark
  <1>4. CASE ReleaseStep(ts, tt)
    BY <1>1, <1>2, <1>4, NewMarks, SameMarks DEF ReleaseStep, MarksKept
  <1>5. QED
    BY <1>3, <1>4

LEMMA DecisionMarks ==
    ASSUME NEW ts, TaskTyped(ts), CorpusInvOf(ts), NEW tt, NEW k \in RoundNo,
           DecisionMove(ts, tt, k)
    PROVE  MarksKept(ts, tt)
  <1>1. \A n \in VersionNo : ts.version[n] \in VersionRow
    BY RowsWith
  <1>2. CASE KeepStep(ts, tt, k)
    BY <1>2 DEF KeepStep, SameVersions, MarksKept, SameMark
  <1>3. CASE SecondStep(ts, tt, k)
    BY <1>1, <1>3, SameMarks DEF SecondStep, DecideStep, CanReplace, MarksKept
  <1>4. ASSUME NEW base \in VersionNo, NEW o \in Outcome, EditStep(ts, tt, k, base, o)
        PROVE  MarksKept(ts, tt)
    <2>1. ts.versions + 1 \in VersionNo => ts.version[ts.versions + 1].lifecycle = "none"
      BY NewNumber
    <2>2. QED
      BY <1>1, <1>4, <2>1, NewMarks, SameMarks DEF EditStep, DecideStep, CanReplace, MarksKept
  <1>5. QED
    BY <1>2, <1>3, <1>4 DEF DecisionMove

LEMMA OtherMarks ==
    ASSUME NEW ts, TaskTyped(ts), NEW tt,
           \/ AbandonStep(ts, tt) \/ RefreshStep(ts, tt)
           \/ \E k \in RoundNo : CancelStep(ts, tt, k)
    PROVE  MarksKept(ts, tt)
  <1>1. \A n \in VersionNo : ts.version[n] \in VersionRow
    BY RowsWith
  <1>2. CASE AbandonStep(ts, tt)
    BY <1>1, <1>2, SameMarks DEF AbandonStep, MarksKept
  <1>3. CASE RefreshStep(ts, tt)
    BY <1>1, <1>3, SameMarks DEF RefreshStep, MarksKept
  <1>4. CASE \E k \in RoundNo : CancelStep(ts, tt, k)
    BY <1>1, <1>4, SameMarks DEF CancelStep, MarksKept
  <1>5. QED
    BY <1>2, <1>3, <1>4

\* AuditAgrees of one task, for the first "count" of the admin actions "act".
AuditOf(ts, t, act, count) ==
    /\ \A n \in VersionNo :
         LET v == ts.version[n] IN
         /\ v.lifecycle = "revoked" <=> v.revokedBy # None
         /\ v.revokedBy # None => /\ v.revokedBy <= count
                                  /\ act[v.revokedBy].before[t] = n
                                  /\ act[v.revokedBy].annotator = v.submitter
    /\ \A u \in User :
         LET a == ts.blockedBy[u] IN
         a # None => /\ a <= count
                     /\ act[a].annotator = u
                     /\ act[a].before[t] \in VersionNo
                     /\ ts.version[act[a].before[t]].revokedBy = a

LEMMA KeptKeepsAudit ==
    ASSUME NEW ts, TaskTyped(ts), NEW t, NEW act, NEW count, AuditOf(ts, t, act, count), NEW tt,
           \A n \in VersionNo : RowMove(ts, tt, n), MarksKept(ts, tt),
           tt.blockedBy = ts.blockedBy
    PROVE  AuditOf(tt, t, act, count)
  <1>1. ASSUME NEW n \in VersionNo
        PROVE  LET v == ts.version[n]
                   w == tt.version[n]
               IN  /\ w.revokedBy = v.revokedBy
                   /\ w.lifecycle = "revoked" <=> v.lifecycle = "revoked"
                   /\ v.lifecycle = "revoked" => w.submitter = v.submitter
    <2>1. ts.version[n].lifecycle = "none" => ts.version[n].revokedBy = None
      BY DEF AuditOf
    <2>2. ts.version[n].lifecycle = "revoked" => tt.version[n].submitter = ts.version[n].submitter
      BY LastingKept DEF Lasting
    <2>3. QED
      BY <2>1, <2>2 DEF MarksKept, SameMark
  <1>2. QED
    BY <1>1 DEF AuditOf

LEMMA RestoreKeepsAudit ==
    ASSUME NEW ts, TaskTyped(ts), NEW t, NEW act, NEW count, AuditOf(ts, t, act, count), NEW tt,
           NEW a \in ActionNo, act[a].before[t] \in VersionNo,
           RestoreStep(ts, tt, a, act[a].annotator, act[a].before[t], act[a].after[t])
    PROVE  AuditOf(tt, t, act, count)
  <1> DEFINE b == act[a].before[t]
             f == act[a].after[t]
             x == act[a].annotator
  <1>1. /\ ts.version[b].lifecycle = "revoked" /\ ts.version[b].revokedBy = a
        /\ ts.version[f].lifecycle = "draft" /\ tt.blockedBy = BarsWithout(ts, a, x)
        /\ \A n \in VersionNo :
              tt.version[n] = IF n = b THEN Reinstated(ts.version[n])
                              ELSE IF n = f THEN InState(ts.version[n], "abandoned")
                              ELSE ts.version[n]
    BY DEF RestoreStep, CanRestore, Untouched
  <1>2. /\ tt.version[b].lifecycle = "published" /\ tt.version[b].revokedBy = None
    BY <1>1, ReinstatedRow, RowsWith
  <1>3. ASSUME NEW n \in VersionNo, n # b
        PROVE  /\ tt.version[n].revokedBy = ts.version[n].revokedBy
               /\ tt.version[n].submitter = ts.version[n].submitter
               /\ tt.version[n].lifecycle = "revoked" <=> ts.version[n].lifecycle = "revoked"
    BY <1>1, <1>3, InStateRow, RowsWith DEF SameContent
  <1>4. ASSUME NEW u \in User, tt.blockedBy[u] # None
        PROVE  tt.blockedBy[u] = ts.blockedBy[u] /\ ~ (u = x /\ ts.blockedBy[u] = a)
    BY <1>1, <1>4 DEF BarsWithout
  <1>5. ASSUME NEW u \in User, tt.blockedBy[u] # None
        PROVE  act[tt.blockedBy[u]].before[t] # b
    BY <1>1, <1>4, <1>5 DEF AuditOf
  <1> HIDE DEF b, f, x
  <1>6. QED
    BY <1>2, <1>3, <1>4, <1>5 DEF AuditOf

\* A new admin action does not disturb what the earlier ones recorded ...
LEMMA RecordKeepsAudit ==
    ASSUME NEW ts, TaskTyped(ts), NEW t, NEW act, NEW count \in Nat, AuditOf(ts, t, act, count),
           NEW new, \A b \in ActionNo : b # count + 1 => new[b] = act[b]
    PROVE  AuditOf(ts, t, new, count)
  <1>1. \A n \in VersionNo : ts.version[n].revokedBy \in {None} \cup ActionNo
    BY RowsWith DEF VersionRow
  <1>2. \A u \in User : ts.blockedBy[u] \in {None} \cup ActionNo
    BY RowsWith
  <1>3. \A b \in ActionNo : b <= count => new[b] = act[b]
    BY DEF ActionNo
  <1>4. QED
    BY <1>1, <1>2, <1>3 DEF AuditOf

\* ... and what it withdraws is marked with its own number.
LEMMA RevokeKeepsAudit ==
    ASSUME NEW ts, TaskTyped(ts), CorpusInvOf(ts), NEW t, NEW act, NEW count \in Nat,
           AuditOf(ts, t, act, count), count + 1 \in ActionNo, NEW tt,
           NEW author, NEW block, RevokeStep(ts, tt, author, count + 1, block),
           act[count + 1].annotator = author, act[count + 1].before[t] = ts.current
    PROVE  AuditOf(tt, t, act, count + 1)
  <1> DEFINE a == count + 1
             b == ts.current
  <1>1. /\ b \in VersionNo /\ ts.version[b].lifecycle = "published"
        /\ ts.version[b].submitter = author
        /\ \A n \in VersionNo :
              tt.version[n] = IF n = ts.versions + 1 THEN CleanRow(ts)
                              ELSE IF n = b THEN RevokedRow(ts.version[n], a)
                              ELSE AbandonIfDraft(ts.version[n])
        /\ tt.blockedBy = IF block /\ author # NoUser THEN [ts.blockedBy EXCEPT ![author] = a]
                                                      ELSE ts.blockedBy
    BY RowsWith DEF RevokeStep
  <1>2. b # ts.versions + 1
    BY <1>1, NewNumber
  <1>3. /\ tt.version[b].lifecycle = "revoked" /\ tt.version[b].revokedBy = a
        /\ tt.version[b].submitter = author
    BY <1>1, <1>2, RevokedRowRow, RowsWith DEF SameContent
  <1>4. ASSUME NEW n \in VersionNo, n # b
        PROVE  /\ tt.version[n].revokedBy = ts.version[n].revokedBy
               /\ tt.version[n].revokedBy # None =>
                    tt.version[n].submitter = ts.version[n].submitter
               /\ tt.version[n].lifecycle = "revoked" <=> ts.version[n].lifecycle = "revoked"
    <2>1. CASE n = ts.versions + 1
      <3>1. ts.version[n].lifecycle = "none" /\ ts.version[n].revokedBy = None
        BY <2>1, NewNumber DEF AuditOf
      <3>2. tt.version[n].lifecycle # "revoked" /\ tt.version[n].revokedBy = None
        BY <1>1, <2>1, NewMarks
      <3>3. QED
        BY <3>1, <3>2
    <2>2. CASE n # ts.versions + 1
      <3>1. tt.version[n] = AbandonIfDraft(ts.version[n])
        BY <1>1, <1>4, <2>2
      <3>2. QED
        BY <3>1, AbandonIfDraftRow, RowsWith DEF SameContent
    <2>3. QED
      BY <2>1, <2>2
  <1>5. ts.version[b].revokedBy = None
    BY <1>1 DEF AuditOf
  <1>6. a # None /\ a <= a /\ \A c : c <= count /\ c \in ActionNo => c <= a
    BY DEF ActionNo, None
  <1>7. \A n \in VersionNo : ts.version[n].revokedBy \in {None} \cup ActionNo
    BY RowsWith DEF VersionRow
  <1>8. ts.blockedBy \in [User -> {None} \cup ActionNo]
    BY RowsWith
  <1>9. ASSUME NEW n \in VersionNo
        PROVE  LET v == tt.version[n] IN
               /\ v.lifecycle = "revoked" <=> v.revokedBy # None
               /\ v.revokedBy # None => /\ v.revokedBy <= a
                                        /\ act[v.revokedBy].before[t] = n
                                        /\ act[v.revokedBy].annotator = v.submitter
    <2> HIDE DEF a, b
    <2>1. CASE n = b
      BY <1>3, <1>6, <2>1 DEF a, b
    <2>2. CASE n # b
      BY <1>4, <1>6, <1>7, <2>2 DEF AuditOf
    <2>3. QED
      BY <2>1, <2>2
  <1>10. ASSUME NEW u \in User, tt.blockedBy[u] # None
         PROVE  LET c == tt.blockedBy[u] IN
                /\ c <= a /\ act[c].annotator = u /\ act[c].before[t] \in VersionNo
                /\ tt.version[act[c].before[t]].revokedBy = c
    <2>1. CASE tt.blockedBy[u] = a /\ u = author
      BY <1>1, <1>3, <1>6, <2>1
    <2>2. CASE tt.blockedBy[u] = ts.blockedBy[u]
      <3> DEFINE c == ts.blockedBy[u]
      <3>1. /\ c <= count /\ c \in ActionNo /\ act[c].annotator = u
            /\ act[c].before[t] \in VersionNo /\ ts.version[act[c].before[t]].revokedBy = c
            /\ c # None
        BY <1>8, <1>10, <2>2 DEF AuditOf
      <3>2. act[c].before[t] # b
        BY <1>5, <3>1
      <3> HIDE DEF c, b, a
      <3>3. tt.version[act[c].before[t]].revokedBy = c
        BY <1>4, <3>1, <3>2
      <3>4. tt.blockedBy[u] = c
        BY <2>2 DEF c
      <3>5. QED
        BY <1>6, <3>1, <3>3, <3>4
    <2>3. QED
      BY <1>1, <1>8, <2>1, <2>2
  <1>11. QED
    BY <1>9, <1>10 DEF AuditOf

LEMMA QuietKeepsAudit ==
    ASSUME NEW t \in Task, NEW ts, TaskTyped(ts), CorpusInvOf(ts), WorkInvOf(ts),
           AuditOf(ts, t, action, actions), NEW tt, QuietMove(t, ts, tt),
           action \in [ActionNo -> ActionRow]
    PROVE  AuditOf(tt, t, action, actions)
  <1>1. \A n \in VersionNo : RowMove(ts, tt, n)
    BY QuietRows
  <1>2. ASSUME MarksKept(ts, tt), tt.blockedBy = ts.blockedBy
        PROVE  AuditOf(tt, t, action, actions)
    BY <1>1, <1>2, KeptKeepsAudit
  <1>3. CASE tt = ts
    BY <1>3
  <1>4. ASSUME NEW u \in User, AnnotatorMove(ts, tt, u)
        PROVE  AuditOf(tt, t, action, actions)
    <2>1. tt.blockedBy = ts.blockedBy
      BY <1>4 DEF AnnotatorMove, ClaimStep, CrossCheckStep, ReopenStep, SaveStep, CompleteStep,
                  FreezeStep, SamePeople
    <2>2. QED
      BY <1>2, <1>4, <2>1, AnnotatorMarks
  <1>5. CASE \/ AbandonStep(ts, tt) \/ RefreshStep(ts, tt)
             \/ \E k \in RoundNo : CancelStep(ts, tt, k)
    <2>1. tt.blockedBy = ts.blockedBy
      BY <1>5 DEF AbandonStep, RefreshStep, CancelStep, SamePeople
    <2>2. QED
      BY <1>2, <1>5, <2>1, OtherMarks
  <1>6. CASE ReleaseStep(ts, tt)
    <2>1. tt.blockedBy = ts.blockedBy
      BY <1>6 DEF ReleaseStep, SamePeople
    <2>2. QED
      BY <1>2, <1>6, <2>1, ReleaseMarks
  <1>7. ASSUME NEW a \in ActionNo, RestoreMove(t, ts, tt, a)
        PROVE  AuditOf(tt, t, action, actions)
    <2>1. action[a].before[t] \in VersionNo
      BY <1>7 DEF RestoreMove, ActionRow
    <2>2. QED
      BY <1>7, <2>1, RestoreKeepsAudit DEF RestoreMove
  <1>8. ASSUME NEW k \in RoundNo, DecisionMove(ts, tt, k)
        PROVE  AuditOf(tt, t, action, actions)
    <2>1. tt.blockedBy = ts.blockedBy
      BY <1>8 DEF DecisionMove, KeepStep, SecondStep, EditStep, DecideStep, SamePeople
    <2>2. QED
      BY <1>2, <1>8, <2>1, DecisionMarks
  <1>9. QED
    BY <1>3, <1>4, <1>5, <1>6, <1>7, <1>8 DEF QuietMove

LEMMA MovedKeepsAudit ==
    ASSUME WorkInv, NEW t \in Task, Moved(t), AuditOf(task[t], t, action, actions)
    PROVE  AuditOf(task'[t], t, action', actions')
  <1> DEFINE ts == task[t]
             tt == task'[t]
  <1>1. /\ TaskTyped(ts) /\ CorpusInvOf(ts) /\ WorkInvOf(ts)
        /\ action \in [ActionNo -> ActionRow] /\ actions \in Nat
    BY BoundsAssumption DEF WorkInv, CorpusInv, TypeOK
  <1>2. CASE UNCHANGED <<annotator, actions, action>> /\ QuietMove(t, ts, tt)
    <2>1. AuditOf(tt, t, action, actions)
      BY <1>1, <1>2, QuietKeepsAudit
    <2>2. QED
      BY <1>2, <2>1
  <1>3. ASSUME NEW u, RecordedFor(t, u)
        PROVE  /\ actions' = actions + 1 /\ actions + 1 \in ActionNo
               /\ AuditOf(ts, t, action', actions)
    BY <1>1, <1>3, RecordKeepsAudit DEF RecordedFor
  <1>4. ASSUME NEW new, AuditOf(ts, t, new, actions)
        PROVE  AuditOf(ts, t, new, actions + 1)
    <2>1. \A n \in VersionNo : ts.version[n].revokedBy \in {None} \cup ActionNo
      BY <1>1, RowsWith DEF VersionRow
    <2>2. \A u \in User : ts.blockedBy[u] \in {None} \cup ActionNo
      BY <1>1, RowsWith
    <2>3. \A b \in ActionNo : b <= actions => b <= actions + 1
      BY <1>1 DEF ActionNo
    <2>4. QED
      BY <1>4, <2>1, <2>2, <2>3 DEF AuditOf
  <1>5. ASSUME NEW author, NEW block, RecordedFor(t, author),
               tt = ts \/ RevokeStep(ts, tt, author, actions + 1, block)
        PROVE  AuditOf(tt, t, action', actions')
    <2>1. AuditOf(ts, t, action', actions) /\ actions' = actions + 1 /\ actions + 1 \in ActionNo
      BY <1>3, <1>5
    <2>2. CASE tt = ts
      BY <1>4, <2>1, <2>2
    <2>3. CASE RevokeStep(ts, tt, author, actions + 1, block)
      <3>1. action'[actions + 1].annotator = author /\ action'[actions + 1].before[t] = ts.current
        BY <1>5, <2>3 DEF RecordedFor, Withdrew, RevokeStep
      <3>2. AuditOf(tt, t, action', actions + 1)
        BY <1>1, <2>1, <2>3, <3>1, RevokeKeepsAudit
      <3>3. QED
        BY <2>1, <3>2
    <2>4. QED
      BY <1>5, <2>2, <2>3
  <1>6. ASSUME NEW u \in User, RecordedFor(t, u), OffboardStep(ts, tt, u, actions + 1)
        PROVE  AuditOf(tt, t, action', actions')
    <2>1. PICK free \in TaskRow :
            /\ TaskTyped(free) /\ CorpusInvOf(free)
            /\ ReleaseStep(ts, free) \/ ReserveStep(ts, free)
            /\ RevokeStep(free, tt, u, actions + 1, TRUE) \/ tt = free
      BY <1>6 DEF OffboardStep
    <2>2. AuditOf(ts, t, action', actions) /\ actions' = actions + 1 /\ actions + 1 \in ActionNo
      BY <1>3, <1>6
    <2>3. (\A n \in VersionNo : RowMove(ts, free, n)) /\ MarksKept(ts, free)
      BY <1>1, <2>1, ReleaseRows, ReserveRows, ReleaseMarks DEF RowMove
    <2>4. free.blockedBy = ts.blockedBy /\ free.current = ts.current
      BY <2>1 DEF ReleaseStep, ReserveStep, SamePeople, SamePointer
    <2>5. CASE tt = free
      BY <1>1, <1>4, <2>2, <2>3, <2>4, <2>5, KeptKeepsAudit
    <2>6. CASE RevokeStep(free, tt, u, actions + 1, TRUE)
      <3>1. AuditOf(free, t, action', actions)
        BY <1>1, <2>2, <2>3, <2>4, KeptKeepsAudit
      <3>2. action'[actions + 1].annotator = u /\ action'[actions + 1].before[t] = free.current
        BY <1>6, <2>4, <2>6 DEF RecordedFor, Withdrew, RevokeStep
      <3>3. AuditOf(tt, t, action', actions + 1)
        BY <1>1, <2>1, <2>2, <2>6, <3>1, <3>2, RevokeKeepsAudit
      <3>4. QED
        BY <2>2, <3>3
    <2>7. QED
      BY <2>1, <2>5, <2>6
  <1>7. QED
    BY <1>2, <1>5, <1>6 DEF Moved

LEMMA FreshAudit ==
    ASSUME NEW ts, FreshTask(ts), NEW t, NEW act, NEW count
    PROVE  AuditOf(ts, t, act, count)
  <1>1. PICK w \in VersionNo :
          /\ FreshVersions(ts, w) /\ FreshRest(ts)
          /\ FreshDraft(ts, w) \/ FreshResult(ts, w)
    BY DEF FreshTask
  <1>2. ASSUME NEW n \in VersionNo
        PROVE  ts.version[n].lifecycle # "revoked" /\ ts.version[n].revokedBy = None
    <2>1. n # w => ts.version[n].lifecycle \in {"baseline", "none"}
      BY <1>1 DEF FreshVersions
    <2>2. ts.version[w].lifecycle \in {"draft", "published"}
      BY <1>1 DEF FreshDraft, FreshResult
    <2>3. QED
      BY <1>1, <2>1, <2>2 DEF FreshVersions
  <1>3. QED
    BY <1>1, <1>2 DEF AuditOf, FreshRest

AuditInv == WorkInv /\ \A t \in Task : AuditOf(task[t], t, action, actions)

\* A revoked version names the action that lists it, a bar the action that
\* withdrew a result of the barred annotator.
THEOREM AuditInvHolds == Spec => []AuditInv
  <1> DEFINE Audit == \A t \in Task : AuditOf(task[t], t, action, actions)
  <1>1. Init => Audit
    BY InitFresh, FreshAudit
  <1>2. WorkInv /\ Audit /\ [Next]_vars => Audit'
    BY TaskMoves, MovedKeepsAudit
  <1>3. AuditInv <=> WorkInv /\ Audit
    BY DEF AuditInv
  <1> HIDE DEF Audit
  <1>4. QED
    BY <1>1, <1>2, <1>3, WorkInvHolds, PTL DEF Spec

\* What an admin action is recorded to have done can be found again, and only
\* it (AuditAgrees).
THEOREM AuditAgreesHolds == Spec => []AuditAgrees
  <1>1. AuditInv => AuditAgrees
    BY DEF AuditInv, AuditOf, AuditAgrees
  <1>2. QED
    BY <1>1, AuditInvHolds, PTL

-----------------------------------------------------------------------------
(* Segmentations                                                           *)

\* What must be about the segmentation the task has now.
Live(v) == v.lifecycle \in {"draft", "published", "cross_check_submitted"}

SameCut(v, w) == w.cut = v.cut /\ (Live(w) => Live(v))

\* Made from the baseline, or from something live.
CutFrom(ts, w) ==
    \/ w.cut = ts.version[ts.baseline].cut
    \/ \E m \in VersionNo : Live(ts.version[m]) /\ w.cut = ts.version[m].cut

CutsKept(ts, tt) ==
    /\ tt.baseline = ts.baseline
    /\ \A n \in VersionNo :
         \/ SameCut(ts.version[n], tt.version[n])
         \/ ts.version[n].lifecycle = "none" /\ CutFrom(ts, tt.version[n])

LEMMA SameCuts ==
    ASSUME NEW v \in VersionRow
    PROVE  /\ SameCut(v, v) /\ SameCut(v, AbandonIfDraft(v)) /\ SameCut(v, SupersedeIfPublished(v))
           /\ \A u : SameCut(v, Edited(v, u))
           /\ \A a : SameCut(v, RevokedRow(v, a))
           /\ \A l \in {"abandoned", "superseded"} : SameCut(v, InState(v, l))
           /\ Live(v) => /\ \A l : SameCut(v, InState(v, l))
                         /\ \A u \in User : \A l, o : SameCut(v, Submitted(v, u, l, o))
  <1>1. SameCut(v, v) /\ SameCut(v, AbandonIfDraft(v)) /\ SameCut(v, SupersedeIfPublished(v))
    BY AbandonIfDraftRow, SupersedeIfPublishedRow DEF SameCut, SameContent, Live
  <1>2. \A u : SameCut(v, Edited(v, u))
    BY EditedRow DEF SameCut, Live
  <1>3. \A a : SameCut(v, RevokedRow(v, a))
    BY RevokedRowRow DEF SameCut, SameContent, Live
  <1>4. /\ \A l \in {"abandoned", "superseded"} : SameCut(v, InState(v, l))
        /\ Live(v) => \A l : SameCut(v, InState(v, l))
    BY InStateRow DEF SameCut, SameContent, Live
  <1>5. ASSUME Live(v)
        PROVE  \A u \in User : \A l, o : SameCut(v, Submitted(v, u, l, o))
    BY <1>5, SubmittedRow DEF SameCut
  <1>6. QED
    BY <1>1, <1>2, <1>3, <1>4, <1>5

LEMMA NewCuts ==
    ASSUME NEW ts
    PROVE  /\ CutFrom(ts, CleanRow(ts)) /\ CutFrom(ts, BlindDraft(ts))
           /\ ts.current \in VersionNo /\ Live(ts.version[ts.current])
                => CutFrom(ts, CorrectionRow(ts))
           /\ \A base \in VersionNo : \A o :
                Live(ts.version[base]) => CutFrom(ts, AdminEdit(ts, base, o))
  <1>1. CleanRow(ts).cut = ts.version[ts.baseline].cut
    BY NewRows
  <1>2. BlindDraft(ts).cut = ts.version[ts.baseline].cut
    BY NewRows
  <1>3. CorrectionRow(ts).cut = ts.version[ts.current].cut
    BY NewRows
  <1>4. \A base, o : AdminEdit(ts, base, o).cut = ts.version[base].cut
    BY NewRows
  <1>5. QED
    BY <1>1, <1>2, <1>3, <1>4 DEF CutFrom

LEMMA AnnotatorCuts ==
    ASSUME NEW ts, TaskTyped(ts), CorpusInvOf(ts), WorkInvOf(ts), NEW tt, NEW u \in User,
           AnnotatorMove(ts, tt, u)
    PROVE  CutsKept(ts, tt)
  <1>1. \A n \in VersionNo : ts.version[n] \in VersionRow
    BY RowsWith
  <1>2. CASE \E d \in VersionNo : ClaimStep(ts, tt, u, d)
    BY <1>2 DEF ClaimStep, SameVersions, CutsKept, SameCut
  <1>3. CASE SaveStep(ts, tt, u)
    BY <1>1, <1>3, SameCuts DEF SaveStep, CutsKept
  <1>4. CASE CrossCheckStep(ts, tt, u)
    BY <1>1, <1>4, NewNumber, NewCuts, SameCuts DEF CrossCheckStep, CutsKept
  <1>5. CASE ReopenStep(ts, tt, u)
    <2>1. ts.current \in VersionNo /\ Live(ts.version[ts.current])
      BY <1>5, RowsWith
         DEF ReopenStep, CanReopen, CorpusInvOf, CorpusPointerOf, VersionsIn, Live
    <2>2. CutFrom(ts, CorrectionRow(ts))
      BY <2>1, NewCuts
    <2>3. QED
      BY <1>1, <1>5, <2>2, NewNumber, SameCuts DEF ReopenStep, CutsKept
  <1>6. ASSUME NEW o \in Outcome, CompleteStep(ts, tt, u, o)
        PROVE  CutsKept(ts, tt)
    <2>1. Assigned(ts)
      BY <1>6, NoUserAssumption DEF CompleteStep, CanComplete, Assigned
    <2>2. Live(ts.version[ts.assignment.version])
      BY <2>1, HeldDraft DEF Drafts, VersionsIn, Live
    <2>3. QED
      BY <1>1, <1>6, <2>2, SameCuts DEF CompleteStep, CutsKept
  <1>7. ASSUME NEW s \in SubmissionRow, FreezeStep(ts, tt, u, s, s.outcome, s.needsReview)
        PROVE  CutsKept(ts, tt)
    <2>1. Live(ts.version[s.version])
      BY <1>7 DEF FreezeStep, CanFreeze, Live
    <2>2. QED
      BY <1>1, <1>7, <2>1, SameCuts DEF FreezeStep, CutsKept
  <1>8. QED
    BY <1>2, <1>3, <1>4, <1>5, <1>6, <1>7 DEF AnnotatorMove

LEMMA AdminCuts ==
    ASSUME NEW ts, TaskTyped(ts), CorpusInvOf(ts), NEW tt,
           \/ AbandonStep(ts, tt) \/ ReleaseStep(ts, tt) \/ ReserveStep(ts, tt)
           \/ \E k \in RoundNo : CancelStep(ts, tt, k)
           \/ \E author, a, block : RevokeStep(ts, tt, author, a, block)
    PROVE  CutsKept(ts, tt)
  <1>1. \A n \in VersionNo : ts.version[n] \in VersionRow
    BY RowsWith
  <1>2. ts.versions + 1 \in VersionNo => ts.version[ts.versions + 1].lifecycle = "none"
    BY NewNumber
  <1>3. CutFrom(ts, CleanRow(ts))
    BY NewCuts
  <1>4. CASE AbandonStep(ts, tt)
    BY <1>1, <1>4, SameCuts DEF AbandonStep, CutsKept
  <1>5. CASE ReleaseStep(ts, tt)
    BY <1>1, <1>2, <1>3, <1>5, SameCuts DEF ReleaseStep, CutsKept
  <1>6. CASE ReserveStep(ts, tt)
    BY <1>6 DEF ReserveStep, SameVersions, CutsKept, SameCut
  <1>7. CASE \E k \in RoundNo : CancelStep(ts, tt, k)
    BY <1>1, <1>7, SameCuts DEF CancelStep, CutsKept
  <1>8. CASE \E author, a, block : RevokeStep(ts, tt, author, a, block)
    BY <1>1, <1>2, <1>3, <1>8, SameCuts DEF RevokeStep, CutsKept
  <1>9. QED
    BY <1>4, <1>5, <1>6, <1>7, <1>8

LEMMA DecisionCuts ==
    ASSUME NEW ts, TaskTyped(ts), CorpusInvOf(ts), WorkInvOf(ts), NEW tt, NEW k \in RoundNo,
           DecisionMove(ts, tt, k)
    PROVE  CutsKept(ts, tt)
  <1>1. \A n \in VersionNo : ts.version[n] \in VersionRow
    BY RowsWith
  <1>2. CASE KeepStep(ts, tt, k)
    BY <1>2 DEF KeepStep, DecideStep, SameVersions, CutsKept, SameCut
  <1>3. CASE SecondStep(ts, tt, k)
    <2>1. Live(ts.version[ts.round[k].secondary])
      BY <1>3 DEF SecondStep, DecideStep, CanReplace, Live
    <2>2. QED
      BY <1>1, <1>3, <2>1, SameCuts DEF SecondStep, DecideStep, CutsKept
  <1>4. ASSUME NEW base \in VersionNo, NEW o \in Outcome, EditStep(ts, tt, k, base, o)
        PROVE  CutsKept(ts, tt)
    <2>1. Live(ts.version[ts.round[k].secondary]) /\ Live(ts.version[ts.round[k].original])
      BY <1>4 DEF EditStep, DecideStep, CanDecide, CanReplace, CorpusInvOf, Live
    <2>2. CutFrom(ts, AdminEdit(ts, base, o))
      BY <1>4, <2>1, NewCuts DEF EditStep
    <2>3. QED
      BY <1>1, <1>4, <2>2, NewNumber, SameCuts DEF EditStep, DecideStep, CutsKept
  <1>5. QED
    BY <1>2, <1>3, <1>4 DEF DecisionMove

LEMMA KeptKeepsCuts ==
    ASSUME NEW ts, TaskTyped(ts), WorkInvOf(ts), CutsAgreeIn(ts), NEW tt, CutsKept(ts, tt)
    PROVE  /\ CutsAgreeIn(tt)
           /\ tt.version[tt.baseline].cut = ts.version[ts.baseline].cut
  <1> DEFINE c == ts.version[ts.baseline].cut
  <1>1. ts.baseline \in VersionNo /\ ts.version[ts.baseline].lifecycle = "baseline"
    BY RowsWith DEF WorkInvOf
  <1>2. tt.version[tt.baseline].cut = c
    BY <1>1 DEF CutsKept, SameCut
  <1>3. \A n \in VersionNo : Live(ts.version[n]) => ts.version[n].cut = c
    BY DEF CutsAgreeIn, VersionsIn, Live
  <1>4. \A n \in VersionNo : Live(tt.version[n]) => tt.version[n].cut = c
    BY <1>3 DEF CutsKept, SameCut, CutFrom
  <1>5. QED
    BY <1>2, <1>4 DEF CutsAgreeIn, VersionsIn, Live

LEMMA RefreshKeepsCuts ==
    ASSUME NEW ts, TaskTyped(ts), CorpusInvOf(ts), WorkInvOf(ts), NEW tt, RefreshStep(ts, tt)
    PROVE  CutsAgreeIn(tt)
  <1> DEFINE c == ts.version[ts.baseline].cut + 1
  <1>1. /\ ts.current = None /\ tt.baseline = ts.baseline
        /\ \A n \in VersionNo : ts.version[n].lifecycle # "cross_check_submitted"
        /\ \A n \in VersionNo :
              tt.version[n] = IF n \in Drafts(ts) THEN Recut(ts.version[n], c, 1)
                              ELSE IF n = ts.baseline THEN Recut(ts.version[n], c, 0)
                              ELSE ts.version[n]
    BY DEF RefreshStep, CanRefresh, Protected, VersionsIn, Lifecycle
  <1>2. \A n \in VersionNo : ts.version[n].lifecycle # "published"
    BY <1>1 DEF CorpusInvOf, CorpusPointerOf, VersionsIn
  <1>3. ASSUME NEW n \in VersionNo, Live(tt.version[n])
        PROVE  tt.version[n].cut = c
    BY <1>1, <1>2, <1>3, RecutRow, RowsWith DEF Live, Drafts, VersionsIn
  <1>4. tt.version[tt.baseline].cut = c
    BY <1>1, RecutRow, RowsWith
  <1>5. QED
    BY <1>3, <1>4 DEF CutsAgreeIn, VersionsIn, Live

-----------------------------------------------------------------------------
(* Withdrawn results and the clean drafts left in their place              *)

\* What a task keeps of the recorded withdrawals "act": the withdrawn version,
\* and, as long as its clean draft is one, that nothing but this withdrawal
\* bars its author and, as long as the draft was not written to, that the
\* segmentation is still the one the version is about.
ItemsOf(ts, t, act) ==
    \A a \in ActionNo :
        LET b == act[a].before[t]
            f == act[a].after[t]
            x == act[a].annotator
        IN  b # None =>
              /\ f \in VersionNo /\ f <= ts.versions
              /\ ts.version[b].lifecycle \in Lasting
              /\ ts.version[f].lifecycle = "draft" =>
                   /\ x # NoUser => ts.blockedBy[x] \in {None, a}
                   /\ ts.version[f].revision = 0 =>
                        ts.version[b].cut = ts.version[ts.baseline].cut

LEMMA DraftRevision ==
    ASSUME NEW ts, TaskTyped(ts), NEW tt, NEW n \in VersionNo, RowMove(ts, tt, n),
           ts.version[n].lifecycle = "draft", tt.version[n].lifecycle = "draft",
           tt.version[n].revision = 0
    PROVE  ts.version[n].revision = 0
  <1> DEFINE v == ts.version[n]
             w == tt.version[n]
  <1>1. v \in VersionRow /\ v.revision \in Nat
    BY RowsWith DEF VersionRow
  <1>2. CASE w = v
    BY <1>2
  <1>3. CASE w = InState(v, "abandoned")
    BY <1>1, <1>3, InStateRow
  <1>4. CASE WrittenRow(ts, n, w)
    BY <1>1, <1>4, WrittenRowIs
  <1>5. CASE \E c \in Nat, b \in {0, 1} : w = Recut(v, c, b)
    BY <1>1, <1>5, RecutRow
  <1>6. ~ AddedDraft(ts, tt, n, w)
    BY DEF AddedDraft
  <1>7. QED
    BY <1>2, <1>3, <1>4, <1>5, <1>6 DEF RowMove, PlainMove

\* Bars are only lifted.
BarsKept(ts, tt) == \A u \in User : tt.blockedBy[u] \in {None, ts.blockedBy[u]}

LEMMA KeptKeepsItems ==
    ASSUME NEW ts, TaskTyped(ts), NEW t \in Task, NEW act \in [ActionNo -> ActionRow],
           ItemsOf(ts, t, act), NEW tt, \A n \in VersionNo : RowMove(ts, tt, n),
           tt.versions \in {ts.versions, ts.versions + 1}, BarsKept(ts, tt),
           \/ tt.version[tt.baseline].cut = ts.version[ts.baseline].cut
           \/ \A n \in VersionNo :
                tt.version[n].lifecycle = "draft" => tt.version[n].revision # 0
    PROVE  ItemsOf(tt, t, act)
  <1> SUFFICES ASSUME NEW a \in ActionNo, act[a].before[t] # None
               PROVE  LET b == act[a].before[t]
                          f == act[a].after[t]
                          x == act[a].annotator
                      IN  /\ f \in VersionNo /\ f <= tt.versions
                          /\ tt.version[b].lifecycle \in Lasting
                          /\ tt.version[f].lifecycle = "draft" =>
                               /\ x # NoUser => tt.blockedBy[x] \in {None, a}
                               /\ tt.version[f].revision = 0 =>
                                    tt.version[b].cut = tt.version[tt.baseline].cut
    BY DEF ItemsOf
  <1> DEFINE b == act[a].before[t]
             f == act[a].after[t]
             x == act[a].annotator
  <1>1. b \in VersionNo /\ x \in User \cup {NoUser}
    BY DEF ActionRow
  <1>2. /\ f \in VersionNo /\ f <= ts.versions
        /\ ts.version[b].lifecycle \in Lasting
        /\ ts.version[f].lifecycle = "draft" =>
             /\ x # NoUser => ts.blockedBy[x] \in {None, a}
             /\ ts.version[f].revision = 0 =>
                  ts.version[b].cut = ts.version[ts.baseline].cut
    BY DEF ItemsOf
  <1>3. tt.version[b].lifecycle \in Lasting /\ tt.version[b].cut = ts.version[b].cut
    BY <1>1, <1>2, MoveKeeps DEF SameContent
  <1>4. f <= tt.versions /\ f # ts.versions + 1
    BY <1>2, RowsWith DEF VersionNo
  <1> HIDE DEF b, f, x
  <1>5. tt.version[f].lifecycle = "draft" => ts.version[f].lifecycle = "draft"
    BY <1>2, <1>4, MovePeople
  <1>6. tt.version[f].lifecycle = "draft" /\ tt.version[f].revision = 0
          => ts.version[f].revision = 0
    BY <1>2, <1>5, DraftRevision
  <1>7. x # NoUser => tt.blockedBy[x] \in {None, ts.blockedBy[x]}
    BY <1>1 DEF BarsKept
  <1>8. tt.version[f].lifecycle = "draft" /\ tt.version[f].revision = 0
          => tt.version[tt.baseline].cut = ts.version[ts.baseline].cut
    BY <1>2
  <1>9. QED
    BY <1>2, <1>3, <1>4, <1>5, <1>6, <1>7, <1>8 DEF b, f, x

\* Whom a bar would hit: the holder, the author of the result, and whoever made
\* the transcription of an open round.
Involved(ts, u) ==
    \/ ts.assignment.user = u
    \/ PublishedBy(ts, u)
    \/ \E k \in OpenRounds(ts) : ts.round[k].secondaryAnnotator = u

BarsOf(ts) == \A u \in User : Involved(ts, u) => NotBarred(ts, u)

\* The steps that publish nothing and involve nobody.
LEMMA StillInvolved ==
    ASSUME NEW ts, TaskTyped(ts), NEW tt, \A n \in VersionNo : RowMove(ts, tt, n),
           tt.current = ts.current, tt.assignment.user \in {ts.assignment.user, NoUser},
           \A k \in RoundNo : tt.round[k].state \in OpenState =>
             /\ ts.round[k].state \in OpenState
             /\ tt.round[k].secondaryAnnotator = ts.round[k].secondaryAnnotator
    PROVE  \A u \in User : Involved(tt, u) => Involved(ts, u)
  <1> SUFFICES ASSUME NEW u \in User, Involved(tt, u)
               PROVE  Involved(ts, u)
    OBVIOUS
  <1>1. u # NoUser
    BY NoUserAssumption
  <1>2. CASE tt.assignment.user = u
    BY <1>1, <1>2 DEF Involved
  <1>3. CASE PublishedBy(tt, u)
    <2>1. ts.current \in VersionNo
      BY <1>3, RowsWith DEF PublishedBy
    <2>2. tt.version[ts.current].submitter
            \in {ts.version[ts.current].submitter, NoUser, ts.assignment.user}
      BY <2>1, MovePeople
    <2>3. QED
      BY <1>1, <1>3, <2>2 DEF PublishedBy, Involved
  <1>4. CASE \E k \in OpenRounds(tt) : tt.round[k].secondaryAnnotator = u
    BY <1>4 DEF OpenRounds, Involved
  <1>5. QED
    BY <1>2, <1>3, <1>4 DEF Involved

LEMMA KeptKeepsBars ==
    ASSUME NEW ts, BarsOf(ts), NEW tt, BarsKept(ts, tt),
           \A u \in User : Involved(tt, u) => Involved(ts, u) \/ NotBarred(ts, u)
    PROVE  BarsOf(tt)
  BY DEF BarsOf, BarsKept, NotBarred

LEMMA AnnotatorInvolves ==
    ASSUME NEW ts, TaskTyped(ts), CorpusInvOf(ts), WorkInvOf(ts), NEW tt, NEW x \in User,
           AnnotatorMove(ts, tt, x)
    PROVE  \A u \in User : Involved(tt, u) => Involved(ts, u) \/ NotBarred(ts, u)
  <1> SUFFICES ASSUME NEW u \in User, Involved(tt, u)
               PROVE  Involved(ts, u) \/ NotBarred(ts, u)
    OBVIOUS
  <1>1. u # NoUser
    BY NoUserAssumption
  <1>2. ASSUME NEW d \in VersionNo, ClaimStep(ts, tt, x, d)
        PROVE  Involved(ts, u) \/ NotBarred(ts, u)
    <2>1. tt.assignment.user = x /\ NotBarred(ts, x)
      BY <1>2 DEF ClaimStep, CanClaim
    <2>2. PublishedBy(tt, u) = PublishedBy(ts, u) /\ tt.round = ts.round
      BY <1>2 DEF ClaimStep, SamePointer, SameVersions, SameRounds, PublishedBy
    <2>3. QED
      BY <2>1, <2>2 DEF Involved, OpenRounds
  <1>3. CASE CrossCheckStep(ts, tt, x)
    <2>1. /\ tt.assignment.user = x /\ NotBarred(ts, x)
          /\ tt.current = ts.current /\ ts.version[ts.current].lifecycle = "published"
          /\ \A n \in VersionNo :
                tt.version[n] = IF n = ts.versions + 1 THEN BlindDraft(ts) ELSE ts.version[n]
          /\ \A k \in RoundNo :
                tt.round[k] = IF k = ts.rounds + 1 THEN StartedRound(ts, x) ELSE ts.round[k]
      BY <1>3 DEF CrossCheckStep, CanCrossCheck, SamePointer
    <2>2. PublishedBy(tt, u) => PublishedBy(ts, u)
      <3>1. ts.current # None => ts.current \in VersionNo /\ ts.current # ts.versions + 1
        BY <2>1, NewNumber, RowsWith
      <3>2. QED
        BY <2>1, <3>1 DEF PublishedBy
    <2>3. \A k \in OpenRounds(tt) :
            tt.round[k].secondaryAnnotator = x \/ (k \in OpenRounds(ts) /\ tt.round[k] = ts.round[k])
      BY <2>1, StartedRoundRow DEF OpenRounds
    <2>4. QED
      BY <2>1, <2>2, <2>3 DEF Involved
  <1>4. CASE ReopenStep(ts, tt, x)
    <2>1. /\ tt.assignment.user = x /\ PublishedBy(ts, x) /\ tt.round = ts.round
          /\ tt.current = ts.current /\ ts.version[ts.current].lifecycle = "published"
          /\ \A n \in VersionNo :
                tt.version[n] = IF n = ts.versions + 1 THEN CorrectionRow(ts) ELSE ts.version[n]
      BY <1>4, RowsWith DEF ReopenStep, CanReopen, SamePointer, SameRounds, PublishedBy, CorpusInvOf,
                  CorpusPointerOf, VersionsIn
    <2>2. PublishedBy(tt, u) => PublishedBy(ts, u)
      <3>1. ts.current \in VersionNo /\ ts.current # ts.versions + 1
        BY <2>1, NewNumber, RowsWith DEF PublishedBy
      <3>2. QED
        BY <2>1, <3>1 DEF PublishedBy
    <2>3. QED
      BY <2>1, <2>2 DEF Involved, OpenRounds
  <1>5. CASE SaveStep(ts, tt, x)
    <2>1. \A n \in VersionNo : RowMove(ts, tt, n)
      BY <1>5, SaveRows DEF RowMove
    <2>2. QED
      BY <1>5, <2>1, StillInvolved DEF SaveStep, SamePointer, SameRounds
  <1>6. ASSUME NEW o \in Outcome, CompleteStep(ts, tt, x, o)
        PROVE  Involved(ts, u) \/ NotBarred(ts, u)
    <2>1. /\ ts.assignment.user = x /\ Assigned(ts) /\ tt.current = ts.assignment.version
          /\ tt.assignment = NoAssignment /\ tt.round = ts.round
          /\ \A n \in VersionNo :
                tt.version[n] = IF n = ts.assignment.version
                                THEN Submitted(ts.version[n], x, "published", o)
                                ELSE SupersedeIfPublished(ts.version[n])
      BY <1>6, NoUserAssumption DEF CompleteStep, CanComplete, SameRounds, Assigned
    <2>2. ts.assignment.version \in VersionNo
      BY <2>1, HeldDraft
    <2>3. tt.version[tt.current].submitter = x
      BY <2>1, <2>2, SubmittedRow, RowsWith
    <2>4. NoAssignment.user = NoUser
      BY DEF NoAssignment
    <2>5. QED
      BY <1>1, <2>1, <2>3, <2>4 DEF Involved, PublishedBy, OpenRounds
  <1>7. ASSUME NEW s \in SubmissionRow, FreezeStep(ts, tt, x, s, s.outcome, s.needsReview)
        PROVE  Involved(ts, u) \/ NotBarred(ts, u)
    <2>1. \A n \in VersionNo : RowMove(ts, tt, n)
      BY <1>7, FreezeRows DEF RowMove, SubmissionRow
    <2>2. \A k \in RoundNo :
            /\ tt.round[k].secondaryAnnotator = ts.round[k].secondaryAnnotator
            /\ tt.round[k] = ts.round[k] \/ ts.round[k].state = "in_progress"
      BY <1>7, RoundRows, RowsWith DEF FreezeStep, CanFreeze, InProgress, SamePair
    <2>3. tt.assignment.user = NoUser /\ tt.current = ts.current
      BY <1>7 DEF FreezeStep, NoAssignment, SamePointer
    <2>4. QED
      BY <2>1, <2>2, <2>3, StillInvolved DEF OpenState
  <1>8. QED
    BY <1>2, <1>3, <1>4, <1>5, <1>6, <1>7 DEF AnnotatorMove

LEMMA ClosedInvolves ==
    ASSUME NEW ts, TaskTyped(ts), NEW tt, \A n \in VersionNo : RowMove(ts, tt, n),
           RoundsClosed(ts, tt), tt.current = ts.current,
           tt.assignment \in {ts.assignment, NoAssignment}
    PROVE  \A u \in User : Involved(tt, u) => Involved(ts, u)
  <1>1. \A k \in RoundNo : tt.round[k].state \in OpenState => tt.round[k] = ts.round[k]
    BY RoundRows, RowsWith DEF RoundsClosed, OpenState
  <1>2. tt.assignment.user \in {ts.assignment.user, NoUser}
    BY DEF NoAssignment
  <1>3. QED
    BY <1>1, <1>2, StillInvolved

LEMMA DecisionInvolves ==
    ASSUME NEW ts, TaskTyped(ts), CorpusInvOf(ts), EvidenceInvOf(ts), NEW tt, NEW k \in RoundNo,
           DecisionMove(ts, tt, k)
    PROVE  \A u \in User : Involved(tt, u) => Involved(ts, u)
  <1> SUFFICES ASSUME NEW u \in User, Involved(tt, u)
               PROVE  Involved(ts, u)
    OBVIOUS
  <1>1. u # NoUser
    BY NoUserAssumption
  <1>2. PICK d, f : DecideStep(ts, tt, k, d, f)
    BY DEF DecisionMove, KeepStep, SecondStep, EditStep
  <1>3. /\ tt.assignment = ts.assignment /\ ts.round[k].state = "awaiting_review"
        /\ \A j \in RoundNo : tt.round[j].state \in OpenState => tt.round[j] = ts.round[j]
    <2>1. DecidedRound(ts.round[k], d, f).state = "adjudicated"
      BY RoundRows, RowsWith
    <2>2. QED
      BY <1>2, <2>1 DEF DecideStep, CanDecide, OpenState
  <1>4. PublishedBy(tt, u) => Involved(ts, u)
    <2>1. CASE KeepStep(ts, tt, k)
      BY <2>1 DEF KeepStep, DecideStep, SameVersions, PublishedBy, Involved
    <2>2. CASE SecondStep(ts, tt, k)
      <3> DEFINE second == ts.round[k].secondary
      <3>1. /\ k \in OpenRounds(ts) /\ second \in VersionNo
            /\ ts.version[second].submitter = ts.round[k].secondaryAnnotator
        BY <1>3 DEF EvidenceInvOf, RoundEvidence, Judged, OpenRounds, OpenState
      <3>2. tt.current = second /\ tt.version[second] = InState(ts.version[second], "published")
        BY <2>2, <3>1 DEF SecondStep, DecideStep
      <3>3. tt.version[second].submitter = ts.round[k].secondaryAnnotator
        BY <3>1, <3>2, InStateRow, RowsWith DEF SameContent
      <3>4. QED
        BY <3>1, <3>2, <3>3 DEF PublishedBy, Involved
    <2>3. ASSUME NEW base \in VersionNo, NEW o \in Outcome, EditStep(ts, tt, k, base, o)
          PROVE  ~ PublishedBy(tt, u)
      <3>1. tt.current = ts.versions + 1 /\ ts.versions + 1 \in VersionNo
        BY <2>3, NextVersionNo DEF EditStep, DecideStep
      <3>2. tt.version[ts.versions + 1] = AdminEdit(ts, base, o)
        BY <2>3, <3>1 DEF EditStep
      <3>3. AdminEdit(ts, base, o).submitter = NoUser
        BY NewRows
      <3>4. QED
        BY <1>1, <3>1, <3>2, <3>3 DEF PublishedBy
    <2>4. QED
      BY <2>1, <2>2, <2>3 DEF DecisionMove
  <1>5. QED
    BY <1>3, <1>4 DEF Involved, OpenRounds

\* What is live was made from the segmentation there is, nobody involved is
\* barred, and what was withdrawn can be put back without breaking either.
StandOf(ts, t, act) == CutsAgreeIn(ts) /\ BarsOf(ts) /\ ItemsOf(ts, t, act)

\* The frame of every step that neither withdraws nor restores a result.
LEMMA KeptKeepsStand ==
    ASSUME NEW ts, TaskTyped(ts), WorkInvOf(ts), NEW t \in Task,
           NEW act \in [ActionNo -> ActionRow], StandOf(ts, t, act), NEW tt,
           \A n \in VersionNo : RowMove(ts, tt, n), CutsKept(ts, tt),
           tt.versions \in {ts.versions, ts.versions + 1}, tt.blockedBy = ts.blockedBy,
           \A u \in User : Involved(tt, u) => Involved(ts, u) \/ NotBarred(ts, u)
    PROVE  StandOf(tt, t, act)
  <1>1. BarsKept(ts, tt)
    BY DEF BarsKept
  <1>2. CutsAgreeIn(tt) /\ tt.version[tt.baseline].cut = ts.version[ts.baseline].cut
    BY KeptKeepsCuts DEF StandOf
  <1>3. ItemsOf(tt, t, act)
    BY <1>1, <1>2, KeptKeepsItems DEF StandOf
  <1>4. BarsOf(tt)
    BY <1>1, KeptKeepsBars DEF StandOf
  <1>5. QED
    BY <1>2, <1>3, <1>4 DEF StandOf

LEMMA AnnotatorKeepsStand ==
    ASSUME NEW ts, TaskTyped(ts), CorpusInvOf(ts), WorkInvOf(ts), NEW t \in Task,
           NEW act \in [ActionNo -> ActionRow], StandOf(ts, t, act), NEW tt, NEW u \in User,
           AnnotatorMove(ts, tt, u)
    PROVE  StandOf(tt, t, act)
  <1>1. \A n \in VersionNo : RowMove(ts, tt, n)
    BY ClaimRows, CrossCheckRows, ReopenRows, SaveRows, CompleteRows, FreezeRows
       DEF AnnotatorMove, SubmissionRow, RowMove
  <1>2. tt.versions \in {ts.versions, ts.versions + 1} /\ tt.blockedBy = ts.blockedBy
    BY DEF AnnotatorMove, ClaimStep, CrossCheckStep, ReopenStep, SaveStep, CompleteStep,
           FreezeStep, SamePeople, SameVersions
  <1>3. QED
    BY <1>1, <1>2, AnnotatorCuts, AnnotatorInvolves, KeptKeepsStand

LEMMA LettingGoKeepsStand ==
    ASSUME NEW ts, TaskTyped(ts), CorpusInvOf(ts), WorkInvOf(ts), NEW t \in Task,
           NEW act \in [ActionNo -> ActionRow], StandOf(ts, t, act), NEW tt,
           \/ AbandonStep(ts, tt) \/ ReleaseStep(ts, tt) \/ ReserveStep(ts, tt)
           \/ \E k \in RoundNo : CancelStep(ts, tt, k)
    PROVE  StandOf(tt, t, act)
  <1>1. PlainStep(ts, tt)
    BY AbandonPlain, ReleasePlain, ReservePlain, CancelPlain
  <1>2. /\ tt.versions \in {ts.versions, ts.versions + 1} /\ tt.blockedBy = ts.blockedBy
        /\ tt.current = ts.current /\ tt.assignment \in {ts.assignment, NoAssignment}
    BY DEF AbandonStep, ReleaseStep, ReserveStep, CancelStep, SamePeople, SameVersions, SamePointer
  <1>3. \A n \in VersionNo : RowMove(ts, tt, n)
    BY <1>1 DEF PlainStep, RowMove
  <1>4. \A u \in User : Involved(tt, u) => Involved(ts, u)
    BY <1>1, <1>2, <1>3, ClosedInvolves DEF PlainStep
  <1>5. CutsKept(ts, tt)
    BY AdminCuts
  <1>6. QED
    BY <1>2, <1>3, <1>4, <1>5, KeptKeepsStand

LEMMA DecisionKeepsStand ==
    ASSUME NEW ts, TaskTyped(ts), CorpusInvOf(ts), WorkInvOf(ts), EvidenceInvOf(ts),
           NEW t \in Task, NEW act \in [ActionNo -> ActionRow], StandOf(ts, t, act), NEW tt,
           NEW k \in RoundNo, DecisionMove(ts, tt, k)
    PROVE  StandOf(tt, t, act)
  <1>1. \A n \in VersionNo : RowMove(ts, tt, n)
    BY KeepRows, SecondRows, EditRows DEF DecisionMove, RowMove
  <1>2. tt.versions \in {ts.versions, ts.versions + 1} /\ tt.blockedBy = ts.blockedBy
    BY DEF DecisionMove, KeepStep, SecondStep, EditStep, DecideStep, SamePeople, SameVersions
  <1>3. QED
    BY <1>1, <1>2, DecisionCuts, DecisionInvolves, KeptKeepsStand

LEMMA RefreshKeepsStand ==
    ASSUME NEW ts, TaskTyped(ts), CorpusInvOf(ts), WorkInvOf(ts), NEW t \in Task,
           NEW act \in [ActionNo -> ActionRow], StandOf(ts, t, act), NEW tt, RefreshStep(ts, tt)
    PROVE  StandOf(tt, t, act)
  <1>1. PlainStep(ts, tt)
    BY RefreshPlain
  <1>2. \A n \in VersionNo : RowMove(ts, tt, n)
    BY <1>1 DEF PlainStep, RowMove
  <1>3. /\ tt.versions = ts.versions /\ tt.blockedBy = ts.blockedBy
        /\ tt.current = ts.current /\ tt.assignment = ts.assignment
    BY DEF RefreshStep, SamePeople, SamePointer
  <1>4. BarsKept(ts, tt)
    BY <1>3 DEF BarsKept
  <1>5. \A u \in User : Involved(tt, u) => Involved(ts, u)
    BY <1>1, <1>2, <1>3, ClosedInvolves DEF PlainStep
  <1>6. ASSUME NEW n \in VersionNo, tt.version[n].lifecycle = "draft"
        PROVE  tt.version[n].revision # 0
    <2> DEFINE c == ts.version[ts.baseline].cut + 1
               v == ts.version[n]
    <2>1. v \in VersionRow /\ v.revision \in Nat
      BY RowsWith DEF VersionRow
    <2>2. tt.version[n] = IF n \in Drafts(ts) THEN Recut(v, c, 1)
                          ELSE IF n = ts.baseline THEN Recut(v, c, 0) ELSE v
      BY DEF RefreshStep
    <2> HIDE DEF c
    <2>3. n \in Drafts(ts)
      BY <1>6, <2>1, <2>2, RecutRow DEF Drafts, VersionsIn
    <2>4. tt.version[n].revision = v.revision + 1
      BY <2>1, <2>2, <2>3, RecutRow
    <2>5. QED
      BY <2>1, <2>4
  <1>7. ItemsOf(tt, t, act)
    BY <1>2, <1>3, <1>4, <1>6, KeptKeepsItems DEF StandOf
  <1>8. BarsOf(tt)
    BY <1>4, <1>5, KeptKeepsBars DEF StandOf
  <1>9. QED
    BY <1>7, <1>8, RefreshKeepsCuts DEF StandOf

\* What a restore puts back is about the segmentation there is, and the bar of
\* its author goes with it.
LEMMA RestoreKeepsStand ==
    ASSUME NEW ts, TaskTyped(ts), WorkInvOf(ts), NEW t \in Task,
           NEW act \in [ActionNo -> ActionRow], StandOf(ts, t, act), NEW tt, NEW a \in ActionNo,
           act[a].before[t] # None,
           RestoreStep(ts, tt, a, act[a].annotator, act[a].before[t], act[a].after[t])
    PROVE  StandOf(tt, t, act)
  <1> DEFINE b == act[a].before[t]
             f == act[a].after[t]
             x == act[a].annotator
             base == ts.version[ts.baseline]
  <1>1. b \in VersionNo /\ x \in User \cup {NoUser}
    BY DEF ActionRow
  <1>2. /\ ts.version[b].lifecycle = "revoked"
        /\ ts.version[f].lifecycle = "draft" /\ ts.version[f].revision = 0
        /\ ~ Assigned(ts) /\ OpenRounds(ts) = {} /\ tt.current = b
        /\ tt.round = ts.round /\ tt.assignment = ts.assignment
        /\ tt.versions = ts.versions /\ tt.baseline = ts.baseline
        /\ tt.blockedBy = BarsWithout(ts, a, x)
        /\ \A n \in VersionNo :
              tt.version[n] = IF n = b THEN Reinstated(ts.version[n])
                              ELSE IF n = f THEN InState(ts.version[n], "abandoned")
                              ELSE ts.version[n]
    BY DEF RestoreStep, CanRestore, Untouched, SameRounds
  <1>3. /\ f \in VersionNo /\ ts.version[b].cut = base.cut
        /\ x # NoUser => ts.blockedBy[x] \in {None, a}
    BY <1>2 DEF StandOf, ItemsOf
  <1>4. ts.version[b].submitter = x \/ (x = NoUser /\ ts.version[b].submitter \notin User)
    BY NoUserAssumption DEF RestoreStep, CanRestore, AdminEdited
  <1>5. BarsKept(ts, tt)
    BY <1>2 DEF BarsKept, BarsWithout
  <1>6. ts.baseline \in VersionNo /\ base.lifecycle = "baseline"
    BY RowsWith DEF WorkInvOf
  <1>7. tt.version[tt.baseline] = base
    BY <1>2, <1>6
  <1>8. tt.version[b].cut = ts.version[b].cut /\ tt.version[b].submitter = ts.version[b].submitter
    BY <1>1, <1>2, ReinstatedRow, RowsWith DEF SameContent
  <1>9. tt.version[f].lifecycle = "abandoned"
    BY <1>2, <1>3, InStateRow, RowsWith
  <1> HIDE DEF b, f, x, base
  <1>10. CutsAgreeIn(tt)
    <2>1. ASSUME NEW n \in VersionNo, Live(tt.version[n])
          PROVE  tt.version[n].cut = base.cut
      <3>1. CASE n = b
        BY <1>3, <1>8, <3>1
      <3>2. CASE n # b
        <4>1. n # f
          BY <1>9, <2>1 DEF Live
        <4>2. tt.version[n] = ts.version[n]
          BY <1>2, <3>2, <4>1
        <4>3. QED
          BY <2>1, <4>2 DEF StandOf, CutsAgreeIn, VersionsIn, Live, base
      <3>3. QED
        BY <3>1, <3>2
    <2>2. QED
      BY <1>7, <2>1 DEF CutsAgreeIn, VersionsIn, Live
  <1>11. ItemsOf(tt, t, act)
    <2>1. \A n \in VersionNo : RowMove(ts, tt, n)
      BY RestoreRows DEF RowMove
    <2>2. QED
      BY <1>2, <1>5, <1>7, <2>1, KeptKeepsItems DEF StandOf, base
  <1>12. BarsOf(tt)
    <2>1. ASSUME NEW u \in User, Involved(tt, u)
          PROVE  NotBarred(tt, u)
      <3>1. u # NoUser /\ tt.assignment.user # u
        BY <1>2, <2>1, NoUserAssumption DEF Assigned
      <3>2. PublishedBy(tt, u)
        BY <1>2, <2>1, <3>1 DEF Involved, OpenRounds
      <3>3. u = x
        BY <1>2, <1>4, <1>8, <3>1, <3>2 DEF PublishedBy
      <3>4. ts.blockedBy[u] \in {None, a}
        BY <1>3, <3>1, <3>3
      <3>5. QED
        BY <1>2, <3>3, <3>4 DEF BarsWithout, NotBarred
    <2>2. QED
      BY <2>1 DEF BarsOf
  <1>13. QED
    BY <1>10, <1>11, <1>12 DEF StandOf

\* An admin action that withdraws nothing of a task adds no item to it ...
LEMMA RecordKeepsStand ==
    ASSUME NEW ts, NEW t, NEW act, StandOf(ts, t, act), NEW new, NEW a \in ActionNo,
           \A b \in ActionNo : b # a => new[b] = act[b], new[a].before[t] = None
    PROVE  StandOf(ts, t, new)
  BY DEF StandOf, ItemsOf

\* ... and one that does leaves its own clean draft, and no other.
LEMMA RevokeKeepsStand ==
    ASSUME NEW ts, TaskTyped(ts), CorpusInvOf(ts), WorkInvOf(ts), NEW t \in Task,
           NEW act \in [ActionNo -> ActionRow], StandOf(ts, t, act), NEW tt,
           NEW author \in User \cup {NoUser}, NEW a \in ActionNo, NEW block,
           RevokeStep(ts, tt, author, a, block),
           NEW new, \A b \in ActionNo : b # a => new[b] = act[b], new[a].annotator = author,
           new[a].before[t] = ts.current, new[a].after[t] = tt.versions
    PROVE  StandOf(tt, t, new)
  <1> DEFINE b == ts.current
             d == ts.versions + 1
  <1>1. /\ b \in VersionNo /\ b # None /\ ts.version[b].lifecycle = "published"
        /\ ts.version[b].submitter = author
        /\ tt.current = None /\ tt.assignment = NoAssignment /\ tt.versions = d
        /\ tt.baseline = ts.baseline
        /\ \A n \in VersionNo :
              tt.version[n] = IF n = d THEN CleanRow(ts)
                              ELSE IF n = b THEN RevokedRow(ts.version[n], a)
                              ELSE AbandonIfDraft(ts.version[n])
        /\ \A k \in RoundNo :
              tt.round[k] = IF k \in OpenRounds(ts) THEN RoundInState(ts.round[k], "invalidated")
                                                    ELSE ts.round[k]
        /\ tt.blockedBy = IF block /\ author # NoUser THEN [ts.blockedBy EXCEPT ![author] = a]
                                                      ELSE ts.blockedBy
    BY RowsWith DEF RevokeStep
  <1>2. d \in VersionNo
    BY NextVersionNo DEF RevokeStep
  <1>3. b # d
    BY <1>1, <1>2, NewNumber
  <1>4. ts.versions \in Nat /\ \A n \in VersionNo : n <= ts.versions => n # d /\ n <= d
    BY RowsWith DEF VersionNo
  <1>5. CutsAgreeIn(tt) /\ tt.version[tt.baseline].cut = ts.version[ts.baseline].cut
    BY AdminCuts, KeptKeepsCuts DEF StandOf
  <1>6. \A n \in VersionNo : RowMove(ts, tt, n)
    BY RevokeRows DEF RowMove
  <1>7. ASSUME NEW n \in VersionNo, n # d
        PROVE  tt.version[n].lifecycle # "draft"
    <2>1. RevokedRow(ts.version[n], a).lifecycle # "draft"
      BY RevokedRowRow, RowsWith
    <2>2. AbandonIfDraft(ts.version[n]).lifecycle # "draft"
      BY AbandonIfDraftRow, RowsWith
    <2>3. QED
      BY <1>1, <1>7, <2>1, <2>2
  <1>8. tt.version[b].lifecycle = "revoked" /\ tt.version[b].cut = ts.version[b].cut
    BY <1>1, <1>3, RevokedRowRow, RowsWith DEF SameContent
  <1> HIDE DEF b, d
  <1>9. ts.version[b].cut = ts.version[ts.baseline].cut
    BY <1>1 DEF StandOf, CutsAgreeIn, VersionsIn
  <1>10. author # NoUser => tt.blockedBy[author] \in {None, a}
    <2>1. author # NoUser => ts.blockedBy[author] = None
      BY <1>1 DEF StandOf, BarsOf, Involved, PublishedBy, NotBarred, b
    <2>2. ts.blockedBy \in [User -> {None} \cup ActionNo]
      BY RowsWith
    <2>3. QED
      BY <1>1, <2>1, <2>2
  <1>11. ItemsOf(tt, t, new)
    <2>1. ASSUME NEW c \in ActionNo, c # a, new[c].before[t] # None
          PROVE  /\ new[c].after[t] \in VersionNo /\ new[c].after[t] <= tt.versions
                 /\ tt.version[new[c].before[t]].lifecycle \in Lasting
                 /\ tt.version[new[c].after[t]].lifecycle # "draft"
      <3> DEFINE p == act[c].before[t]
                 f == act[c].after[t]
      <3>1. new[c].before[t] = p /\ new[c].after[t] = f /\ p \in VersionNo
        BY <2>1 DEF ActionRow
      <3>2. f \in VersionNo /\ f <= ts.versions /\ ts.version[p].lifecycle \in Lasting
        BY <2>1, <3>1 DEF StandOf, ItemsOf
      <3> HIDE DEF p, f
      <3>3. tt.version[p].lifecycle \in Lasting
        BY <1>6, <3>1, <3>2, LastingKept
      <3>4. tt.version[f].lifecycle # "draft" /\ f <= tt.versions
        BY <1>1, <1>4, <1>7, <3>2
      <3>5. QED
        BY <3>1, <3>2, <3>3, <3>4
    <2>2. /\ new[a].before[t] = b /\ new[a].after[t] = d /\ d <= tt.versions
      BY <1>1, <1>4 DEF b, d
    <2>3. tt.version[b].lifecycle \in Lasting
      BY <1>8 DEF Lasting
    <2>4. tt.version[b].cut = tt.version[tt.baseline].cut
      BY <1>5, <1>8, <1>9
    <2>5. QED
      BY <1>2, <1>10, <2>1, <2>2, <2>3, <2>4 DEF ItemsOf
  <1>12. BarsOf(tt)
    <2>1. OpenRounds(tt) = {}
      <3>1. \A k \in RoundNo : RoundInState(ts.round[k], "invalidated").state \notin OpenState
        BY RoundRows, RowsWith DEF OpenState
      <3>2. QED
        BY <1>1, <3>1 DEF OpenRounds
    <2>2. \A u \in User : ~ Involved(tt, u)
      BY <1>1, <2>1, NoUserAssumption DEF Involved, PublishedBy, NoAssignment
    <2>3. QED
      BY <2>2 DEF BarsOf
  <1>13. QED
    BY <1>5, <1>11, <1>12 DEF StandOf

LEMMA QuietKeepsStand ==
    ASSUME NEW t \in Task, NEW ts, TaskTyped(ts), CorpusInvOf(ts), WorkInvOf(ts),
           EvidenceInvOf(ts), action \in [ActionNo -> ActionRow], StandOf(ts, t, action),
           NEW tt, QuietMove(t, ts, tt)
    PROVE  StandOf(tt, t, action)
  <1>1. ASSUME NEW a \in ActionNo, RestoreMove(t, ts, tt, a)
        PROVE  StandOf(tt, t, action)
    BY <1>1, RestoreKeepsStand DEF RestoreMove
  <1>2. ASSUME NEW k \in RoundNo, DecisionMove(ts, tt, k)
        PROVE  StandOf(tt, t, action)
    BY <1>2, DecisionKeepsStand
  <1>3. ASSUME NEW u \in User, AnnotatorMove(ts, tt, u)
        PROVE  StandOf(tt, t, action)
    BY <1>3, AnnotatorKeepsStand
  <1>4. CASE \/ AbandonStep(ts, tt) \/ ReleaseStep(ts, tt)
             \/ \E k \in RoundNo : CancelStep(ts, tt, k)
    BY <1>4, LettingGoKeepsStand
  <1>5. CASE RefreshStep(ts, tt)
    BY <1>5, RefreshKeepsStand
  <1>6. QED
    BY <1>1, <1>2, <1>3, <1>4, <1>5 DEF QuietMove

LEMMA MovedKeepsStand ==
    ASSUME EvidenceInv, NEW t \in Task, Moved(t), StandOf(task[t], t, action)
    PROVE  StandOf(task'[t], t, action')
  <1> DEFINE ts == task[t]
             tt == task'[t]
             a  == actions + 1
  <1>1. /\ TaskTyped(ts) /\ CorpusInvOf(ts) /\ WorkInvOf(ts) /\ EvidenceInvOf(ts)
        /\ action \in [ActionNo -> ActionRow]
    BY DEF EvidenceInv, WorkInv, CorpusInv, TypeOK
  <1>2. CASE UNCHANGED <<annotator, actions, action>> /\ QuietMove(t, ts, tt)
    <2>1. StandOf(tt, t, action)
      BY <1>1, <1>2, QuietKeepsStand
    <2>2. QED
      BY <1>2, <2>1
  <1>3. ASSUME NEW u, RecordedFor(t, u)
        PROVE  /\ a \in ActionNo /\ \A b \in ActionNo : b # a => action'[b] = action[b]
               /\ action'[a].annotator = u
               /\ ~ Withdrew(ts, tt) => action'[a].before[t] = None
               /\ Withdrew(ts, tt) => /\ action'[a].before[t] = ts.current
                                      /\ action'[a].after[t] = tt.versions
    BY <1>3 DEF RecordedFor
  <1>4. ASSUME NEW author \in User \cup {NoUser}, NEW block, RecordedFor(t, author),
               RevokeStep(ts, tt, author, a, block)
        PROVE  StandOf(tt, t, action')
    <2>1. Withdrew(ts, tt)
      BY <1>4 DEF Withdrew, RevokeStep
    <2> HIDE DEF ts, tt, a
    <2>2. QED
      BY <1>1, <1>3, <1>4, <2>1, RevokeKeepsStand DEF ts
  <1>5. ASSUME NEW author, RecordedFor(t, author), tt = ts
        PROVE  StandOf(tt, t, action')
    <2>1. ~ Withdrew(ts, tt)
      BY <1>5 DEF Withdrew
    <2>2. QED
      BY <1>3, <1>5, <2>1, RecordKeepsStand
  <1>6. ASSUME NEW u \in User, RecordedFor(t, u), OffboardStep(ts, tt, u, a)
        PROVE  StandOf(tt, t, action')
    <2>1. PICK free \in TaskRow :
            /\ TaskTyped(free) /\ CorpusInvOf(free)
            /\ ReleaseStep(ts, free) \/ ReserveStep(ts, free)
            /\ IF PublishedBy(free, u) THEN RevokeStep(free, tt, u, a, TRUE) ELSE tt = free
      BY <1>6 DEF OffboardStep
    <2>2. free.current = ts.current
      BY <2>1 DEF ReleaseStep, ReserveStep, SamePointer
    <2>3. WorkInvOf(free)
      BY <1>1, <2>1, ReleaseKeepsWork, ReserveKeepsWork
    <2>4. StandOf(free, t, action)
      BY <1>1, <2>1, LettingGoKeepsStand
    <2>5. CASE tt = free
      <3>1. ~ Withdrew(ts, tt)
        BY <2>2, <2>5 DEF Withdrew
      <3>2. QED
        BY <1>3, <1>6, <2>4, <2>5, <3>1, RecordKeepsStand
    <2>6. CASE RevokeStep(free, tt, u, a, TRUE)
      <3>1. Withdrew(ts, tt)
        BY <2>2, <2>6 DEF Withdrew, RevokeStep
      <3>2. /\ a \in ActionNo /\ \A b \in ActionNo : b # a => action'[b] = action[b]
            /\ action'[a].annotator = u /\ action'[a].before[t] = free.current
            /\ action'[a].after[t] = tt.versions
        BY <1>3, <1>6, <2>2, <3>1
      <3> HIDE DEF ts, tt, a
      <3>3. QED
        BY <1>1, <2>1, <2>3, <2>4, <2>6, <3>2, RevokeKeepsStand
    <2>7. QED
      BY <2>1, <2>5, <2>6
  <1>7. QED
    BY <1>2, <1>4, <1>5, <1>6 DEF Moved

LEMMA FreshStand ==
    ASSUME NEW ts, FreshTask(ts), NEW t \in Task
    PROVE  StandOf(ts, t, [a \in ActionNo |-> NoActionRow])
  <1>1. PICK w \in VersionNo : FreshVersions(ts, w) /\ FreshRest(ts)
    BY DEF FreshTask
  <1>2. ts.baseline \in VersionNo
    BY <1>1, BoundsAssumption DEF FreshVersions, VersionNo
  <1>3. CutsAgreeIn(ts)
    BY <1>1, <1>2 DEF FreshVersions, CutsAgreeIn, VersionsIn
  <1>4. BarsOf(ts)
    BY <1>1 DEF FreshRest, BarsOf, NotBarred
  <1>5. QED
    BY <1>3, <1>4 DEF StandOf, ItemsOf, NoActionRow, NoItems

\* EvidenceInv, and that what is live, involved or withdrawn stands.
StandInv == EvidenceInv /\ \A t \in Task : StandOf(task[t], t, action)

\* Nothing that is live was made from another segmentation than the task has,
\* nobody involved is barred, and what was withdrawn can be put back safely.
THEOREM StandInvHolds == Spec => []StandInv
  <1> DEFINE Stand == \A t \in Task : StandOf(task[t], t, action)
  <1>1. Init => Stand
    BY InitFresh, FreshStand DEF Init
  <1>2. EvidenceInv /\ Stand /\ [Next]_vars => Stand'
    BY TaskMoves, MovedKeepsStand DEF EvidenceInv
  <1>3. StandInv <=> EvidenceInv /\ Stand
    BY DEF StandInv
  <1> HIDE DEF Stand
  <1>4. QED
    BY <1>1, <1>2, <1>3, EvidenceInvHolds, PTL DEF Spec

\* Published results, frozen transcriptions and drafts are about the machine
\* segmentation the task has now (CutsAgree).
THEOREM CutsAgreeHolds == Spec => []CutsAgree
  <1>1. StandInv => CutsAgree
    BY DEF StandInv, StandOf, CutsAgree
  <1>2. QED
    BY <1>1, StandInvHolds, PTL

-----------------------------------------------------------------------------
(* Bars and deactivated annotators                                         *)

\* Nothing is held by or waits for an annotator who is not active.
IdleOf(ts, status) ==
    \A u \in User : status[u] # "active" => ts.assignment.user # u /\ ts.reserved # u

\* No step but an annotator's makes somebody the holder, and none reserves.
LEMMA SameHolderIdle ==
    ASSUME NEW ts, NEW status, IdleOf(ts, status), NEW tt,
           tt.assignment \in {ts.assignment, NoAssignment}, tt.reserved \in {ts.reserved, NoUser}
    PROVE  IdleOf(tt, status)
  BY NoUserAssumption DEF IdleOf, NoAssignment

LEMMA AnnotatorKeepsIdle ==
    ASSUME NEW ts, NEW status, IdleOf(ts, status), NEW tt, NEW v \in User, status[v] = "active",
           AnnotatorMove(ts, tt, v)
    PROVE  IdleOf(tt, status)
  <1>1. tt.reserved \in {ts.reserved, NoUser}
    BY DEF AnnotatorMove, ClaimStep, CrossCheckStep, ReopenStep, SaveStep, CompleteStep, FreezeStep
  <1>2. CASE SaveStep(ts, tt, v)
    BY <1>1, <1>2, SameHolderIdle DEF SaveStep
  <1>3. CASE \/ \E o \in Outcome : CompleteStep(ts, tt, v, o)
             \/ \E s \in SubmissionRow : FreezeStep(ts, tt, v, s, s.outcome, s.needsReview)
    BY <1>1, <1>3, SameHolderIdle DEF CompleteStep, FreezeStep
  <1>4. CASE \/ \E d \in VersionNo : ClaimStep(ts, tt, v, d)
             \/ CrossCheckStep(ts, tt, v) \/ ReopenStep(ts, tt, v)
    <2>1. (\E d \in VersionNo : ClaimStep(ts, tt, v, d)) => tt.assignment.user = v
      BY DEF ClaimStep
    <2>2. CrossCheckStep(ts, tt, v) => tt.assignment.user = v
      BY DEF CrossCheckStep
    <2>3. ReopenStep(ts, tt, v) => tt.assignment.user = v
      BY DEF ReopenStep
    <2>4. QED
      BY <1>1, <1>4, <2>1, <2>2, <2>3, NoUserAssumption DEF IdleOf
  <1>5. QED
    BY <1>2, <1>3, <1>4 DEF AnnotatorMove

LEMMA MovedKeepsIdle ==
    ASSUME WorkInv, NEW t \in Task, Moved(t), IdleOf(task[t], annotator)
    PROVE  IdleOf(task'[t], annotator')
  <1> DEFINE ts == task[t]
             tt == task'[t]
  <1>1. ASSUME NEW author, NEW a, NEW block, RevokeStep(ts, tt, author, a, block)
        PROVE  IdleOf(tt, annotator)
    BY <1>1, SameHolderIdle DEF RevokeStep
  <1>2. CASE UNCHANGED annotator /\ QuietMove(t, ts, tt)
    <2>1. ASSUME NEW v \in User, Active(v), AnnotatorMove(ts, tt, v)
          PROVE  IdleOf(tt, annotator)
      BY <2>1, AnnotatorKeepsIdle DEF Active
    <2>2. ASSUME \/ tt = ts \/ AbandonStep(ts, tt) \/ RefreshStep(ts, tt) \/ ReleaseStep(ts, tt)
                 \/ \E a \in ActionNo : RestoreMove(t, ts, tt, a)
                 \/ \E k \in RoundNo : DecisionMove(ts, tt, k) \/ CancelStep(ts, tt, k)
          PROVE  IdleOf(tt, annotator)
      <3>1. tt.assignment \in {ts.assignment, NoAssignment} /\ tt.reserved \in {ts.reserved, NoUser}
        BY <2>2 DEF AbandonStep, RefreshStep, ReleaseStep, RestoreMove, RestoreStep, DecisionMove,
                    KeepStep, SecondStep, EditStep, DecideStep, CancelStep
      <3>2. QED
        BY <3>1, SameHolderIdle
    <2>3. IdleOf(tt, annotator)
      BY <1>2, <2>1, <2>2 DEF QuietMove
    <2>4. QED
      BY <1>2, <2>3
  <1>3. CASE /\ UNCHANGED annotator
             /\ tt = ts \/ \E author, block : RevokeStep(ts, tt, author, actions + 1, block)
    <2>1. IdleOf(tt, annotator)
      BY <1>1, <1>3
    <2>2. QED
      BY <1>3, <2>1
  <1>4. ASSUME NEW u \in User, annotator' = [annotator EXCEPT ![u] = "deactivated"],
               OffboardStep(ts, tt, u, actions + 1)
        PROVE  IdleOf(tt, annotator')
    <2>1. PICK free \in TaskRow :
            /\ ReleaseStep(ts, free) \/ ReserveStep(ts, free)
            /\ free.assignment.user # u /\ free.reserved # u
            /\ IF PublishedBy(free, u) THEN RevokeStep(free, tt, u, actions + 1, TRUE) ELSE tt = free
      BY <1>4 DEF OffboardStep
    <2>2. annotator \in [User -> {"active", "deactivated"}]
      BY DEF WorkInv, CorpusInv, TypeOK
    <2>3. free.assignment \in {ts.assignment, NoAssignment} /\ free.reserved \in {ts.reserved, NoUser}
      BY <2>1 DEF ReleaseStep, ReserveStep
    <2>4. IdleOf(free, annotator')
      BY <1>4, <2>1, <2>2, <2>3, NoUserAssumption DEF IdleOf, NoAssignment
    <2>5. QED
      BY <2>1, <2>4, SameHolderIdle DEF RevokeStep
  <1>5. QED
    BY <1>2, <1>3, <1>4 DEF Moved

\* A barred annotator neither holds the task nor has a result published in it,
\* a deactivated one holds nothing (BarredStaysOut).
THEOREM BarredStaysOutHolds == Spec => []BarredStaysOut
  <1> DEFINE Idle == \A t \in Task : IdleOf(task[t], annotator)
  <1>1. Init => Idle
    BY DEF Init, IdleOf
  <1>2. WorkInv /\ Idle /\ [Next]_vars => Idle'
    BY TaskMoves, MovedKeepsIdle
  <1>3. StandInv /\ Idle => BarredStaysOut
    BY DEF StandInv, StandOf, BarsOf, NotBarred, Involved, IdleOf, Active, BarredStaysOut
  <1> HIDE DEF Idle
  <1>4. QED
    BY <1>1, <1>2, <1>3, WorkInvHolds, StandInvHolds, PTL DEF Spec

-----------------------------------------------------------------------------
(* Published work of deactivated annotators                                *)

\* OffboardedOutOfCorpus of one task.
OffboardedOf(ts, status) ==
    \A u \in User : status[u] # "active" /\ PublishedBy(ts, u) =>
        \E k \in RoundNo : /\ ts.round[k].final = ts.current
                           /\ ts.round[k].decision = "secondary"

\* Decided rounds keep what was decided.
FinalsKept(ts, tt) ==
    \A k \in RoundNo : ts.round[k].final # None =>
        tt.round[k].final = ts.round[k].final /\ tt.round[k].decision = ts.round[k].decision

LEMMA ClosedFinals ==
    ASSUME NEW ts, EvidenceInvOf(ts), NEW tt, RoundsClosed(ts, tt)
    PROVE  FinalsKept(ts, tt)
  BY DEF EvidenceInvOf, RoundEvidence, RoundsClosed, FinalsKept, OpenState

\* While the pointer stays, so does the author it leads to.
LEMMA SameResult ==
    ASSUME NEW ts, TaskTyped(ts), CorpusInvOf(ts), NEW tt,
           \A n \in VersionNo : RowMove(ts, tt, n), tt.current = ts.current, NEW u
    PROVE  PublishedBy(tt, u) <=> PublishedBy(ts, u)
  <1>1. CASE ts.current = None
    BY <1>1 DEF PublishedBy
  <1>2. CASE ts.current # None
    <2>1. ts.current \in VersionNo /\ ts.version[ts.current].lifecycle = "published"
      BY <1>2, RowsWith DEF CorpusInvOf, CorpusPointerOf, VersionsIn
    <2>2. ts.current # ts.versions + 1
      BY <2>1, NewNumber
    <2>3. tt.version[ts.current].submitter = ts.version[ts.current].submitter
      BY <2>1, <2>2, MovePeople
    <2>4. QED
      BY <2>3 DEF PublishedBy
  <1>3. QED
    BY <1>1, <1>2

LEMMA KeptKeepsOffboarded ==
    ASSUME NEW ts, TaskTyped(ts), CorpusInvOf(ts), NEW status, OffboardedOf(ts, status), NEW tt,
           \A n \in VersionNo : RowMove(ts, tt, n), tt.current = ts.current, FinalsKept(ts, tt)
    PROVE  OffboardedOf(tt, status)
  <1> SUFFICES ASSUME NEW u \in User, status[u] # "active", PublishedBy(tt, u)
               PROVE  \E k \in RoundNo : /\ tt.round[k].final = tt.current
                                         /\ tt.round[k].decision = "secondary"
    BY DEF OffboardedOf
  <1>1. PublishedBy(ts, u)
    BY SameResult
  <1>2. PICK k \in RoundNo : ts.round[k].final = ts.current /\ ts.round[k].decision = "secondary"
    BY <1>1 DEF OffboardedOf
  <1>3. ts.current # None
    BY <1>1 DEF PublishedBy
  <1>4. QED
    BY <1>2, <1>3 DEF FinalsKept

LEMMA PlainKeepsOffboarded ==
    ASSUME NEW ts, TaskTyped(ts), CorpusInvOf(ts), EvidenceInvOf(ts), NEW status,
           OffboardedOf(ts, status), NEW tt, PlainStep(ts, tt), tt.current = ts.current
    PROVE  OffboardedOf(tt, status)
  <1>1. \A n \in VersionNo : RowMove(ts, tt, n)
    BY DEF PlainStep, RowMove
  <1>2. FinalsKept(ts, tt)
    BY ClosedFinals DEF PlainStep
  <1>3. QED
    BY <1>1, <1>2, KeptKeepsOffboarded

LEMMA AnnotatorKeepsOffboarded ==
    ASSUME NEW ts, TaskTyped(ts), CorpusInvOf(ts), WorkInvOf(ts), EvidenceInvOf(ts), NEW status,
           OffboardedOf(ts, status), NEW tt, NEW v \in User, status[v] = "active",
           AnnotatorMove(ts, tt, v)
    PROVE  OffboardedOf(tt, status)
  <1>1. \A n \in VersionNo : RowMove(ts, tt, n)
    BY ClaimRows, CrossCheckRows, ReopenRows, SaveRows, CompleteRows, FreezeRows
       DEF AnnotatorMove, SubmissionRow, RowMove
  <1>2. CASE \/ \E d \in VersionNo : ClaimStep(ts, tt, v, d)
             \/ ReopenStep(ts, tt, v) \/ SaveStep(ts, tt, v)
    <2>1. tt.current = ts.current /\ tt.round = ts.round
      BY <1>2 DEF ClaimStep, ReopenStep, SaveStep, SamePointer, SameRounds
    <2>2. FinalsKept(ts, tt)
      BY <2>1 DEF FinalsKept
    <2>3. QED
      BY <1>1, <2>1, <2>2, KeptKeepsOffboarded
  <1>3. CASE CrossCheckStep(ts, tt, v)
    <2>1. tt.current = ts.current
      BY <1>3 DEF CrossCheckStep, SamePointer
    <2>2. \A k \in RoundNo : ts.round[k].final # None => ~ (k > ts.rounds)
      BY DEF EvidenceInvOf, RoundEvidence
    <2>3. \A k \in RoundNo : ts.round[k].final # None => k # ts.rounds + 1
      BY <2>2, RowsWith DEF RoundNo
    <2>4. FinalsKept(ts, tt)
      BY <1>3, <2>3 DEF CrossCheckStep, FinalsKept
    <2>5. QED
      BY <1>1, <2>1, <2>4, KeptKeepsOffboarded
  <1>4. ASSUME NEW s \in SubmissionRow, FreezeStep(ts, tt, v, s, s.outcome, s.needsReview)
        PROVE  OffboardedOf(tt, status)
    <2>1. tt.current = ts.current
      BY <1>4 DEF FreezeStep, SamePointer
    <2>2. FinalsKept(ts, tt)
      BY <1>4 DEF FreezeStep, CanFreeze, InProgress, EvidenceInvOf, RoundEvidence, FinalsKept
    <2>3. QED
      BY <1>1, <2>1, <2>2, KeptKeepsOffboarded
  <1>5. ASSUME NEW o \in Outcome, CompleteStep(ts, tt, v, o)
        PROVE  OffboardedOf(tt, status)
    <2>1. tt.current = ts.assignment.version /\ ts.assignment.version \in VersionNo
      <3>1. Assigned(ts)
        BY <1>5, NoUserAssumption DEF CompleteStep, CanComplete, Assigned
      <3>2. QED
        BY <1>5, <3>1, HeldDraft DEF CompleteStep
    <2>2. tt.version[tt.current] = Submitted(ts.version[tt.current], v, "published", o)
      BY <1>5, <2>1 DEF CompleteStep
    <2>3. tt.version[tt.current].submitter = v
      BY <2>1, <2>2, SubmittedRow, RowsWith
    <2>4. QED
      BY <2>3 DEF OffboardedOf, PublishedBy
  <1>6. QED
    BY <1>2, <1>3, <1>4, <1>5 DEF AnnotatorMove

LEMMA DecisionKeepsOffboarded ==
    ASSUME NEW ts, TaskTyped(ts), CorpusInvOf(ts), EvidenceInvOf(ts), NEW status,
           OffboardedOf(ts, status), NEW tt, NEW k \in RoundNo, DecisionMove(ts, tt, k)
    PROVE  OffboardedOf(tt, status)
  <1>1. CASE KeepStep(ts, tt, k)
    <2>1. /\ tt.current = ts.current /\ ts.round[k].state = "awaiting_review"
          /\ \A j \in RoundNo : j # k => tt.round[j] = ts.round[j]
      BY <1>1 DEF KeepStep, DecideStep, CanDecide
    <2>2. FinalsKept(ts, tt)
      BY <2>1 DEF EvidenceInvOf, RoundEvidence, FinalsKept
    <2>3. \A n \in VersionNo : RowMove(ts, tt, n)
      BY <1>1, KeepRows DEF RowMove
    <2>4. QED
      BY <2>1, <2>2, <2>3, KeptKeepsOffboarded
  <1>2. CASE SecondStep(ts, tt, k)
    <2> DEFINE second == ts.round[k].secondary
    <2>1. tt.current = second /\ tt.round[k] = DecidedRound(ts.round[k], "secondary", second)
      BY <1>2 DEF SecondStep, DecideStep
    <2>2. tt.round[k].final = tt.current /\ tt.round[k].decision = "secondary"
      BY <2>1, RoundRows, RowsWith
    <2>3. QED
      BY <2>2 DEF OffboardedOf
  <1>3. ASSUME NEW base \in VersionNo, NEW o \in Outcome, EditStep(ts, tt, k, base, o)
        PROVE  OffboardedOf(tt, status)
    <2>1. tt.current = ts.versions + 1 /\ ts.versions + 1 \in VersionNo
      BY <1>3, NextVersionNo DEF EditStep, DecideStep
    <2>2. tt.version[tt.current] = AdminEdit(ts, base, o)
      BY <1>3, <2>1 DEF EditStep
    <2>3. AdminEdit(ts, base, o).submitter = NoUser
      BY NewRows
    <2>4. QED
      BY <2>2, <2>3, NoUserAssumption DEF OffboardedOf, PublishedBy
  <1>4. QED
    BY <1>1, <1>2, <1>3 DEF DecisionMove

LEMMA RestoreKeepsOffboarded ==
    ASSUME NEW ts, TaskTyped(ts), NEW status, NEW tt, NEW a, NEW x, NEW b \in VersionNo, NEW f,
           x # NoUser => status[x] = "active", RestoreStep(ts, tt, a, x, b, f)
    PROVE  OffboardedOf(tt, status)
  <1>1. /\ tt.current = b /\ tt.version[b] = Reinstated(ts.version[b])
        /\ ts.version[b].submitter = x
    BY DEF RestoreStep, CanRestore, AdminEdited
  <1>2. tt.version[b].submitter = x
    BY <1>1, ReinstatedRow, RowsWith DEF SameContent
  <1>3. QED
    BY <1>1, <1>2, NoUserAssumption DEF OffboardedOf, PublishedBy

LEMMA MovedKeepsOffboarded ==
    ASSUME EvidenceInv, NEW t \in Task, Moved(t), OffboardedOf(task[t], annotator)
    PROVE  OffboardedOf(task'[t], annotator')
  <1> DEFINE ts == task[t]
             tt == task'[t]
  <1>1. /\ TaskTyped(ts) /\ CorpusInvOf(ts) /\ WorkInvOf(ts) /\ EvidenceInvOf(ts)
        /\ action \in [ActionNo -> ActionRow]
        /\ annotator \in [User -> {"active", "deactivated"}]
    BY DEF EvidenceInv, WorkInv, CorpusInv, TypeOK
  <1>2. \A status : (\E s, author, a, block : RevokeStep(s, tt, author, a, block))
                      => OffboardedOf(tt, status)
    BY DEF RevokeStep, OffboardedOf, PublishedBy
  <1>3. CASE UNCHANGED annotator /\ QuietMove(t, ts, tt)
    <2>1. ASSUME NEW v \in User, Active(v), AnnotatorMove(ts, tt, v)
          PROVE  OffboardedOf(tt, annotator)
      BY <1>1, <2>1, AnnotatorKeepsOffboarded DEF Active
    <2>2. ASSUME \/ AbandonStep(ts, tt) \/ RefreshStep(ts, tt) \/ ReleaseStep(ts, tt)
                 \/ \E k \in RoundNo : CancelStep(ts, tt, k)
          PROVE  OffboardedOf(tt, annotator)
      <3>1. PlainStep(ts, tt)
        BY <1>1, <2>2, AbandonPlain, RefreshPlain, ReleasePlain, CancelPlain
      <3>2. tt.current = ts.current
        BY <2>2 DEF AbandonStep, RefreshStep, ReleaseStep, CancelStep, SamePointer
      <3>3. QED
        BY <1>1, <3>1, <3>2, PlainKeepsOffboarded
    <2>3. ASSUME NEW a \in ActionNo, RestoreMove(t, ts, tt, a)
          PROVE  OffboardedOf(tt, annotator)
      <3>1. action[a].before[t] \in VersionNo
        BY <1>1, <2>3 DEF RestoreMove, ActionRow
      <3>2. action[a].annotator # NoUser => annotator[action[a].annotator] = "active"
        BY <2>3 DEF RestoreMove, AuthorStillActive, Active
      <3>3. QED
        BY <1>1, <2>3, <3>1, <3>2, RestoreKeepsOffboarded DEF RestoreMove
    <2>4. ASSUME NEW k \in RoundNo, DecisionMove(ts, tt, k)
          PROVE  OffboardedOf(tt, annotator)
      BY <1>1, <2>4, DecisionKeepsOffboarded
    <2>5. OffboardedOf(tt, annotator)
      BY <1>3, <2>1, <2>2, <2>3, <2>4 DEF QuietMove
    <2>6. QED
      BY <1>3, <2>5
  <1>4. CASE /\ UNCHANGED annotator
             /\ tt = ts \/ \E author, block : RevokeStep(ts, tt, author, actions + 1, block)
    <2>1. OffboardedOf(tt, annotator)
      BY <1>2, <1>4
    <2>2. QED
      BY <1>4, <2>1
  <1>5. ASSUME NEW u \in User, annotator' = [annotator EXCEPT ![u] = "deactivated"],
               OffboardStep(ts, tt, u, actions + 1)
        PROVE  OffboardedOf(tt, annotator')
    <2>1. PICK free \in TaskRow :
            /\ ReleaseStep(ts, free) \/ ReserveStep(ts, free)
            /\ IF PublishedBy(free, u) THEN RevokeStep(free, tt, u, actions + 1, TRUE) ELSE tt = free
      BY <1>5 DEF OffboardStep
    <2>2. PlainStep(ts, free) /\ free.current = ts.current
      BY <1>1, <2>1, ReleasePlain, ReservePlain DEF ReleaseStep, ReserveStep, SamePointer
    <2>3. OffboardedOf(free, annotator)
      BY <1>1, <2>2, PlainKeepsOffboarded
    <2>4. CASE tt = free /\ ~ PublishedBy(free, u)
      BY <1>1, <1>5, <2>3, <2>4 DEF OffboardedOf
    <2>5. QED
      BY <1>2, <2>1, <2>4
  <1>6. QED
    BY <1>3, <1>4, <1>5 DEF Moved

\* What a deactivated annotator has published stays withdrawn; only a decision
\* on a round publishes his work afterwards (OffboardedOutOfCorpus).
THEOREM OffboardedOutOfCorpusHolds == Spec => []OffboardedOutOfCorpus
  <1> DEFINE Out == \A t \in Task : OffboardedOf(task[t], annotator)
  <1>1. Init => Out
    BY DEF Init, OffboardedOf
  <1>2. EvidenceInv /\ Out /\ [Next]_vars => Out'
    BY TaskMoves, MovedKeepsOffboarded DEF EvidenceInv
  <1>3. Out => OffboardedOutOfCorpus
    BY DEF OffboardedOf, Active, OffboardedOutOfCorpus
  <1> HIDE DEF Out
  <1>4. QED
    BY <1>1, <1>2, <1>3, EvidenceInvHolds, PTL DEF Spec
=============================================================================
