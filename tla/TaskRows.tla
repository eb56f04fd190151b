------------------------------ MODULE TaskRows ------------------------------
(***************************************************************************)
(* One task of the PostgreSQL store: its annotation_tasks row together     *)
(* with the annotation_versions, assignments, cross_check_rounds,          *)
(* task_annotation_participants and task_annotator_blocks rows that carry  *)
(* its task_id.  Rows are records; a version or a round is named by its    *)
(* position within the task, which for versions is the column version_no.  *)
(*                                                                         *)
(* Segment text, audio, waveforms, timestamps, reviews and audit events    *)
(* are not kept.  The content of a version is identified by its number and *)
(* its revision; "cut" counts how often preprocessing replaced the machine *)
(* segmentation the version was made from.                                 *)
(***************************************************************************)
EXTENDS Integers, FiniteSets

CONSTANTS
    User,           \* annotators
    NoUser,         \* SQL NULL in a column that refers to annotators
    MaxVersions,    \* bound on version_no
    MaxRounds,      \* bound on the cross-check rounds of a task
    MaxActions      \* bound on the recorded revoke and deactivate actions

ASSUME NoUserAssumption == NoUser \notin User

ASSUME BoundsAssumption ==
    /\ MaxVersions \in Nat /\ MaxVersions >= 2
    /\ MaxRounds \in Nat
    /\ MaxActions \in Nat

None == 0           \* SQL NULL in a column that refers to a numbered row

VersionNo == 1 .. MaxVersions
RoundNo   == 1 .. MaxRounds
ActionNo  == 1 .. MaxActions

-----------------------------------------------------------------------------
(* Row types                                                               *)

Lifecycle == {"baseline", "draft", "published", "superseded", "abandoned",
              "revoked", "cross_check_submitted"}
Purpose   == {"annotation", "cross_check", "adjudication"}
Outcome   == {"annotated", "skipped"}
Status    == {"pending"} \cup Outcome
Mode      == {"annotation", "revision", "cross_check"}
OpenState == {"in_progress", "awaiting_review"}
RoundState == OpenState \cup {"passed", "adjudicated", "cancelled",
                              "invalidated"}
Decision  == {"original", "secondary", "edited"}

\* annotation_versions; lifecycle "none" is a number not used yet.
VersionRow == [lifecycle  : {"none"} \cup Lifecycle,
               purpose    : Purpose,
               target     : Status,
               base       : {None} \cup VersionNo,
               revision   : Nat,
               human      : BOOLEAN,
               modifiedBy : User \cup {NoUser},
               submitter  : User \cup {NoUser},
               revokedBy  : {None} \cup ActionNo,
               cut        : Nat]

\* assignments; user NoUser is the absence of a row.
AssignmentRow == [user    : User \cup {NoUser},
                  version : {None} \cup VersionNo,
                  mode    : Mode,
                  round   : {None} \cup RoundNo]

\* cross_check_rounds; state "none" is a number not used yet.
RoundRow == [state              : {"none"} \cup RoundState,
             original           : {None} \cup VersionNo,
             originalAnnotator  : User \cup {NoUser},
             secondary          : {None} \cup VersionNo,
             secondaryAnnotator : User \cup {NoUser},
             originalInput      : Nat,
             secondaryInput     : Nat,
             decision           : {"none"} \cup Decision,
             final              : {None} \cup VersionNo]

\* versions and rounds are the numbers in use; blockedBy[u] is the admin
\* action of u's block; claimedAfter is the newest recorded admin action that
\* had begun before the latest claim of the task began, which is what
\* comparing the two created_at columns yields.
TaskRow == [status       : Status,
            current      : {None} \cup VersionNo,
            reserved     : User \cup {NoUser},
            baseline     : VersionNo,
            versions     : {0} \cup VersionNo,
            version      : [VersionNo -> VersionRow],
            rounds       : {0} \cup RoundNo,
            round        : [RoundNo -> RoundRow],
            assignment   : AssignmentRow,
            participants : SUBSET User,
            blockedBy    : [User -> {None} \cup ActionNo],
            claimedAfter : {None} \cup ActionNo]

NoVersionRow == [lifecycle |-> "none", purpose |-> "annotation",
                 target |-> "pending", base |-> None, revision |-> 0,
                 human |-> FALSE, modifiedBy |-> NoUser, submitter |-> NoUser,
                 revokedBy |-> None, cut |-> 0]

NoRoundRow == [state |-> "none", original |-> None,
               originalAnnotator |-> NoUser, secondary |-> None,
               secondaryAnnotator |-> NoUser, originalInput |-> 0,
               secondaryInput |-> 0, decision |-> "none", final |-> None]

NoAssignment == [user |-> NoUser, version |-> None, mode |-> "annotation",
                 round |-> None]

-----------------------------------------------------------------------------
(* What a task looks like before anybody works on it                       *)

TaskWith(versions, versionRow, baseline, reserved, participants) ==
    [status |-> "pending", current |-> None, reserved |-> reserved,
     baseline |-> baseline, versions |-> versions, version |-> versionRow,
     rounds |-> 0, round |-> [k \in RoundNo |-> NoRoundRow],
     assignment |-> NoAssignment, participants |-> participants,
     blockedBy |-> [u \in User |-> None], claimedAfter |-> None]

BaselineRow == [NoVersionRow EXCEPT !.lifecycle = "baseline"]

\* Stored by preprocessing: baseline first, then the machine draft.
PreprocessedTask ==
    TaskWith(2, [n \in VersionNo |->
                   CASE n = 1 -> BaselineRow
                     [] n = 2 -> [NoVersionRow EXCEPT !.lifecycle = "draft",
                                                      !.base = 1]
                     [] OTHER -> NoVersionRow], 1, NoUser, {})

\* A file of the JSON days, imported as version 1, with the baseline that is
\* reconstructed from it as version 2.  editor, who may be unknown, changed the
\* file last; touched says whether its text differs from the recognised one.
LastEdit == [editor : User \cup {NoUser}, touched : BOOLEAN]

\* Enough for published files: nothing reads whether their text is human.
TouchedEdit == {last \in LastEdit : last.touched}

LegacyVersion(last) ==
    [NoVersionRow EXCEPT !.base = 2, !.modifiedBy = last.editor,
                         !.human = last.touched \/ last.editor # NoUser]

ImportedTask(legacy, reserved, participants) ==
    TaskWith(2, [n \in VersionNo |->
                   CASE n = 1 -> legacy
                     [] n = 2 -> BaselineRow
                     [] OTHER -> NoVersionRow], 2, reserved, participants)

\* A pending file stays reserved for whoever edited it last ...
ImportedDraft(last, participants) ==
    ImportedTask([LegacyVersion(last) EXCEPT !.lifecycle = "draft"],
                 last.editor, participants)

\* ... or with whom it was assigned to.
ImportedAssigned(holder, last, participants) ==
    [ImportedDraft(last, participants) EXCEPT
        !.reserved   = NoUser,
        !.assignment = [user |-> holder, version |-> 1,
                        mode |-> "annotation", round |-> None]]

\* A finished file is published; its owner may be unknown.
ImportedResult(owner, last, outcome, participants) ==
    [ImportedTask([LegacyVersion(last) EXCEPT
                      !.lifecycle = "published", !.target = outcome,
                      !.submitter = owner], NoUser, participants)
       EXCEPT !.status = outcome, !.current = 1]

-----------------------------------------------------------------------------
(* Queries                                                                 *)

VersionsIn(ts, lifecycles) ==
    {n \in VersionNo : ts.version[n].lifecycle \in lifecycles}

Drafts(ts) == VersionsIn(ts, {"draft"})

OpenRounds(ts) == {k \in RoundNo : ts.round[k].state \in OpenState}

InProgress(ts, k) == k \in RoundNo /\ ts.round[k].state = "in_progress"

Assigned(ts) == ts.assignment.user # NoUser

\* Published by an administrator's edit: nobody submitted it.
AdminEdited(v) == v.purpose = "adjudication" /\ v.submitter = NoUser

RoomForVersion(ts) == ts.versions < MaxVersions

-----------------------------------------------------------------------------
(* Row updates that several transactions share                             *)

AddVersion(ts, row) ==
    [ts EXCEPT !.versions = @ + 1,
               !.version  = [@ EXCEPT ![ts.versions + 1] = row]]

\* Faults that the properties are shown to notice (see TaskTransactions).
ForgotLifecycle(v) == [v EXCEPT !.lifecycle = "abandoned"]
ForgotToAbandon(v) == v

AbandonIfDraft(v) ==
    IF v.lifecycle = "draft" THEN [v EXCEPT !.lifecycle = "abandoned"] ELSE v

\* UPDATE annotation_versions SET lifecycle = 'abandoned'
\*  WHERE id IN gone AND lifecycle = 'draft'
AbandonDrafts(ts, gone) ==
    [ts EXCEPT !.version =
        [n \in VersionNo |-> IF n \in gone THEN AbandonIfDraft(ts.version[n])
                                           ELSE ts.version[n]]]

Unassign(ts) == [ts EXCEPT !.assignment = NoAssignment]

SetRoundState(ts, k, state) ==
    [ts EXCEPT !.round[k] = [@ EXCEPT !.state = state]]

\* A fresh annotation draft with the baseline's segments and no human text.
CloneCleanDraft(ts) ==
    AddVersion(ts, [NoVersionRow EXCEPT
        !.lifecycle = "draft", !.base = ts.baseline,
        !.cut = ts.version[ts.baseline].cut])

\* Cancel the round of a cross-check assignment and abandon its draft.
CancelInProgressCrossCheck(ts) ==
    LET a == ts.assignment IN
    AbandonDrafts(SetRoundState(ts, a.round, "cancelled"), {a.version})

=============================================================================
