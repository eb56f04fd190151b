--------------------------- MODULE StoreProperties ---------------------------
(***************************************************************************)
(* What the annotation store promises.  Parts named after a task row "ts"  *)
(* speak of one task; the properties quantify them over the store.         *)
(***************************************************************************)
EXTENDS AnnotationStore

-----------------------------------------------------------------------------
(* Types                                                                   *)

TaskTyped(ts) ==
    /\ ts \in TaskRow
    /\ \A k \in OpenRounds(ts) : /\ ts.round[k].original \in VersionNo
                               /\ ts.round[k].secondary \in VersionNo

\* The type invariant: every row has its columns, numbers stay in range, and
\* an open round names both its versions.
TypeOK ==
    /\ task \in [Task -> TaskRow]
    /\ \A t \in Task : TaskTyped(task[t])
    /\ annotator \in [User -> {"active", "deactivated"}]
    /\ crossCheck \in BOOLEAN
    /\ submission \in [User -> SubmissionRow]
    /\ actions \in 0 .. MaxActions
    /\ action \in [ActionNo -> ActionRow]

-----------------------------------------------------------------------------
(* What is published                                                       *)

CorpusPointerOf(ts) ==
    /\ ts.status = "pending" <=> ts.current = None
    /\ VersionsIn(ts, {"published"}) =
         IF ts.current = None THEN {} ELSE {ts.current}
    /\ ts.current # None => ts.version[ts.current].target = ts.status

\* A task publishes at most one version: the one its pointer names, with the
\* status the task shows; a pending task publishes none.  Completion,
\* decisions, revokes and restores each update the two tables separately
\* (_complete_published_assignment, set_task_published, _revoke_locked_task).
CorpusPointer == \A t \in Task : CorpusPointerOf(task[t])

CorpusInvOf(ts) ==
    /\ CorpusPointerOf(ts)
    /\ \A n \in VersionNo : n > ts.versions => ts.version[n].lifecycle = "none"
    /\ \A n \in VersionsIn(ts, {"revoked", "cross_check_submitted"}) :
         ts.version[n].target \in Outcome
    /\ Assigned(ts) => ts.assignment.version \in Drafts(ts)
    /\ \A j, k \in OpenRounds(ts) : j = k
    /\ \A k \in RoundNo :
         ts.round[k].state = "awaiting_review" =>
           ts.version[ts.round[k].secondary].lifecycle = "cross_check_submitted"

\* CorpusPointer and what keeps it so: version numbers are never reused, every
\* version that may be published or published again says with which status,
\* whoever holds a task works on a draft, and of the single open round the
\* transcription under review is still frozen.
CorpusInv == TypeOK /\ \A t \in Task : CorpusInvOf(task[t])

\* The content a published result, a frozen second transcription or an open
\* draft was made from is the machine segmentation the task has now: a
\* preprocessing run never re-segments under human work, and restoring never
\* brings back a result made before the audio was segmented anew
\* (task_is_protected; the clean-draft test of admin_restore).
CutsAgreeIn(ts) ==
    \A n \in VersionsIn(ts, {"draft", "published", "cross_check_submitted"}) :
        ts.version[n].cut = ts.version[ts.baseline].cut

CutsAgree == \A t \in Task : CutsAgreeIn(task[t])

-----------------------------------------------------------------------------
(* Who is working on what                                                  *)

WorkAgreesIn(ts) ==
    LET a == ts.assignment
        w == ts.version[a.version]
    IN
    /\ ts.status = "pending" =>
         \E d \in VersionNo : /\ Drafts(ts) = {d}
                              /\ ts.version[d].purpose = "annotation"
    /\ ts.status # "pending" =>
         Drafts(ts) = IF Assigned(ts) THEN {a.version} ELSE {}
    /\ Assigned(ts) =>
         /\ a.version \in Drafts(ts)
         /\ ts.reserved = NoUser
         /\ ts.status = "pending" <=> a.mode = "annotation"
         /\ a.mode = "cross_check" <=> a.round # None
         /\ w.purpose = IF a.mode = "cross_check" THEN "cross_check"
                                                  ELSE "annotation"
         /\ a.mode = "revision" =>
              /\ w.base = ts.current
              /\ ts.version[ts.current].submitter = a.user

\* Nothing is open that nobody can reach and nothing reachable is missing: a
\* pending task has exactly one draft to work on; a published one has a draft
\* exactly while somebody holds it; a correction is based on the current
\* result and held by its submitter.  Every release, revoke, cancellation and
\* deactivation has to leave drafts and assignment in step.
WorkAgrees == \A t \in Task : WorkAgreesIn(task[t])

\* No annotator holds two tasks, whatever the mode (the unique index on
\* assignments.user_id is never what stops a reopening).
OneTaskPerUser == \A u \in User : Cardinality(HeldBy(u)) <= 1

RoundAgreesIn(ts) ==
    LET a == ts.assignment
        holdsRound(k) == /\ a.user = ts.round[k].secondaryAnnotator
                         /\ a.mode = "cross_check"
                         /\ a.round = k
                         /\ a.version = ts.round[k].secondary
    IN
    /\ \A j, k \in OpenRounds(ts) : j = k
    /\ \A k \in OpenRounds(ts) :
         /\ ts.current = ts.round[k].original
         /\ ts.status = "annotated"
    /\ \A k \in RoundNo :
         ts.round[k].state = "awaiting_review" =>
           /\ ~ Assigned(ts)
           /\ ts.version[ts.round[k].secondary].lifecycle
                = "cross_check_submitted"
    /\ \A k \in RoundNo : ts.round[k].state = "in_progress" => holdsRound(k)
    /\ a.mode = "cross_check" => InProgress(ts, a.round) /\ holdsRound(a.round)

\* At most one open round per task, always about the published result; one in
\* progress is exactly a cross-check assignment of its second annotator, one
\* awaiting review has its transcription frozen and nobody at work.
RoundAgrees == \A t \in Task : RoundAgreesIn(task[t])

-----------------------------------------------------------------------------
(* Cross-check evidence                                                    *)

\* The second transcription is blind and independent: its annotator is not
\* the author checked, and neither edited nor submitted any earlier version
\* of the task (task_annotation_participants guards this).
SecondAnnotatorIndependent ==
    \A t \in Task : \A k \in 1 .. task[t].rounds :
        LET r == task[t].round[k] IN
        /\ r.secondaryAnnotator # r.originalAnnotator
        /\ \A n \in 1 .. (r.secondary - 1) :
             r.secondaryAnnotator \notin {task[t].version[n].modifiedBy,
                                          task[t].version[n].submitter}

EvidenceMatchesIn(ts) ==
    \A k \in RoundNo :
        LET r == ts.round[k] IN
        r.state \in {"awaiting_review", "passed", "adjudicated"} =>
          /\ r.originalInput = ts.version[r.original].revision
          /\ r.secondaryInput + 1 = ts.version[r.secondary].revision
          /\ ts.version[r.original].submitter = r.originalAnnotator
          /\ ts.version[r.secondary].submitter = r.secondaryAnnotator
          /\ ts.version[r.secondary].lifecycle \notin {"draft", "abandoned"}

\* The stored verdict is about the two texts that were stored: the original
\* as it still is and the second transcription as it was frozen, although
\* both were read long before in a transaction of their own.
EvidenceMatches == \A t \in Task : EvidenceMatchesIn(task[t])

FinalIsDecidedIn(ts) ==
    \A n \in VersionNo :
        /\ ts.version[n].purpose \in {"cross_check", "adjudication"}
        /\ ts.version[n].lifecycle \in {"published", "superseded", "revoked"}
        => \E k \in RoundNo :
             /\ ts.round[k].state = "adjudicated"
             /\ ts.round[k].final = n
             /\ ts.round[k].decision =
                  IF ts.version[n].purpose = "cross_check" THEN "secondary"
                                                           ELSE "edited"

\* A second transcription or an administrator's edit only ever enters the
\* corpus by the decision on a round that says so.
FinalIsDecided == \A t \in Task : FinalIsDecidedIn(task[t])

-----------------------------------------------------------------------------
(* Administrators                                                          *)

\* Whoever is barred from a task does not hold it and has no result of his
\* published in it; whoever is deactivated holds nothing and nothing waits
\* for him.
BarredStaysOut ==
    \A t \in Task, u \in User :
        /\ task[t].blockedBy[u] # None =>
             task[t].assignment.user # u /\ ~ PublishedBy(task[t], u)
        /\ ~ Active(u) => task[t].assignment.user # u /\ task[t].reserved # u

\* Offboarding withdraws everything its annotator has published and it stays
\* withdrawn: afterwards only a decision on a round that was waiting for
\* review can publish his work, never a late submission or a restore.
OffboardedOutOfCorpus ==
    \A t \in Task, u \in User :
        ~ Active(u) /\ PublishedBy(task[t], u) =>
          \E k \in RoundNo : /\ task[t].round[k].final = task[t].current
                             /\ task[t].round[k].decision = "secondary"

\* What an admin action is recorded to have done can be found again, and only
\* it: a revoked version names the action that lists it, a bar names the
\* action that withdrew a result of the barred annotator.
AuditAgrees ==
    \A t \in Task :
        /\ \A n \in VersionNo :
             LET v == task[t].version[n] IN
             /\ v.lifecycle = "revoked" <=> v.revokedBy # None
             /\ v.revokedBy # None => /\ v.revokedBy <= actions
                                      /\ action[v.revokedBy].before[t] = n
                                      /\ action[v.revokedBy].annotator = v.submitter
        /\ \A u \in User :
             LET a == task[t].blockedBy[u] IN
             a # None => /\ a <= actions
                         /\ action[a].annotator = u
                         /\ task[t].version[action[a].before[t]].revokedBy = a

-----------------------------------------------------------------------------
(* What a step may never do                                                *)

Moves == {<<"draft", "published">>, <<"draft", "abandoned">>,
          <<"draft", "cross_check_submitted">>,
          <<"cross_check_submitted", "published">>,
          <<"published", "superseded">>, <<"published", "revoked">>,
          <<"revoked", "published">>}

Content(v) == <<v.revision, v.cut, v.base, v.target, v.purpose, v.human,
                v.modifiedBy, v.submitter>>

\* A version that left the draft state keeps its content and author for ever,
\* and lifecycles only move along the permitted edges: history is immutable.
HistoryIsImmutable ==
    [][\A t \in Task, n \in VersionNo :
         LET v == task[t].version[n]
             w == task'[t].version[n]
         IN  v.lifecycle # "none" =>
               /\ v.lifecycle # w.lifecycle =>
                    <<v.lifecycle, w.lifecycle>> \in Moves
               /\ v.lifecycle \notin {"draft", "baseline"} =>
                    Content(v) = Content(w)]_vars

\* An abandoned pool draft with human text is kept for the next annotator:
\* while nobody holds the task no step changes or discards it.
PooledWorkKept ==
    [][\A t \in Task : \A n \in Drafts(task[t]) :
         task[t].version[n].human /\ ~ Assigned(task[t])
           => task'[t].version[n] = task[t].version[n]]_vars

\* The annotator named as the author of a version held it as his assignment
\* in the step that made him so, and was active.
CreditIsEarned ==
    [][\A t \in Task, n \in VersionNo :
         LET u == task'[t].version[n].submitter IN
         u \notin {task[t].version[n].submitter, NoUser}
           => /\ task[t].assignment.user = u
              /\ task[t].assignment.version = n
              /\ Active(u)]_vars

=============================================================================
