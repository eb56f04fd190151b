# TLA+ model of the Egyptian Arabic annotation tool

The tool lets annotators transcribe Egyptian Arabic audio in the browser. A
PostgreSQL database holds one *task* per audio file, its numbered transcriptions
(*versions*) and who is working on it. Administrators revoke and restore results,
release tasks and offboard annotators; a sample of the finished tasks is
transcribed a second time, blind, and compared (*cross-check*). Preprocessing puts
tasks in and replaces their machine segmentation while nobody has worked on them.

This directory models that store, the sessions and leases its users work under,
what the browser keeps while it is away from the server, the imports that feed the
store and the comparison that judges a cross-check. TLC checks each on small
instances; for instances of every size TLAPS proves the safety properties of the store,
the locks, the sessions, the console, the preprocessing lease, the comparison and both
imports, and of the drafts as far as they hold.

## Inventory

| Part | State it keeps | Operations | Talks to |
|---|---|---|---|
| annotation store (`annotation_repository.py`, `migrations/001`, `002`) | `annotation_tasks`, `annotation_versions`, `assignments`, `annotators.status` | claim, save_draft, complete, abandon, reopen | everything below |
| cross-annotation quality (`annotation_quality/`, `migrations/008`) | `cross_check_rounds`, `task_annotation_participants`, `cross_check_settings` | blind claim, submit (two transactions), decide, cancel, settings | store: tables, and called by revoke/deactivate |
| administration (`annotation_repository.py` 4290-5375) | `admin_actions`, `admin_action_items`, `task_annotator_blocks` | revoke, restore, release, deactivate | store, quality |
| preprocessing (`preprocess.py`, `preprocess_store.py`, `annotation_metadata/processing.py`) | machine segmentation of a task, processing token, parked audio | store a result, reject a file, lease, heartbeat, expiry | store, disk |
| legacy import and CLI (`manage_state.py`) | manifest, migration batches | inspect, import JSON days, verify, export, release | store, files |
| annotator sessions (`annotation_repository.py` 252-1000, `migrations/006`, `static/annotator-session.js`) | `active_sessions`, session generation, takeover token | login/resume, force takeover, heartbeat, logout, the fence of each write | store, browser |
| draft synchronisation (`index.html`, `static/offline-drafts.js`) | browser: dirty segments, outbox; server: `operations` | autosave, offline outbox, retry with the same operation id | sessions, store |
| administrator sessions and console (`annotation_repository.py`, `server.py`, `admin.js`) | `admin_sessions`, `admin_actions` by operation id; the page's open form | sign-in, idle/absolute expiry, idempotent writes and retries | administration |
| scene metadata (`annotation_metadata/`) | `task_media_identities`, `task_sources`, import runs; predictions, reviews, taxonomy | import of crawler manifests, review, claim policy, queries | store, disk, preprocessing |
| transcript comparison (`annotation_quality/comparison.py`) | none | word diff, excluded time, verdict | quality |
| exports, listings, rendering, deployment | none of their own, or browser-only | read and render | store |

### What is hard, and what makes each part correct

* **Store.** Completion, decision, revoke and restore each write the task row and
  the version rows separately, and in chains nobody listed. Correct means: one
  published version and a pointer to it (`CorpusPointer`); a pending task has
  exactly one draft, a finished one a draft only while somebody holds it
  (`WorkAgrees`); history is never rewritten (`HistoryIsImmutable`); whoever is
  credited held the work (`CreditIsEarned`); nobody holds two tasks
  (`OneTaskPerUser`).
* **Quality.** A submission is read in one transaction, compared without a lock
  and stored in another; revoke, decision, cancellation and correction compete for
  the same round. Correct means: rounds, assignments and pointer agree
  (`RoundAgrees`); the verdict is about the stored texts (`EvidenceMatches`); the
  second annotator is independent (`SecondAnnotatorIndependent`); only a decision
  brings a second transcription or an edit into the corpus (`FinalIsDecided`).
* **Administration.** Actions are batches that must be whole, may be undone and
  meet later actions on the same rows. Correct means: the audit explains the state
  (`AuditAgrees`); the barred and the offboarded stay out (`BarredStaysOut`,
  `OffboardedOutOfCorpus`); restoring undoes nobody's newer work
  (`RestoredUnclaimed`).
* **Preprocessing.** Results arrive long after they were started, from workers whose
  lease may be over. Correct means: human text is never lost or re-segmented
  (`PooledWorkKept`, `CutsAgree`); only the last holder of the lease stores
  (`LeaseExcludes`); what was transcribed stays (`CheckpointGrows`); audio is deleted
  only under a recorded rejection (`AudioFollowsRow`).
* **Sessions.** A name is used by one browser at a time, but requests overtake a
  takeover, a logout or an expiry between their check and their commit. Correct
  means: only the last login's browser writes (`OnlyTheHolderWrites`); a live
  session ends for a cause (`EndedForCause`); the absolute deadline is final
  (`AbsoluteIsFinal`); an open page alone does not keep a session
  (`IdleFollowsActivity`); nobody keeps a name for ever (`NameComesFree`).
* **Draft synchronisation.** Coroutines of one page, IndexedDB and a network that
  loses answers share an edit. Correct means: what counts as saved is saved
  (`SavedMeansSaved`); no request is judged twice (`NoSecondOpinion`); the server's text
  only moves forward (`WorkOnlyAdvances`); a page left open comes to rest (`EditsArrive`).
* **Administrator's console.** A form may be sent again, cancelled or outlived by its
  session. Correct means: it writes once, and what it showed (`WritesAsShown`); an answer
  is about the form that asked (`AnswersFitForms`); nothing commits for a session that has
  ended (`SignedOutStaysOut`).
* **Locks.** Sixteen kinds of request lock the same rows. Correct means: none decides on
  what another changes, and waiting in a circle is possible at known statements only
  (`LocksSuffice`).
* **Imports.** Files change under them, they die, are run again, and meet each other.
  Correct means: rows tell the files (`RowsTellTheFiles`) and nobody's work or ownership is
  touched (`WorkKept`); evidence is one chain at the task of its identity
  (`EvidenceInPlace`); "completed" means recorded (`CompletedMeansRecorded`).
* **Comparison.** A table, a walk back and integer thresholds decide whether anybody
  reads a round. Correct means: they agree with definitions that know no table, pass or
  merge (`VerdictExact`, `WordsAsDefined`, `ExcludedTimeExact`).

## Modules

| Module | Models |
|---|---|
| `TaskRows` | One task with all rows that carry its id: row types, the states imports and preprocessing leave, queries, and the updates several transactions share. |
| `TaskTransactions` | Every transaction as seen from one task: `Can...` is its conditions, the other operator the rows it leaves. |
| `AnnotationStore` | The state machine: tasks, annotator status, the cross-check switch, running submissions, recorded admin actions; one action per handler. |
| `StoreProperties` | Type invariant, safety invariants and action properties of the store. |
| `RestoreAudit` | The store with a history variable that remembers when a task was last claimed. |
| `AnnotatorSessions` | One annotator name: its row of `active_sessions`, browsers, cookies, takeover tokens, requests under way, the clock. |
| `SessionProperties` | Type invariant, action properties and liveness of the session. |
| `DraftSync` | The workspace page's autosave, submission and outbox replay from one `await` to the next, its IndexedDB, the network, the server's assignment, revision and `operations`. |
| `SavedWork` | Abstract: the work on a task as the server's side of saving promises it; `DraftSync` refines it. |
| `DraftProperties` | What is saved, sent twice, or must arrive; the refinement mapping. |
| `AdminConsole`, `AdminProperties` | Console forms, administrator sessions, the log of operations; what they promise. |
| `ProcessingLease`, `ProcessingProperties` | Runs of `preprocess.py` on one file, the lease on its row, parking and deleting of rejected audio. |
| `LockOrder`, `LockProperties` | The row locks of sixteen kinds of request in the order they are asked for, with foreign keys' locks and `SKIP LOCKED`. |
| `LegacyImport`, `ImportProperties` | Inspection, import, verification and export of legacy JSON files. |
| `SourceImport`, `SourceProperties` | Import of crawler manifests: files, tasks, identities, evidence, runs. |
| `WordTokens` | How a text is cut into words, as operators. |
| `WordDiff`, `WordProperties` | Excluded time, the table of distances, the walk back, the verdict; their reference definitions. |
| `MCOneTask`, `MCTwoTasks`, `MCRestoreAudit`, `MCWords` | Instances for TLC. |
| `StoreProofs` | Store: types, the corpus pointer, work and rounds, one task per annotator; history, credit, evidence, independence, audit, cuts, bars, offboarding. |
| `RequestProofs` | The locks of all requests; the safety properties of sessions. |
| `AdminProofs` | The safety properties of the console. |
| `DraftProofs` | Requests in general; saving and the refinement with `MaxOnline = 0`. |
| `ProcessingProofs`, `SourceProofs`, `ImportProofs` | The lease on a file; the two imports. |
| `WordProofs` | The comparison: its words, its verdict, its excluded time. |

### How state and actions correspond to the code

A task is one record: the columns of its `annotation_tasks` row, its versions and
rounds as functions from their numbers, its assignment, its participants and its
blocks. Row numbers stand for UUIDs; 0 is SQL `NULL`. A version's text is
identified by number and `revision` (every write of a segment bumps it); `cut`
counts how often preprocessing replaced the machine segmentation.

A database transaction is one action. The code justifies it: each transaction
locks the annotator first (`_lock_active_annotator`, `_lock_users_stable`,
`_lock_annotators_stable`), then assignment, task, round and version rows, and
raises out of `db_tx` on any failed condition, which rolls everything back. So an
action either makes all its changes or is no step. Two things are not atomic and
are modelled in steps: `submit_cross_check` (`BeginSubmit`, then `CommitSubmit` or
`FailSubmit`; everything may happen in between), and the timestamp of a claim,
which is when its transaction *started*: `Claim`'s parameter `began` is the newest
admin action that had begun by then, any number up to the newest one recorded.
Revoke and deactivate actions are numbered in the order they commit and are assumed
to begin in that order.

Abstracted, because no property tells the difference: text and audio, reviews,
scene data, events, wording, sampling of candidates (`Claim` and `ClaimCrossCheck`
take any task that qualifies), `eligible`, the comparison's arithmetic (its outcome
is a choice; a skip of an annotated original always needs review), lease tokens and
`expected_revision` (a caller who holds the assignment passes both), session fences
and the operation log. All tasks exist from the start, preprocessed or imported.
Nothing in the code reactivates an annotator. An imported published version's human
flag is always set, since nothing reads it after publication. One submission per
annotator runs at a time.

### Sessions

The row of `active_sessions` is a record; names share nothing, so one is modelled.
Session ids are numbered by the login that drew them (the code draws a fresh UUID
each time). Instead of clock readings the row keeps what is left until its two
deadlines and how long ago its browser was last seen and its user last active;
`Tick` moves them, and they stop where no transaction or property can tell the
difference, so time is unbounded though the state is finite.

A request has two steps. `Send...` is the route: `login_required` reads the session
without a lock and hands on the fence; login and logout just carry the cookie. The
commit comes up to `MaxLag` ticks later, and its `lag` is how long before that its
transaction began: `now()` in PostgreSQL is that moment, however long the
transaction then waited for `annotators` or `active_sessions`. `Fail` is every
refusal and error, `Deliver` and `Lose` are the fate of an answer's `Set-Cookie`.
A write stands for any of the six fenced handlers: lock the annotator, check the
fence, do the work, touch the row. Its effect on tasks is `AnnotationStore`'s, whose
actions assume the fence held; `OnlyTheHolderWrites` is that assumption. Tokens stay
usable until they are too old, so one may be sent twice.

Left out: the event log of sessions, cookies from before generations existed (a
one-time bridge of migration 006), `assignments.last_activity_at`, and what the page
shows or freezes once it is told of a timeout; the model lets every browser go on.

### Draft synchronisation

A text is, segment by segment, the number of the edit that last changed it; the scene
review counts as a segment. The page's three coroutines (`flushDirty`, `submitTask`,
`replayOutbox`) are states that advance by one action per stretch between two awaits;
the working draft and the outbox are variables of their own because they outlive
`Close`, which is also a crash. A request is a message; `BreakOff` is a fetch that
rejects while its request may still arrive, `LoseAnswer` and `ServerError` are the other
faults. `Serve` is the whole transaction: replay from `operations`, lease and revision,
the update. `Release`, `ClaimHere`, `ClaimInOtherTab` and `EditElsewhere` are what else
happens to the task. `WorkOnlyAdvances` is the refinement: with `text` and `stage` read
off the server, every behaviour is one of `SavedWork`, in which late, repeated or foreign
requests do not exist.

### Administrator's console

A request is a slot that goes through the stages between which others run: sent,
admitted (`admin_write_required` looks up and touches the session), begun (`now()` is
fixed), applied or refused under the advisory lock of its operation id, recorded,
answered. A form's operation id is drawn when it opens; the reason decides whether a
retry is the same request (`SameRequest`). Three kinds of write stand for the write
routes: `revoke` (an expected version), `deactivate` (no expectation), and the claim
scope (an expected revision); the others use the same `_begin_admin_action`.

### Preprocessing lease

A worker is a program counter with the token it was given, the text it has computed and
the time its transaction began. Transactions that may have to wait for the row take
`Begun`, any time since the worker last committed, as their `now()`. `Reject`
renames the file and writes the row; `Commit`, `CommitRaises` (which may have committed
nevertheless) and `Unlink` follow; `Crash` may come between any two. `Claim`, `GiveUp`
and `Keep` are annotators, who do not look at the token.

### Locks

A request is a list of stages as in its Python function. At the beginning of a stage the
rows decide whether it raises and which rows its statements lock, in which of
PostgreSQL's four modes; foreign keys' `KEY SHARE` locks are included, `SKIP LOCKED`
skips. Writes take effect at `CommitRows`, which ends the locks. Waiting in a circle is
`DeadlockDetected`, which rolls one back. Each annotator has published one task and may
be at a correction of it or at the cross-check of another's. A claim tries one candidate;
the 64 attempts of the code only decide between one more try and the answer "busy".
`LocksSuffice` is what lets `AnnotationStore` take transactions as single steps.

### Imports

`LegacyImport`: a document is what `normalize_legacy` keeps of a file: recording, status,
author, last editor, machine or human text. `TakeInventory` and `Inspect` make the
manifest; `Begin`, one `Skip`, `Insert` or failure per item, `Assign` and `Commit` are
one transaction over `tx`, with the claims of annotators in between in `db`; `Edit`
changes the directory, `Crash` loses the transaction. Claiming, saving and completing are
kept to what an import or export can see. A manifest's digests are the documents
themselves. Whoever claimed a task that the transaction has locked waits (`Locked`).

`SourceImport`: a task is its path; a record names video, path, key, sound and the rest.
The audio is placed in one step, `Lock` takes the batch, path and identity rows, `Import`
is the record's transaction, `Raise` an error that ends the import. `Scan` is
`preprocess.py` taking up a file it finds. Predictions, dry runs and the adapters'
parsing are left out, and a batch has one source root.

### Comparison

The pass over the characters is a recursive function; seven characters stand for Unicode,
one for each answer the pass asks of a character. The table is filled cell by cell and walked back in
the code's order of preference; the budget, the threshold in basis points and the reasons
are the code's integers. `AnnotationStore` takes the outcome as a choice, which covers
every verdict.

### Faults

These definitions are faults, that is, what a plausible slip would make of the
definition that follows them; no specification uses them: `Forgot...` (a dropped
condition, reset or case), in the sessions `SlidingDeadline`, `UncappedDeadline`,
`SeenIsActivity` and `LogsOutAnyone`; in `DraftSync` `ClearedAnyway` (edits made since
are taken for saved), `NeverReplayed`, `RevisionIgnored` and `SettledOnce` (no second
save after one that edits overtook); in `ProcessingLease` `AlmostActive`,
`HoldsUntilTaken` and `RejectedInPool`; in `WordTokens` `AnyNext`, in `WordDiff`
`Unmerged`; in `LegacyImport` `NeverChanged` and `NeverDifferent`; in `LockOrder`
`TaskFirst`; in `SourceImport` `NobodyElses` and `NeverBad`. Each property of a passing
run is violated when one of them replaces its successor, so each run is known to reach
what its properties are about.

## Runs

| Run | Instance | Shows |
|---|---|---|
| `cross_check_races` | 1 task, 3 annotators, 4 versions, 2 rounds, 1 admin action, 1 save, 1 re-segmentation | the orders in which annotators, administrator and preprocessing can meet on one task |
| `second_rounds` | 1 task, 3 annotators, 5 versions, 2 rounds, 2 admin actions | what a second round does after a decision, cancellation or invalidation; repeated revoke, restore and offboarding; `CorpusInv`, the invariant that is proved |
| `two_tasks` | 2 tasks, 2 annotators, 3 versions each, 1 round, 1 admin action | batches, offboarding across tasks, one task per annotator |
| `restore_after_claim` | 1 task, 2 annotators, 1 admin action, no rounds | a finding (below) |
| `sessions` | 2 browsers, 2 logins, 2 messages under way, deadlines of 2 and 3 ticks, a lease of 2, token life and lag of 1; fair | what overtakes what between check and commit; that a name comes free |
| `draft_sync` | 1 page, 2 segments, 2 edits, 2 operation ids, 1 fault, 2 openings, 1 online event, 2 leases; fair | that saved means saved, refinement of `SavedWork` (both with one online event; three break them, see Proofs), and that edits arrive |
| `processing_lease` | 2 workers, 2 segments, 3 leases, 1 failure, 1 crash, every option on | expiry during transcription, waiting transactions, parking |
| `admin_console` | 1 annotator, 2 sessions, 2 forms, 2 submissions, 2 versions | retries, late answers, sign-outs and expiries |
| `word_comparison` | all texts of up to 5 characters, all pairs of texts of up to 4 words, all pairs of up to 3 segments in 4 ms | the comparison against its definitions |
| `legacy_import` | 2 files, 2 recordings, 1 name, 1 edit, 1 crash, 1 save or completion per task | re-runs, edits and work during imports |
| `lock_order` | 2 requests of 16 kinds, 2 annotators, 2 administrators | who waits for whom |
| `source_import` | 2 importers, 2 batches, 1 video, 2 paths, 2 sounds, 2 records, 1 crash, 1 re-run, 1 file taken up | imports that meet, die, or are run again |

Further instances state what a document says and the code does not do, or a liveness
property that needs an instance of its own; see Findings and Fairness. Each is run as
`tlc -config X.cfg Module`.

Bounds. Three annotators are an author, a second transcriber and one more who takes
over; annotators are interchangeable, so symmetry is used (no run of the store checks
liveness). Four versions are the baseline, a first result and two more (a correction or
clean draft, and a second transcription or an edit); five add one after that. A round or
version beyond the bound is simply not created: the guard `RoomForVersion` and
`ts.rounds < MaxRounds` name these limits, `MaxSaves`, `MaxCuts` and `MaxActions` the
others. `MaxSaves` limits only what autosave does; completions and frozen submissions
bump the revision all the same. Runs with `MaxSaves = 0` leave saving to
`cross_check_races`.

Two logins are what a takeover or logout needs to be followed by another login while a
token, cookie or request of the first is still about; what is then possible with the
third is proved, for any number. The ticks are the smallest that keep the policy's order
and let every deadline pass before, between and after a request's two steps. Configured
values may have any order: the proofs ask only that they are not zero.

Elsewhere: two operation ids are a save and what overtakes it, with two segments so that
an answer can confirm part of what is dirty; three leases of two workers are a holder, a
successor and a return; two submissions are a write and its retry; 16 kinds of request
two at a time are all pairs (more may be under way if the instance names three
transactions and fewer kinds). Four words against four exceed the budget of 12 cells, so
both sides of every limit occur. Two recordings and two files are the smallest directory
in which orders can collide and a re-run may find something new. Symmetry is used where
all values are interchangeable and nothing about liveness is asked.

Fairness. There is no liveness property of the store: each of its steps is
somebody's free decision. `FairSpec` of the sessions assumes that time passes and
that a request which is as old as any becomes an answer or an error, no more:
nobody need log in, be active or receive an answer. The code has no handler that
waits for a person. `NameComesFree` says that with this alone every session becomes
one that a login may replace, whatever its browser keeps sending. That the login that is
then possible happens is up to its user.

`DraftSync` assumes that the page's timers fire, IndexedDB answers and a request that
nobody loses is served; the user, faults and the network's losses are free, and bounded.
`EditsArrive` excepts a page that asks the user (a conflict) and one whose lease is
gone: `flushDirty` takes the 403 it then gets for a network that failed and tries for
ever, although the frontend plan
(`docs/plans/2026-09-20-cross-annotation-quality-frontend-plan.md:505`) asks that such
saves are not resent without end.

Three more liveness properties have instances of their own, with the fairness of their
modules' `FairSpec`: `FrozenArrives.cfg` (`ImportProperties`: a clean directory that
nobody touches is imported, however often the import dies; the operator goes on to
import what he inspected), `RunsFinish.cfg` (`SourceProperties`: every import run ends,
if whoever's import stopped runs it again and PostgreSQL grants locks in the end),
`RequestsEnd.cfg` (`LockProperties`: every request ends, as the database breaks
circles).

The sessions and the lock model are checked for deadlock: time always passes, and a
request can always go on or be rolled back. The others are not, because with the bounds
used up everybody may legitimately have nothing left to do.

## Findings

The code contradicts a document of the repository in these places. The first is a run of
its own; the others are shown by the named instance, whose property is stated under that
name in the module given.

* **Restore misses a claim that overlapped the revoke** (run `restore_after_claim`).
  `admin_restore` compares the claim event's `created_at` with the revoke's; both
  are transaction start times, but the two serialise on the task row. A claim that
  started before the revoke and got the row after it is "older", and once it was
  given up without an edit, `docs/AI辅助研发实践复盘.md:253` ("no new claim since the
  revoke") does not hold of a restore that succeeds.
* **Imported authors are not participants** (`ImportedLate.cfg`, `MCOneTask`,
  `SecondAnnotatorIndependent`). The plan
  (`docs/plans/2026-09-18-cross-annotation-quality-backend-plan.md:616`, also `:172`)
  has importing insert historical authors into `task_annotation_participants`;
  `manage_state.insert_task` does not, only migration 008's backfill does. With
  `Backfilled = FALSE` (files imported after the migration) the second annotator may
  be somebody who edited the very text he is to check.
* **An old submission is replayed over newer edits** (`StaleSubmission.cfg`,
  `DraftProperties`, `LocalWorkKept`). `markDirty` forgets a submission that failed, but
  its outbox item stays (`index.html:695`); the next start replays it and deletes the
  working draft with the newer edits. The takeover plan
  (`docs/plans/session-takeover-offline-recovery-implementation-plan.md:854`) says that
  unconfirmed local edits can be restored or exported.
* **The copy in conflict is overwritten** (`ConflictOverwritten.cfg`, `DraftProperties`,
  `ConflictCopyKept`). `recoverOutboxAfterOnline` persists the page's draft while the
  dialog at `index.html:418` says that the local copy "has not been applied or
  overwritten". Together with the replay of an item of an earlier lease this loses a
  saved edit; the schedule is under Proofs, Drafts.
* **Two circles of waiting** (`AbandonMeetsReopen.cfg`, `DecideMeetsDeactivate.cfg`,
  `LockProperties`, `NoCircularWait`). The event at the end of abandoning a cross-check
  (`annotation_repository.py:1375`) refers to the task after the round was locked, and a
  reopening locks them the other way round; a deactivation (`:5257`) reaches the second
  annotators of withdrawn results after it locked the tasks' owner, a decision locks both
  in order of ids. Nothing turns PostgreSQL's error into an answer.
  `tests/test_regression_scope_locking.py:52` calls a raw `DeadlockDetected` never
  acceptable; the quality plan, `:525-532` and `:669`, gives the orders. `LocksSuffice`
  says that these, and a revocation that meets a new claim, are all.
* **An untouched import may fail its verification** (`ImportVerifies.cfg`,
  `ImportProperties`). `row_to_legacy` (`manage_state.py:901`) writes an author key for
  every finished task, also where the file had none, so the round trip of `README.md:24`
  is not exact for such files.
* **A conflict of contents is taken for a lost race** (`SoundChanged.cfg`,
  `SourceProperties`, `SameVideoSameSound`). `import_one_record`
  (`annotation_metadata/ingestion.py:586`) catches the error, finds the identity and goes
  on; `docs/plans/scene-provenance-implementation-plan.md:129` has such records reported.
  A related error, two records with an explicit key that name different recordings
  (`:641`), ends the import without a report; `RunsFinish` does not hold with
  `ExplicitKeys = TRUE`.
* **The tolerance ends at gaps** (`MillisecondGap.cfg`, `MCWords`, `ToleranceKept`). Ranges
  are merged only where they touch exactly (`annotation_quality/comparison.py:391`), so
  endpoints a millisecond apart may conflict; the quality plan, `:296`, promises 1 ms.

## Proofs

Every listed theorem holds for all values of the constants: any sets of annotators,
tasks, browsers, workers, segments, files; any bounds. The assumptions are those named in
the modules: bounds are naturals, times are positive, `NoUser` is no annotator, "nothing"
is no file or name, there is a task and finitely many of them; transcripts that are
compared leave out finitely many segments that overlap by at most a millisecond, as
validation leaves them (`IsTranscript`); annotators' ids are ordered like numbers
(`AnnotatorsAreIds`), `None` is no annotator or state, the pool has finitely many
connections (`PoolIsFinite`), and requests are among the sixteen kinds
(`OperationsAreKnown`). Two kinds of theorems ask for more where the code does
(`Backfilled`, `MaxOnline = 0`, below).

*Types* (`TypeCorrect`). `TypeOK` is inductive as it stands because it says, beyond the
types, that an open round names both its versions: `CrossCheckInvalidated` and
`EvidenceMatches` index the versions by them. There is a lemma per row update, then one
per transaction, then the steps of the store.

*The corpus pointer* (`CorpusInvHolds`). `CorpusPointer` alone is not inductive:
  * completion publishes the assignment's version, so work must be on a draft
    (else a superseded version could be published twice);
  * restore takes its status from the version it brings back, and a decision from
    the frozen one, so such versions must carry an outcome, not "pending";
  * a decision publishes the round's second version, so it must still be frozen, and
    there must not be a second open round about it;
  * new versions must be new, so numbers above `versions` are unused.

`CorpusInv` adds exactly these. The work is in revoke and offboarding, which compose
several transformers; each keeps a weaker invariant that the last restores.

*Work and rounds* (`WorkInvHolds`: `WorkAgrees`, `RoundAgrees`, `OneTaskPerUser`). From
here on, a transaction is a relation between the task before and after, column by column
(what happens to the assignment, to the drafts, to the rounds); `TaskMoves` says once
which relation each action is for each task, so that a property costs one lemma per
relation and not one per action and task. `WorkInv` adds that a reservation is for pending
work that nobody has and that the items of a recorded action name versions of their tasks.
`OneTaskPerUser` follows from the annotator's lock: a claim, a cross-check claim and a
reopening look at all tasks in the step that assigns one.

*What the rows tell* (`EvidenceInvHolds` and the theorems after it). One relation, `RowMove`, lists what may happen
to one version, decisions apart; `PlainStep` and `RoundsClosed` say what happens to
rounds. Then:
  * `EvidenceMatches`, `FinalIsDecided`: a comparison is stored only if the digest of its
    inputs is that of the rows, and frozen rows do not move while the round is open;
  * `HistoryIsImmutable`, `PooledWorkKept`, `CreditIsEarned`: read off `RowMove`. Revocation
    and offboarding compose several updates in one step; the composition is shown to be one
    move, because what follows the first finds the task without an assignment (`free`);
  * `SecondAnnotatorIndependent`, with `Backfilled = TRUE`: every author of a version is in
    the participant table from its first write on. Without `Backfilled` it is false (see
    Findings);
  * `AuditAgrees`: a revoked version and its action name each other, and a bar names the
    action that revoked a result of the barred annotator;
  * `CutsAgree`, `BarredStaysOut`: need that what a revocation may bring back was made from
    today's segmentation and by nobody who is barred otherwise, which is `ItemsOf`;
  * `OffboardedOutOfCorpus`: a deactivated annotator holds nothing and has nothing reserved.

*Locks* (`RequestProofs`). `LocksSuffice` says two things, and neither is inductive: that
no circle of waiting closes but through the three statements of `AsksLate`, and that
`Consistent` survives although a request decides in one stage what it writes after others.
Both need to know what every transaction holds and is still going to ask for. `LockInv`
says, for any number of connections:
  * no two transactions hold conflicting locks (`Exclusive`);
  * every lock held is `Backed`: who locks a draft, a round or a published result has
    locked the task, round or annotator that whoever wants it locks first (saving and
    abandoning lock the round of the work at hand without its task);
  * what is still asked for is `InOrder`: above everything held by then (`Lower`: by kind
    of row, and by id among annotators and assignments), or exempt, since the lock does not
    wait (`SKIP LOCKED`, a row already locked), since nobody who holds the row can be
    waiting for this transaction in turn, or since it is one of the three;
  * a stage has taken the locks that later ones rely on (`HasLocks`), and what it saw and
    they rest on is still so (`Relies`).

`EveryStage` goes through the stages of the sixteen kinds: one that goes on stays in order.
`CommitKeeps` is about what others saw: a commit changes only rows whose locks it holds,
and these exclude the locks of whoever relies on them (`Effect`, `OthersRely`). In a circle
without the three statements, whom one waits for stands higher (`Height`) or waits among
annotators or assignments for a greater id (`HigherUp`); a finite circle has a highest
member, and it waits for nobody. The circles that are left are real: two are under
Findings.

*Sessions* (`RequestProofs`). `SessionInv` adds to the types that a cookie, an answer
under way or a request which names the last login's session belongs to the browser that
made this login; a takeover request is the exception, since its token was shown to
somebody else. With it, a fence that matches the row is the holder's fence.
`AbsoluteIsFinal` follows because every update of the idle deadline keeps it before the
absolute one.

*Preprocessing lease* (`ProcessingProofs`). Leases are numbered, so a worker whose number
is not the row's can never store again; its number may be the row's only if it was given
last. For `AudioFollowsRow` the invariant says what a worker between renaming and commit,
or between commit and deletion, relies on: the row is settled or the file can still be put
back, whoever dies.

*Console* (`AdminProofs`). Everything that carries a form's id, which is the form on the
screen, its requests and rows of the log, is about one write. A dialog's requests share an
operation id, so the log recognises the second one; a scope editor's do not, but the first
leaves a revision that no other of that form expects. `SignedOutStaysOut` needs no
invariant: the second look at the session is in the step that writes.

*Imports.* `SourceProofs`: an import decides on what it read when it took the locks;
`ImportInv` says that this still stands when it writes, that evidence is one chain, and
that what an import has passed is recorded. It needs no order of importers, reruns or
crashes. `ImportProofs`: the legacy import's transaction differs from the committed rows
in nothing but what it inserted and whom it assigned, although annotators commit between
its steps; and a row says the same as its file, or says who changed it.

*Comparison* (`WordProofs`). These are statements about data, for texts of any length, and
need induction; the library's induction theorems take a predicate, so `LeastOf` and
`Induction` say the same of a set of numbers. Recursions are functions (`FoldedTo`, `Pass`,
`MergedTo`, `dp`), and each is first shown to satisfy its equation.
  * `VerdictExact`: `WordInv` says that a filled cell holds the least cost of an alignment
    of the words before it (`Best`), and that cost of the cell reached and operations
    recorded add up to the distance. `CellIsBest` is the recurrence: an alignment of the
    first i with the first j words pairs the last two, or leaves one of them out
    (`Paired`, `Unpaired`, `DropOriginal`, `DropSecondary`). A cell is the minimum of its
    neighbours', so one of the four cases of the walk applies.
  * `WordsAsDefined`: after k characters the pass has turned the runs that ended before the
    k-th into words, and holds the word of the run that is open there (`PassAt`). Spans do
    not overlap because only an apostrophe and the letter after it can share one, and an
    apostrophe that is not dropped is in no word.
  * `ExcludedTimeExact`: sorting is a bijection (`RanksTellApart`), merging one more segment
    covers what it covers and leaves the ranges apart (`AbsorbKeeps`), and only one sequence
    of ranges that lie apart covers a given set (`OneSetOfRanges`).

*Drafts* (`DraftProofs`). `NoSecondOpinion` holds in general: the server's lease and
revision never go back, so a request that was refused stays refused (`RefusedIsDead`), and
one that took effect is in `operations`. `SavedMeansSaved` and the refinement of `SavedWork`
are proved for `MaxOnline = 0`, a page that replays its outbox when it is opened and not
while it is open. The invariant says of every carrier of text (page, working draft,
outbox, requests under way) that it is exactly the server's text but for the segments it
calls dirty, or that its revision is too old for anything it sends to be accepted.

With "online" events this is false of the code, and these two properties with it. The run
`draft_sync` has one such event and does not reach it; with three, three faults and four
openings of the page, TLC finds (when led along the schedule): an item of an earlier lease was
applied and its answer lost, so it stays in the outbox; after a new claim and newer saves
`recoverOutboxAfterOnline` replays it and sets the page's revision back to the one it
recorded (`index.html:389`). The next save is posted, and the page is closed before it is
served; on reopening the replay fails and the revisions differ, so the dialog appears; a second
"online" event overwrites the draft with a clean copy (`ConflictOverwritten` above), and
the page, once reopened, shows neither the save nor a conflict. When the third replays
that save, the page adopts its revision without its text, and handing in writes the older
text over it. The repair is in one place: not to take a revision from a replayed item that
is not about the page's own lease and newest revision.

### What is only model-checked

  * Liveness (`NameComesFree`, `EditsArrive`, and the three instances above): out of the
    prover's reach, as is `ENABLED`.
  * `SavedMeansSaved` and `WorkOnlyAdvances` with an "online" event, within the bounds of
    `draft_sync` only (see above).

## Plan

Done: the store with quality, administration and preprocessing's effect; sessions; draft
synchronisation with its refinement; the preprocessing lease; lock order; the
administrator's console; the comparison; both imports; the proofs above. Every safety
invariant a passing run checks has a theorem, with `MaxOnline = 0` for `SavedMeansSaved`.
What remains is `SavedWork` with "online" events after a page that keeps to the revisions
of its own lease, as a variant that shows the repair suffices.

## Not modelled

Voice detection, speech recognition and classification are numerics without shared state.
Exports (training data, metadata, the archive of top annotators), dashboards and listings
read and format; their readers see one snapshot and write nothing. The import side of
metadata exchange validates a file against the store and is one transaction. Predictions,
scene reviews and the taxonomy are rows beside the annotations: only the locks of a
correction and of scope changes are modelled, and claims take any task that qualifies.
Rendering and the login dashboard keep no state that survives them. The sign-in limiter
counts in one process's memory. Backup and cutover scripts drive PostgreSQL's own tools.
The duration of a version is a number derived from its segments.

Within what is modelled: the event logs, purging of old drafts in IndexedDB, dry runs,
and ingestion while a legacy import runs (the migration guide imports first). Database
constraints are not guards: the properties say the code never relies on them to refuse a
step, with two exceptions, the `ON CONFLICT DO NOTHING` of a claim, which is in `Claim`'s
guard, and the unique `allocation_order` of an import (`OrderTaken`).
