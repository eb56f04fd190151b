----------------------------- MODULE SourceImport -----------------------------
(***************************************************************************)
(* The import of crawler manifests (ingestion.py): the audio is placed in  *)
(* the website's directory first, then one transaction per record finds or *)
(* creates the task, binds the video's identity to it and appends the      *)
(* record's evidence.  Imports run side by side, die and are run again,    *)
(* and preprocess.py meets files that an import has placed.                *)
(*                                                                         *)
(* A task is named by its rel_path, which is unique and never changes.     *)
(***************************************************************************)
EXTENDS Naturals, Sequences, FiniteSets

CONSTANTS
    Importer,          \* processes that import, each a snapshot into a batch
    Batch, Video, Path, Key,
    Sound,             \* the PCM content of a file
    Note,              \* the rest of a record: scene, confidence, channel
    None,              \* no video, no task, no file, no digest, no run
    Lines,             \* bound: records of the manifest
    ExplicitKeys,      \* records carry a record_key of their own
    MaxReruns,         \* bound: imports of a snapshot that was finished
    MaxCrashes,        \* bound: imports that die
    MaxScans           \* bound: files that preprocess.py takes up

\* What is kept of a task, and what a run says of itself.
TaskRow == [aliases : SUBSET Path, sound : Sound \cup {None}]
RunStatus == {"running", "completed", "partial", "failed"}

ASSUME SourceAssumption ==
    /\ {MaxReruns, MaxCrashes, MaxScans} \subseteq Nat /\ Lines \in Nat \ {0}
    /\ ExplicitKeys \in BOOLEAN
    /\ None \notin Video \cup Path \cup Sound \cup TaskRow \cup RunStatus

VARIABLES
    manifest,     \* the crawler's records
    job,          \* what each importer imports: batch and lines; fixed
    files,        \* the website's audio directory
    tasks,        \* the tasks' paths with aliases and PCM digest
    identities,   \* task_media_identities
    sources,      \* task_sources
    runs,         \* source_import_runs
    importer,     \* what each importer holds in memory and in its transaction
    faults        \* the bounds' counters

vars == <<manifest, job, files, tasks, identities, sources, runs, importer, faults>>

Record == [video : Video \cup {None}, path : Path, key : Key, sound : Sound, note : Note]

\* record_key_for: without a key of its own a record is named after its video, and after
\* its path when it has none.
KeyNamesRecord(r, s) ==
    r.key = s.key => IF r.video = None THEN s.video = None /\ s.path = r.path
                     ELSE s.video = r.video

\* One source root holds one file under a path.
Manifest(m) ==
    \A a, b \in DOMAIN m :
        /\ m[a].path = m[b].path => m[a].sound = m[b].sound
        /\ ExplicitKeys \/ KeyNamesRecord(m[a], m[b])

\* A snapshot of a file that grows, or a later file.
Snapshot == {s \in (1 .. Lines) \X (1 .. Lines) : s[1] <= s[2]}

Row == [batch : Batch, key : Key, revision : Nat \ {0}, current : BOOLEAN,
        task : Path, path : Path, digest : Note \X Sound \X (Video \cup {None})]

Idle == [at |-> "idle", line |-> 0, row |-> None, known |-> None, good |-> FALSE, bad |-> FALSE]

Run(i) == <<job[i].batch, job[i].snapshot>>
Rec(i) == manifest[importer[i].line]
Goes(i, at) == importer' = [importer EXCEPT ![i].at = at]

Tasks == {p \in Path : tasks[p] # None}

-----------------------------------------------------------------------------
(* The run                                                                 *)

\* lookup_identity
Known(r) == IF r.video = None THEN None ELSE identities[r.video].task

HoldsBatch(i, b) == importer[i].at = "locked" /\ job[i].batch = b

\* The rows a transaction has locked: the path's task and the identity's.
HoldsTask(i, t) == importer[i].at = "locked" /\ t \in {importer[i].row, importer[i].known}

HoldsVideo(i, v) == importer[i].at = "locked" /\ Rec(i).video = v

Unfinished(run) == run \in {None, "running"}

\* begin_import_run: a run that is there is taken as it is.  ensure_batch waits for a
\* transaction that has touched the batch.
BeginRun(i) ==
    /\ importer[i].at = "idle"
    /\ \A j \in Importer : ~ HoldsBatch(j, job[i].batch)
    /\ IF Unfinished(runs[Run(i)]) THEN faults' = faults
       ELSE faults.reruns < MaxReruns /\ faults' = [faults EXCEPT !.reruns = @ + 1]
    /\ runs' = [runs EXCEPT ![Run(i)] = IF @ = None THEN "running" ELSE @]
    /\ importer' = [importer EXCEPT ![i] = [Idle EXCEPT !.at = "next", !.line = job[i].snapshot[1]]]
    /\ UNCHANGED <<manifest, job, files, tasks, identities, sources>>

Counted(i, good) ==
    LET p == importer[i] IN
    importer' = [importer EXCEPT ![i] =
        [p EXCEPT !.at = "next", !.line = p.line + 1, !.row = None, !.known = None,
                  !.good = p.good \/ good, !.bad = p.bad \/ ~ good]]

NeverBad(p) == "completed"

Outcome(p) ==
    IF ~ p.bad THEN "completed" ELSE IF p.good THEN "partial" ELSE "failed"

FinishRun(i) ==
    /\ importer[i].at = "next" /\ importer[i].line > job[i].snapshot[2]
    /\ runs' = [runs EXCEPT ![Run(i)] = Outcome(importer[i])]
    /\ importer' = [importer EXCEPT ![i] = Idle]
    /\ UNCHANGED <<manifest, job, files, tasks, identities, sources, faults>>

AtRecord(i) == importer[i].at = "next" /\ importer[i].line <= job[i].snapshot[2]

\* The crawler has not finished the record, or its file fails the checks.
NotReady(i) ==
    /\ AtRecord(i) /\ Counted(i, FALSE)
    /\ UNCHANGED <<manifest, job, files, tasks, identities, sources, runs, faults>>

\* place_audio: never over another sound.
Place(i) ==
    /\ AtRecord(i)
    /\ IF files[Rec(i).path] \in {None, Rec(i).sound}
       THEN /\ files' = [files EXCEPT ![Rec(i).path] = Rec(i).sound]
            /\ Goes(i, "placed")
       ELSE Counted(i, FALSE) /\ files' = files
    /\ UNCHANGED <<manifest, job, tasks, identities, sources, runs, faults>>

\* The transaction begins: the batch's row, the identity's advisory lock, the path's task
\* and the identity's, in this order.
Lock(i) ==
    LET row == IF Rec(i).path \in Tasks THEN Rec(i).path ELSE None IN
    /\ importer[i].at = "placed"
    /\ \A j \in Importer \ {i} :
          /\ ~ HoldsBatch(j, job[i].batch)
          /\ Rec(i).video # None => ~ HoldsVideo(j, Rec(i).video)
          /\ \A t \in {row, Known(Rec(i))} \ {None} : ~ HoldsTask(j, t)
    /\ importer' = [importer EXCEPT ![i].at = "locked", ![i].row = row, ![i].known = Known(Rec(i))]
    /\ UNCHANGED <<manifest, job, files, tasks, identities, sources, runs, faults>>

-----------------------------------------------------------------------------
(* One record                                                              *)

\* The row was looked for before another transaction created it.
CreatedSince(i) == importer[i].row = None /\ Rec(i).path \in Tasks

\* The identity's task; else the path's, created as a placeholder when there is none.
Chosen(i) == IF importer[i].known # None THEN importer[i].known ELSE Rec(i).path

Mismatched(i) ==
    importer[i].known # None /\ importer[i].row # None /\ importer[i].known # importer[i].row

\* content_digest, of a record that declares its PCM digest.
Digest(r) == <<r.note, r.sound, r.video>>

Current(b, k) == {s \in sources : s.batch = b /\ s.key = k /\ s.current}

NobodyElses(i, t) == FALSE

Elsewhere(i, t) == \E s \in Current(job[i].batch, Rec(i).key) : s.task # t

Unchanged(i) == \E s \in Current(job[i].batch, Rec(i).key) : s.digest = Digest(Rec(i))

NextRevision(old) == IF old = {} THEN 1 ELSE (CHOOSE s \in old : TRUE).revision + 1

\* sync_source_record
Synced(i, t) ==
    LET r == Rec(i)  old == Current(job[i].batch, r.key) IN
    IF Unchanged(i) THEN sources
    ELSE (sources \ old) \cup {[s EXCEPT !.current = FALSE] : s \in old}
         \cup {[batch |-> job[i].batch, key |-> r.key, revision |-> NextRevision(old),
                current |-> TRUE, task |-> t, path |-> r.path, digest |-> Digest(r)]}

\* create_placeholder_task, the digest unless there is one, register_path_alias.
WithPath(t, path, sound) ==
    LET was == IF tasks[t] = None THEN [aliases |-> {}, sound |-> None] ELSE tasks[t] IN
    [tasks EXCEPT ![t] = [aliases |-> was.aliases \cup ({path} \ {t}),
                          sound   |-> IF was.sound = None THEN sound ELSE was.sound]]

\* attach_identity binds an identity that nobody has bound.  Of one with another digest
\* it raises, and import_one_record goes on with the task that the identity is found at.
Attached(r, t) ==
    IF r.video = None \/ Known(r) # None THEN identities
    ELSE [identities EXCEPT ![r.video] = [task |-> t, sound |-> r.sound]]

Conflict(i) ==
    /\ importer[i].at = "locked" /\ Mismatched(i)
    /\ Counted(i, FALSE)
    /\ UNCHANGED <<manifest, job, files, tasks, identities, sources, runs, faults>>

Import(i) ==
    LET r == Rec(i)  t == Chosen(i) IN
    /\ importer[i].at = "locked" /\ ~ Mismatched(i) /\ ~ Elsewhere(i, t)
    /\ CreatedSince(i) => \A j \in Importer : ~ HoldsTask(j, r.path)
    /\ tasks' = WithPath(t, r.path, r.sound)
    /\ identities' = Attached(r, t)
    /\ sources' = Synced(i, t)
    /\ Counted(i, TRUE)
    /\ UNCHANGED <<manifest, job, files, runs, faults>>

\* What import_one_record does not catch ends the import: evidence of another task, and
\* a path that another transaction created after it was looked for.
Raise(i) ==
    /\ importer[i].at = "locked" /\ ~ Mismatched(i)
    /\ Elsewhere(i, Chosen(i)) \/ (importer[i].known = None /\ CreatedSince(i))
    /\ importer' = [importer EXCEPT ![i] = Idle]
    /\ UNCHANGED <<manifest, job, files, tasks, identities, sources, runs, faults>>

Crash(i) ==
    /\ importer[i].at # "idle" /\ faults.crashes < MaxCrashes
    /\ faults' = [faults EXCEPT !.crashes = @ + 1]
    /\ importer' = [importer EXCEPT ![i] = Idle]
    /\ UNCHANGED <<manifest, job, files, tasks, identities, sources, runs>>

-----------------------------------------------------------------------------
(* preprocess.py takes up a file of the website's directory.               *)

\* find_task_row_for_audio_path: a task's own path before an alias, before the path
\* in its evidence.
Found(p) ==
    IF p \in Tasks THEN {p}
    ELSE LET aliased == {t \in Tasks : p \in tasks[t].aliases} IN
         IF aliased # {} THEN aliased
         ELSE {s.task : s \in {x \in sources : x.current /\ x.path = p}}

\* begin_audio_processing.  place_audio brings no sidecar, so there is no identity.
Scan(p) ==
    /\ files[p] # None /\ faults.scans < MaxScans
    /\ \E t \in IF Found(p) = {} THEN {p} ELSE Found(p) :
          /\ \A i \in Importer : ~ HoldsTask(i, t)
          /\ tasks' = WithPath(t, p, None)
    /\ faults' = [faults EXCEPT !.scans = @ + 1]
    /\ UNCHANGED <<manifest, job, files, identities, sources, runs, importer>>

-----------------------------------------------------------------------------
Job == [batch : Batch, snapshot : Snapshot]

Init ==
    /\ manifest \in {m \in [1 .. Lines -> Record] : Manifest(m)}
    /\ job \in [Importer -> Job]
    /\ files = [p \in Path |-> None]
    /\ tasks = [p \in Path |-> None]
    /\ identities = [v \in Video |-> [task |-> None, sound |-> None]]
    /\ sources = {}
    /\ runs = [r \in Batch \X Snapshot |-> None]
    /\ importer = [i \in Importer |-> Idle]
    /\ faults = [reruns |-> 0, crashes |-> 0, scans |-> 0]

Work(i) == NotReady(i) \/ Place(i) \/ Conflict(i) \/ Import(i) \/ Raise(i) \/ FinishRun(i)

Next ==
    \/ \E i \in Importer : BeginRun(i) \/ Lock(i) \/ Work(i) \/ Crash(i)
    \/ \E p \in Path : Scan(p)

Spec == Init /\ [][Next]_vars

\* Whoever's import stopped runs it again; PostgreSQL grants a lock in the end.
FairSpec ==
    /\ Spec
    /\ \A i \in Importer : WF_vars(Work(i)) /\ SF_vars(Lock(i)) /\ SF_vars(BeginRun(i))
=============================================================================
