------------------------------ MODULE LegacyImport ------------------------------
(***************************************************************************)
(* Legacy JSON files become tasks: a read-only inspection writes a         *)
(* manifest, one transaction imports everything the manifest lists, the    *)
(* result is compared with the manifest, and the store can be exported as  *)
(* JSON again.  The operator may edit the files meanwhile, the process may *)
(* die, a later inspection may find more files, and annotators work on     *)
(* what was imported before.                                               *)
(*                                                                         *)
(* A file's content is a document: which recording it is about, whether it *)
(* is "pending" or "done" (annotated or skipped: each has its own author   *)
(* key, and they are treated alike), its author, its last editor, and      *)
(* whether its text is the machine's or a human's.                         *)
(***************************************************************************)
EXTENDS Integers, FiniteSets

CONSTANTS
    Audio,        \* recordings (rel_path)
    Name,         \* user names
    Nobody, None, \* no name (a missing key, a NULL column); nothing else either
    MaxFiles,     \* bound: names a file in the annotations directory may have
    MaxEdits,     \* bound: changes of the directory after the start
    MaxCrashes,   \* bound: imports that die
    MaxRevision   \* bound: saves and completions of one task

ASSUME NumbersAssumption == {MaxFiles, MaxEdits, MaxCrashes, MaxRevision} \subseteq Nat
ASSUME NobodyAssumption  == Nobody \notin Name \cup Audio /\ None \notin Audio

VARIABLES
    disk,      \* the annotations directory: file names (numbers, as they sort) to contents
    held,      \* assignments.json in it: who holds which recording's task
    sounds,    \* the audio directory
    manifest,  \* the manifest file of the last inspection, or None
    taken,     \* an inspection under way: the inventory it has taken, or None
    stage,     \* the import: "idle", "items", "assign", "finish"
    todo,      \* files or names it still has to go through
    tx,        \* rows as its transaction sees them
    db,        \* committed rows
    batches,   \* manifests with a committed batch, by status
    outcome,   \* how the last import ended
    edits, crashes

files   == <<disk, held, sounds, edits>>
import  == <<stage, todo, tx>>
vars    == <<files, manifest, taken, import, db, batches, outcome, crashes>>

File     == 1 .. MaxFiles
\* Not JSON, or JSON that is no annotation.
Broken   == [audio |-> None, status |-> "pending", owner |-> Nobody, editor |-> Nobody, text |-> "asr"]
Document == [audio: Audio, status: {"pending", "done"}, owner: Name \cup {Nobody},
             editor: Name \cup {Nobody}, text: {"asr", "human"}]
NoRow    == [file |-> None]

-----------------------------------------------------------------------------
(* The inspection. *)

Readable(dir) == {f \in DOMAIN dir : dir[f] # Broken}

\* The first file about a recording is its item, a second one an error.
Items(dir) ==
    {f \in Readable(dir) : \A g \in Readable(dir) : g < f => dir[g].audio # dir[f].audio}

\* enumerate() counts every file, the ones with errors too.
Order(dir, f) == Cardinality({g \in DOMAIN dir : g <= f})

FileErrors(dir, present) ==
    {<<"invalid", f>> : f \in DOMAIN dir \ Readable(dir)}
    \cup {<<"duplicate_rel_path", f>> : f \in Readable(dir) \ Items(dir)}
    \cup {<<"missing_audio", f>> : f \in {g \in Readable(dir) : dir[g].audio \notin present}}

ItemOf(dir, t) == CHOOSE f \in Items(dir) : dir[f].audio = t
ListedAudio(dir) == {dir[f].audio : f \in Items(dir)}

AssignmentError(dir, who, n) ==
    IF who[n] \notin ListedAudio(dir) THEN {<<"orphan_assignment", n>>}
    ELSE IF dir[ItemOf(dir, who[n])].status # "pending" THEN {<<"completed_assignment", n>>}
    ELSE IF \E other \in Name \ {n} : who[other] = who[n] THEN {<<"duplicate_task_assignment", n>>}
    ELSE {}

Holders(who) == {n \in Name : who[n] # None}

\* (Of two names with one task the first is no error; either way the manifest is blocked.)
AssignmentErrors(dir, who) == UNION {AssignmentError(dir, who, n) : n \in Holders(who)}

Assignments(dir, who) == {n \in Holders(who) : AssignmentError(dir, who, n) = {}}

\* The only resolution there is: a completed assignment may be ignored, one by one.
Manifest(inventory, dir, who, present, ignored) ==
    [inventory   |-> inventory,
     files       |-> [f \in Items(dir) |-> [doc |-> dir[f], order |-> Order(dir, f)]],
     assignments |-> [n \in Assignments(dir, who) |-> who[n]],
     errors      |-> (FileErrors(dir, present) \cup AssignmentErrors(dir, who))
                     \ {<<"completed_assignment", n>> : n \in ignored}]

\* The inventory is taken first, the files are read after it.
TakeInventory ==
    /\ stage = "idle" /\ taken = None
    /\ taken' = [disk |-> disk, held |-> held, sounds |-> sounds]
    /\ UNCHANGED <<files, manifest, import, db, batches, outcome, crashes>>

Inspect ==
    /\ stage = "idle" /\ taken # None
    /\ \E ignored \in SUBSET {n \in Name : <<"completed_assignment", n>> \in AssignmentErrors(disk, held)} :
        manifest' = Manifest(taken, disk, held, taken.sounds, ignored)
    /\ taken' = None
    /\ UNCHANGED <<files, import, db, batches, outcome, crashes>>

-----------------------------------------------------------------------------
(* The import: one transaction over all items, then the assignments. *)

Imported(t) == tx[t] # NoRow

Refused(why) ==
    /\ stage' = "idle" /\ todo' = {} /\ tx' = db /\ outcome' = why
    /\ UNCHANGED <<files, manifest, taken, db, batches, crashes>>

\* load_manifest refuses a manifest with errors; then the sources must still be the
\* ones inspected, byte by byte.
Unchanged(m) == m.inventory = [disk |-> disk, held |-> held, sounds |-> sounds]

CanLoad == stage = "idle" /\ taken = None /\ manifest # None /\ manifest.errors = {}

Changed == CanLoad /\ ~ Unchanged(manifest) /\ Refused("changed")

\* The same manifest again: its batch is returned, or an unfinished one reported.
Repeated ==
    /\ CanLoad /\ Unchanged(manifest) /\ manifest \in DOMAIN batches
    /\ Refused(IF batches[manifest] = "completed" THEN "already" ELSE "unfinished")

Begin ==
    /\ CanLoad /\ Unchanged(manifest) /\ manifest \notin DOMAIN batches
    /\ stage' = "items" /\ todo' = DOMAIN manifest.files /\ tx' = db
    /\ UNCHANGED <<files, manifest, taken, db, batches, outcome, crashes>>

Next1(f) == stage = "items" /\ f \in todo /\ \A g \in todo : f <= g

\* source_json: the file must be the one inspected; its content is read again.
SameSource(f) == f \in DOMAIN disk /\ disk[f] = manifest.files[f].doc

SourceChanged ==
    /\ \E f \in todo : Next1(f) /\ ~ SameSource(f)
    /\ Refused("changed")

Known(t, doc) == Imported(t) /\ tx[t].file = doc

Skip ==
    /\ \E f \in todo : /\ Next1(f) /\ SameSource(f)
                       /\ Known(disk[f].audio, disk[f])
                       /\ todo' = todo \ {f}
    /\ UNCHANGED <<files, manifest, taken, stage, tx, db, batches, outcome, crashes>>

NeverDifferent(t, doc) == FALSE

Different(t, doc) == Imported(t) /\ tx[t].file # doc

\* allocation_order is UNIQUE; the sequence serves ingested recordings only.
OrderTaken(f) ==
    \E t \in Audio : tx[t] # NoRow /\ tx[t].order = manifest.files[f].order /\ t # disk[f].audio

Collide ==
    /\ \E f \in todo : /\ Next1(f) /\ SameSource(f) /\ ~ Known(disk[f].audio, disk[f])
                       /\ Different(disk[f].audio, disk[f]) \/ OrderTaken(f)
    /\ Refused("collides")

\* A result counts for its author, a pending file keeps its text as a draft.
Row(doc, order) ==
    [file |-> doc, order |-> order, status |-> doc.status, text |-> doc.text, revision |-> 0,
     owner |-> IF doc.status = "done" THEN doc.owner ELSE Nobody, editor |-> doc.editor,
     holder |-> Nobody, reserved |-> Nobody]

Insert ==
    /\ \E f \in todo :
        /\ Next1(f) /\ SameSource(f) /\ ~ Known(disk[f].audio, disk[f])
        /\ ~ Different(disk[f].audio, disk[f]) /\ ~ OrderTaken(f)
        /\ tx' = [tx EXCEPT ![disk[f].audio] = Row(disk[f], manifest.files[f].order)]
        /\ todo' = todo \ {f}
    /\ UNCHANGED <<files, manifest, taken, stage, db, batches, outcome, crashes>>

ItemsDone ==
    /\ stage = "items" /\ todo = {}
    /\ stage' = "assign" /\ todo' = DOMAIN manifest.assignments
    /\ UNCHANGED <<files, manifest, taken, tx, db, batches, outcome, crashes>>

HoldsElsewhere(n, t) == \E other \in Audio \ {t} : tx[other] # NoRow /\ tx[other].holder = n

\* The task must be pending still, and neither it nor its holder taken otherwise.
CanAssign(n, t) == tx[t].status = "pending" /\ tx[t].holder \in {n, Nobody} /\ ~ HoldsElsewhere(n, t)

Assign ==
    /\ stage = "assign"
    /\ \E n \in todo : LET t == manifest.assignments[n] IN
        /\ CanAssign(n, t)
        /\ tx' = [tx EXCEPT ![t].holder = n]
        /\ todo' = todo \ {n}
    /\ UNCHANGED <<files, manifest, taken, stage, db, batches, outcome, crashes>>

CannotAssign ==
    /\ stage = "assign" /\ \E n \in todo : ~ CanAssign(n, manifest.assignments[n])
    /\ Refused("assignment")

ItemEditor(t) == LET f == CHOOSE g \in DOMAIN manifest.files : manifest.files[g].doc.audio = t
                 IN  manifest.files[f].doc.editor

\* Pending work that nobody holds waits for the one who edited it last.
Reserved(t) ==
    IF /\ t \in {manifest.files[f].doc.audio : f \in DOMAIN manifest.files}
       /\ t \notin {manifest.assignments[n] : n \in DOMAIN manifest.assignments}
       /\ ItemEditor(t) # Nobody /\ tx[t].status = "pending"
    THEN [tx[t] EXCEPT !.reserved = ItemEditor(t)]
    ELSE tx[t]

WithBatch(m, status) == [b \in DOMAIN batches \cup {m} |-> IF b = m THEN status ELSE batches[b]]

Commit ==
    /\ stage = "assign" /\ todo = {}
    /\ db' = [t \in Audio |-> Reserved(t)] /\ tx' = db'
    /\ batches' = WithBatch(manifest, "completed")
    /\ stage' = "idle" /\ outcome' = "completed"
    /\ UNCHANGED <<files, manifest, taken, todo, crashes>>

\* What a transaction that did not commit leaves of its batch.
BatchesAfterCrash == batches

\* The process dies: nothing of its transaction stays.
Crash ==
    /\ stage # "idle" /\ crashes < MaxCrashes
    /\ crashes' = crashes + 1 /\ stage' = "idle" /\ todo' = {} /\ tx' = db /\ outcome' = "died"
    /\ batches' = BatchesAfterCrash
    /\ UNCHANGED <<files, manifest, taken, db>>

-----------------------------------------------------------------------------
(* Meanwhile: annotators on committed tasks, unless the import has locked the row
   (it locks the tasks it assigns), and the operator on the directory. *)

Locked(t) == stage = "assign" /\ \E n \in DOMAIN manifest.assignments \ todo : manifest.assignments[n] = t

\* The transaction reads what others committed.
Write(t, row) ==
    /\ ~ Locked(t)
    /\ db' = [db EXCEPT ![t] = row] /\ tx' = [tx EXCEPT ![t] = row]
    /\ UNCHANGED <<files, manifest, taken, stage, todo, batches, outcome, crashes>>

Claim(n, t) ==
    /\ db[t] # NoRow /\ db[t].status = "pending" /\ db[t].holder = Nobody
    /\ db[t].reserved \in {n, Nobody} /\ \A other \in Audio : tx[other] # NoRow => tx[other].holder # n
    /\ Write(t, [db[t] EXCEPT !.holder = n, !.reserved = Nobody])

Save(n, t) ==
    /\ db[t] # NoRow /\ db[t].holder = n /\ db[t].revision < MaxRevision
    /\ Write(t, [db[t] EXCEPT !.text = "human", !.revision = @ + 1, !.editor = n])

Complete(n, t) ==
    /\ db[t] # NoRow /\ db[t].holder = n /\ db[t].revision < MaxRevision
    /\ Write(t, [db[t] EXCEPT !.status = "done", !.text = "human", !.revision = @ + 1,
                              !.editor = n, !.owner = n, !.holder = Nobody])

ReleaseByCli(n, t) ==
    /\ db[t] # NoRow /\ db[t].holder = n
    /\ Write(t, [db[t] EXCEPT !.holder = Nobody])

\* Another content for a file, a file more or a file less.
Edit ==
    /\ edits < MaxEdits /\ edits' = edits + 1
    /\ \/ \E f \in DOMAIN disk, text \in {"asr", "human"} :
            /\ disk[f] # Broken /\ disk' = [disk EXCEPT ![f].text = text]
       \/ \E f \in File \ DOMAIN disk, doc \in Document :
            disk' = [g \in DOMAIN disk \cup {f} |-> IF g = f THEN doc ELSE disk[g]]
       \/ \E f \in DOMAIN disk : disk' = [g \in DOMAIN disk \ {f} |-> disk[g]]
    /\ UNCHANGED <<held, sounds, manifest, taken, import, db, batches, outcome, crashes>>

-----------------------------------------------------------------------------
(* Back to JSON. *)

NeverChanged(row) == FALSE

\* changed_after_migration
ChangedSince(row) == row.revision > 0

Attribution(row) == IF row.status = "done" THEN row.owner ELSE row.file.owner

\* row_to_legacy lays today's columns over the top level the file had.  A result
\* always gets its author's key, empty when there is none.
RowToLegacy(t, row) ==
    [audio  |-> t, status |-> row.status, text |-> row.text,
     owner  |-> IF row.status = "done" /\ row.owner = Nobody THEN "" ELSE Attribution(row),
     editor |-> IF ~ ChangedSince(row) THEN row.file.editor
                ELSE IF row.editor # Nobody THEN row.editor ELSE row.owner]

SameTasks(m) == {t \in Audio : db[t] # NoRow} = {m.files[f].doc.audio : f \in DOMAIN m.files}

\* verify_manifest: the same recordings, each exported as the file said, the same holders.
Verified(m) ==
    /\ SameTasks(m)
    /\ \A f \in DOMAIN m.files : LET doc == m.files[f].doc IN
          db[doc.audio] # NoRow => RowToLegacy(doc.audio, db[doc.audio]) = doc
    /\ {h \in Name \X Audio : db[h[2]] # NoRow /\ db[h[2]].holder = h[1]}
       = {<<n, m.assignments[n]>> : n \in DOMAIN m.assignments}

-----------------------------------------------------------------------------
Start == {[f \in dom |-> c[f]] : dom \in SUBSET File, c \in [File -> Document \cup {Broken}]}

Init ==
    /\ disk \in Start /\ held \in [Name -> Audio \cup {None}] /\ sounds \in SUBSET Audio
    /\ manifest = None /\ taken = None
    /\ stage = "idle" /\ todo = {} /\ db = [t \in Audio |-> NoRow] /\ tx = db
    /\ batches = <<>> /\ outcome = "none" /\ edits = 0 /\ crashes = 0

Importing ==
    \/ TakeInventory \/ Inspect
    \/ Changed \/ Repeated \/ Begin \/ SourceChanged \/ Skip \/ Collide \/ Insert \/ ItemsDone
    \/ Assign \/ CannotAssign \/ Commit

Next ==
    \/ Importing \/ Crash \/ Edit
    \/ \E n \in Name, t \in Audio : Claim(n, t) \/ Save(n, t) \/ Complete(n, t) \/ ReleaseByCli(n, t)

Spec == Init /\ [][Next]_vars

\* What is begun goes on, and the operator goes on: he inspects, and does not for ever
\* inspect again instead of importing what can be imported.
FairSpec ==
    /\ Spec /\ WF_vars(TakeInventory) /\ WF_vars(Inspect) /\ SF_vars(Begin)
    /\ WF_vars(Insert \/ Skip \/ ItemsDone \/ Assign \/ Commit)
=============================================================================
