--------------------------- MODULE ImportProperties ---------------------------
(***************************************************************************)
(* What the migration may be relied on for.                                *)
(***************************************************************************)
EXTENDS LegacyImport

Listed(m) == {m.files[f].doc.audio : f \in DOMAIN m.files}
Committed == {m \in DOMAIN batches : batches[m] = "completed"}

\* A batch is all there or not at all: each of its files is a task that remembers exactly
\* the content that was inspected, and no task is of a batch that did not complete.
BatchWhole ==
    /\ \A m \in Committed : \A f \in DOMAIN m.files :
          LET row == db[m.files[f].doc.audio] IN row # NoRow /\ row.file = m.files[f].doc
    /\ \A t \in Audio : db[t] # NoRow => \E m \in Committed : t \in Listed(m)

\* No import, first or later, undoes or redoes work: the tasks that are there keep status,
\* text, attribution and holder.
WorkStays ==
    \A t \in Audio : db[t] # NoRow =>
         /\ db'[t] # NoRow
         /\ db'[t].status = db[t].status /\ db'[t].text = db[t].text
         /\ db'[t].owner = db[t].owner /\ db'[t].editor = db[t].editor
         /\ db'[t].revision = db[t].revision
         /\ db[t].holder # Nobody => db'[t].holder = db[t].holder

\* Nobody loses a task by the migration: who held it holds it, and pending work that
\* nobody held waits for its last editor and can be taken by no other.
OwnersStay ==
    /\ \A n \in DOMAIN manifest.assignments : db'[manifest.assignments[n]].holder = n
    /\ \A f \in DOMAIN manifest.files :
          LET doc == manifest.files[f].doc IN
          db'[doc.audio].status = "pending" /\ doc.editor # Nobody =>
              \/ db'[doc.audio].reserved = doc.editor
              \/ \E n \in DOMAIN manifest.assignments : manifest.assignments[n] = doc.audio

WorkKept == [][Commit => WorkStays /\ OwnersStay]_vars

\* An exported document says what is true today: a file that nobody touched reads as it
\* did (a result without an author apart), one that was touched names who did it.
ExportFaithful ==
    \A t \in Audio : db[t] # NoRow =>
        LET doc == RowToLegacy(t, db[t]) IN
        /\ doc.status = db[t].status /\ doc.text = db[t].text
        /\ db[t].revision = 0 /\ (doc.status = "pending" \/ db[t].owner # Nobody)
             => doc = db[t].file
        /\ db[t].revision > 0 => doc.editor = db[t].editor
        /\ db[t].revision > 0 /\ db[t].status = "done" => doc.owner = db[t].owner

\* A verification that finds nothing says that the store holds the manifest's tasks and
\* nothing else, each as it was, with the manifest's holders and no others.
VerifiedMeansSame ==
    manifest # None /\ manifest.errors = {} /\ Verified(manifest) =>
        /\ \A t \in Audio : db[t] # NoRow <=> t \in Listed(manifest)
        /\ \A f \in DOMAIN manifest.files : LET doc == manifest.files[f].doc  row == db[doc.audio] IN
              row.status = doc.status /\ row.text = doc.text
        /\ \A t \in Audio : db[t] # NoRow /\ db[t].holder # Nobody =>
              db[t].holder \in DOMAIN manifest.assignments
              /\ manifest.assignments[db[t].holder] = t

\* What the tasks, their exports and the verification say of the files is true.
RowsTellTheFiles == BatchWhole /\ ExportFaithful /\ VerifiedMeansSame

\* A directory that stays as it is and can be inspected without errors is imported, however
\* often the import dies on the way.
Clean == FileErrors(disk, sounds) = {} /\ AssignmentErrors(disk, held) = {}
FrozenArrives ==
    Clean => <>(\A f \in Readable(disk) : db[disk[f].audio] # NoRow)

\* What was imported and left alone passes the verification (README: lossless migration,
\* test_migration.py asserts it of the file it writes).
ImportVerifies ==
    LET present == {t \in Audio : db[t] # NoRow} IN
    /\ outcome = "completed" /\ Committed = {manifest}
    /\ \A t \in present : db[t].revision = 0
    /\ \A n \in Name, t \in present :
          db[t].holder = n <=> n \in DOMAIN manifest.assignments /\ manifest.assignments[n] = t
    => Verified(manifest)

=============================================================================
