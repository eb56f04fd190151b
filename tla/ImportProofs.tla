------------------------------ MODULE ImportProofs ------------------------------
(***************************************************************************)
(* What the migration may be relied on for, with any recordings, names,    *)
(* files, edits, crashes and work on what was imported before.             *)
(*                                                                         *)
(* The import is one transaction over many steps; annotators work on       *)
(* committed rows between them.  TxFollows says that the transaction's     *)
(* rows differ from the committed ones in nothing but what it inserted and *)
(* whom it assigned, ItemsDoneSoFar and AssignedSoFar that it has done     *)
(* what it has been through.  What a row may look like at all, Fits,       *)
(* carries the exports.                                                    *)
(***************************************************************************)
EXTENDS ImportProperties, FiniteSetTheorems, TLAPS

Names == Name \cup {Nobody}

Rows == [file : Document, order : Nat, status : {"pending", "done"},
         text : {"asr", "human"}, revision : Nat, owner : Names, editor : Names,
         holder : Names, reserved : Names]

Directory(dir) ==
    /\ DOMAIN dir \subseteq File
    /\ \A f \in DOMAIN dir : dir[f] \in Document \cup {Broken}

\* A manifest lists files about different recordings, and gives no task to two names.
ManifestTyped(m) ==
    /\ DOMAIN m.files \subseteq File
    /\ \A f \in DOMAIN m.files : m.files[f].doc \in Document /\ m.files[f].order \in Nat
    /\ \A f, g \in DOMAIN m.files : m.files[f].doc.audio = m.files[g].doc.audio => f = g
    /\ DOMAIN m.assignments \subseteq Name
    /\ \A n \in DOMAIN m.assignments : m.assignments[n] \in Listed(m)
    /\ \A n, o \in DOMAIN m.assignments : m.assignments[n] = m.assignments[o] => n = o

MigrationTyped ==
    /\ Directory(disk)
    /\ held \in [Name -> Audio \cup {None}]
    /\ manifest # None => ManifestTyped(manifest)
    /\ \A m \in DOMAIN batches : ManifestTyped(m)
    /\ stage \in {"idle", "items", "assign"}
    /\ stage # "idle" => manifest # None
    /\ db \in [Audio -> Rows \cup {NoRow}]
    /\ tx \in [Audio -> Rows \cup {NoRow}]

\* Row r of recording t: what nobody touched is the file's, what somebody did is his.
Fits(t, r) ==
    /\ r.file.audio = t
    /\ r.holder # Nobody => r.status = "pending"
    /\ r.revision = 0 =>
         /\ r.status = r.file.status /\ r.text = r.file.text
         /\ r.status = "done" => r.owner = r.file.owner
    /\ r.revision > 0 =>
         /\ r.editor # Nobody
         /\ r.status = "done" => r.owner # Nobody

RowsFit ==
    \A t \in Audio : /\ db[t] # NoRow => Fits(t, db[t])
                     /\ tx[t] # NoRow => Fits(t, tx[t])

\* q is row r, but for a holder where there was none.
SameWork(q, r) ==
    /\ q.file = r.file /\ q.status = r.status /\ q.text = r.text
    /\ q.revision = r.revision /\ q.owner = r.owner /\ q.editor = r.editor
    /\ r.holder # Nobody => q.holder = r.holder

\* The transaction has committed rows as they are, and what it inserted.
TxFollows ==
    /\ stage = "idle" => tx = db
    /\ \A t \in Audio : db[t] # NoRow => tx[t] # NoRow /\ SameWork(tx[t], db[t])
    /\ \A t \in Audio : tx[t] # NoRow /\ db[t] = NoRow => t \in Listed(manifest)

\* Files it has been through are rows.
ItemsDoneSoFar ==
    /\ stage = "items" => todo \subseteq DOMAIN manifest.files
    /\ stage # "idle" =>
         \A f \in DOMAIN manifest.files :
            stage = "assign" \/ f \notin todo =>
              LET row == tx[manifest.files[f].doc.audio]
              IN  row # NoRow /\ row.file = manifest.files[f].doc

\* Names it has been through hold their tasks.
AssignedSoFar ==
    stage = "assign" =>
        /\ todo \subseteq DOMAIN manifest.assignments
        /\ \A n \in DOMAIN manifest.assignments \ todo : tx[manifest.assignments[n]].holder = n

MigrationInv ==
    /\ MigrationTyped /\ RowsFit /\ TxFollows
    /\ ItemsDoneSoFar /\ AssignedSoFar /\ BatchWhole

-----------------------------------------------------------------------------
(* Rows and documents                                                      *)

LEMMA RowIsRow ==
    ASSUME NEW r \in Rows
    PROVE  r # NoRow
  <1>1. "order" \in DOMAIN r
    BY DEF Rows
  <1>2. "order" \notin DOMAIN NoRow
    BY DEF NoRow
  <1> QED
    BY <1>1, <1>2

LEMMA PresentIsRow ==
    ASSUME MigrationTyped, NEW t \in Audio
    PROVE  /\ db[t] # NoRow => db[t] \in Rows
           /\ tx[t] # NoRow => tx[t] \in Rows
  BY DEF MigrationTyped

LEMMA BrokenIsNone == Broken \notin Document
  BY NobodyAssumption DEF Broken, Document

LEMMA OrderIsNumber ==
    ASSUME NEW dir, Directory(dir), NEW f
    PROVE  Order(dir, f) \in Nat
  <1>1. IsFiniteSet(File)
    BY FS_Interval, NumbersAssumption DEF File
  <1>2. {g \in DOMAIN dir : g <= f} \subseteq File
    BY DEF Directory
  <1> QED
    BY <1>1, <1>2, FS_Subset, FS_CardinalityType DEF Order

LEMMA ManifestIsTyped ==
    ASSUME NEW inv, NEW dir, Directory(dir), NEW who \in [Name -> Audio \cup {None}],
           NEW present, NEW ignored
    PROVE  ManifestTyped(Manifest(inv, dir, who, present, ignored))
  <1> DEFINE m == Manifest(inv, dir, who, present, ignored)
  <1>1. /\ DOMAIN m.files = Items(dir)
        /\ \A f \in Items(dir) : m.files[f].doc = dir[f] /\ m.files[f].order = Order(dir, f)
        /\ DOMAIN m.assignments = Assignments(dir, who)
        /\ \A n \in Assignments(dir, who) : m.assignments[n] = who[n]
    BY DEF Manifest
  <1> HIDE DEF m
  <1>2. Items(dir) \subseteq File /\ \A f \in Items(dir) : dir[f] \in Document
    BY BrokenIsNone DEF Items, Readable, Directory
  <1>3. ASSUME NEW f \in Items(dir), NEW g \in Items(dir), dir[f].audio = dir[g].audio
        PROVE  f = g
    <2>1. f \in Nat /\ g \in Nat
      BY <1>2 DEF File
    <2>2. f \in Readable(dir) /\ g \in Readable(dir)
      BY DEF Items
    <2>3. ~ (f < g) /\ ~ (g < f)
      BY <1>3, <2>2 DEF Items
    <2> QED
      BY <2>1, <2>3
  <1>4. Assignments(dir, who) \subseteq Name
    BY DEF Assignments, Holders
  <1>5. ASSUME NEW n \in Assignments(dir, who)
        PROVE  who[n] \in ListedAudio(dir)
    <2>1. AssignmentError(dir, who, n) = {}
      BY DEF Assignments
    <2> QED
      BY <2>1 DEF AssignmentError
  <1>6. ListedAudio(dir) = Listed(m)
    BY <1>1 DEF ListedAudio, Listed
  <1>7. ASSUME NEW n \in Assignments(dir, who), NEW o \in Assignments(dir, who),
               who[n] = who[o], n # o
        PROVE  FALSE
    <2>1. AssignmentError(dir, who, n) = {} /\ o \in Name \ {n}
      BY <1>4, <1>7 DEF Assignments
    <2> QED
      BY <1>7, <2>1 DEF AssignmentError
  <1> QED
    BY <1>1, <1>2, <1>3, <1>4, <1>5, <1>6, <1>7, OrderIsNumber DEF ManifestTyped, m

-----------------------------------------------------------------------------
(* Work on committed rows                                                  *)

LEMMA WriteKeeps ==
    ASSUME MigrationInv, NEW t \in Audio, db[t] # NoRow,
           NEW row \in Rows, row.file = db[t].file, Fits(t, row), Write(t, row)
    PROVE  MigrationInv'
  <1> USE DEF MigrationInv
  <1>1. /\ db' = [db EXCEPT ![t] = row] /\ tx' = [tx EXCEPT ![t] = row] /\ ~ Locked(t)
        /\ UNCHANGED <<disk, held, manifest, stage, todo, batches>>
    BY DEF Write, files
  <1>2. /\ db'[t] = row /\ tx'[t] = row
        /\ \A s \in Audio : s # t => db'[s] = db[s] /\ tx'[s] = tx[s]
    BY <1>1 DEF MigrationTyped
  <1>3. row # NoRow /\ tx[t] # NoRow /\ tx[t].file = row.file
    BY RowIsRow DEF TxFollows, SameWork
  <1>4. MigrationTyped'
    BY <1>1 DEF MigrationTyped
  <1>5. RowsFit'
    BY <1>2 DEF RowsFit
  <1>6. TxFollows'
    <2>1. (stage = "idle" => tx = db)'
      BY <1>1 DEF TxFollows
    <2>2. (\A s \in Audio : db[s] # NoRow => tx[s] # NoRow /\ SameWork(tx[s], db[s]))'
      <3>1. SameWork(row, row)
        BY DEF SameWork
      <3>2. \A s \in Audio : db[s] # NoRow => tx[s] # NoRow /\ SameWork(tx[s], db[s])
        BY DEF TxFollows
      <3> QED
        BY <1>2, <1>3, <3>1, <3>2
    <2>3. (\A s \in Audio : tx[s] # NoRow /\ db[s] = NoRow => s \in Listed(manifest))'
      <3>1. Listed(manifest)' = Listed(manifest)
        BY <1>1 DEF Listed
      <3> QED
        BY <1>2, <1>3, <3>1 DEF TxFollows
    <2> QED
      BY <2>1, <2>2, <2>3 DEF TxFollows
  <1>7. ItemsDoneSoFar'
    <2>1. ASSUME stage # "idle", NEW f \in DOMAIN manifest.files
          PROVE  manifest.files[f].doc.audio \in Audio
      BY <2>1 DEF MigrationTyped, ManifestTyped, Document
    <2>2. \A f \in DOMAIN manifest.files, s \in Audio : s = manifest.files[f].doc.audio =>
            (tx[s] # NoRow /\ tx[s].file = manifest.files[f].doc
               => tx'[s] # NoRow /\ tx'[s].file = manifest.files[f].doc)
      BY <1>2, <1>3
    <2> QED
      BY <1>1, <2>1, <2>2 DEF ItemsDoneSoFar
  <1>8. AssignedSoFar'
    <2> SUFFICES ASSUME stage = "assign", NEW n \in DOMAIN manifest.assignments \ todo
                 PROVE  tx'[manifest.assignments[n]].holder = n
      BY <1>1 DEF AssignedSoFar
    <2>1. manifest.assignments[n] # t
      BY <1>1 DEF Locked
    <2>2. manifest.assignments[n] \in Audio
      BY DEF MigrationTyped, ManifestTyped, Listed, Document
    <2> QED
      BY <1>2, <2>1, <2>2 DEF AssignedSoFar
  <1>9. BatchWhole'
    <2>1. Committed' = Committed
      BY <1>1 DEF Committed
    <2>2. \A m \in Committed : \A f \in DOMAIN m.files :
             m.files[f].doc.audio = t => db[t].file = m.files[f].doc
      BY DEF BatchWhole
    <2>3. ASSUME NEW m \in Committed, NEW f \in DOMAIN m.files
          PROVE  LET r == db'[m.files[f].doc.audio] IN r # NoRow /\ r.file = m.files[f].doc
      <3>1. CASE m.files[f].doc.audio = t
        BY <1>2, <1>3, <2>2, <3>1
      <3>2. CASE m.files[f].doc.audio # t
        <4>1. db'[m.files[f].doc.audio] = db[m.files[f].doc.audio]
          BY <1>1, <3>2 DEF MigrationTyped
        <4> QED
          BY <4>1 DEF BatchWhole
      <3> QED
        BY <3>1, <3>2
    <2>4. \A s \in Audio : db'[s] # NoRow => db[s] # NoRow
      BY <1>2
    <2> QED
      BY <2>1, <2>3, <2>4 DEF BatchWhole
  <1> QED
    BY <1>4, <1>5, <1>6, <1>7, <1>8, <1>9

LEMMA WorkersKeep ==
    ASSUME MigrationInv, NEW n \in Name, NEW t \in Audio,
           Claim(n, t) \/ Save(n, t) \/ Complete(n, t) \/ ReleaseByCli(n, t)
    PROVE  MigrationInv'
  <1>1. db[t] # NoRow
    BY DEF Claim, Save, Complete, ReleaseByCli
  <1>2. db[t] \in Rows /\ Fits(t, db[t])
    BY <1>1, PresentIsRow DEF MigrationInv, RowsFit
  <1>3. n \in Names /\ n # Nobody /\ Nobody \in Names
    BY NobodyAssumption DEF Names
  <1>4. db[t].revision \in Nat /\ db[t].revision + 1 \in Nat /\ db[t].revision + 1 > 0
    BY <1>2 DEF Rows
  <1> DEFINE c == [db[t] EXCEPT !.holder = n, !.reserved = Nobody]
             s == [db[t] EXCEPT !.text = "human", !.revision = db[t].revision + 1, !.editor = n]
             d == [db[t] EXCEPT !.status = "done", !.text = "human",
                                !.revision = db[t].revision + 1,
                                !.editor = n, !.owner = n, !.holder = Nobody]
             r == [db[t] EXCEPT !.holder = Nobody]
  <1>5. CASE Claim(n, t)
    <2>1. c \in Rows /\ c.file = db[t].file
      BY <1>2, <1>3 DEF Rows
    <2>2. Fits(t, c)
      BY <1>2, <1>5 DEF Fits, Rows, Claim
    <2>3. Write(t, c)
      BY <1>5 DEF Claim
    <2> HIDE DEF c
    <2> QED
      BY <1>1, <2>1, <2>2, <2>3, WriteKeeps
  <1>6. CASE Save(n, t)
    <2>1. s \in Rows /\ s.file = db[t].file
      BY <1>2, <1>3, <1>4 DEF Rows
    <2>2. /\ s.revision = db[t].revision + 1 /\ s.editor = n /\ s.holder = n
          /\ s.status = db[t].status
      BY <1>2, <1>6 DEF Rows, Save
    <2>3. Fits(t, s)
      BY <1>2, <1>3, <1>4, <1>6, <2>1, <2>2 DEF Fits, Save
    <2>4. Write(t, s)
      BY <1>2, <1>6 DEF Save, Rows
    <2> HIDE DEF s
    <2> QED
      BY <1>1, <2>1, <2>3, <2>4, WriteKeeps
  <1>7. CASE Complete(n, t)
    <2>1. d \in Rows /\ d.file = db[t].file
      BY <1>2, <1>3, <1>4 DEF Rows
    <2>2. /\ d.revision = db[t].revision + 1 /\ d.editor = n /\ d.holder = Nobody /\ d.owner = n
      BY <1>2 DEF Rows
    <2>3. Fits(t, d)
      BY <1>2, <1>3, <1>4, <2>1, <2>2 DEF Fits
    <2>4. Write(t, d)
      BY <1>2, <1>7 DEF Complete, Rows
    <2> HIDE DEF d
    <2> QED
      BY <1>1, <2>1, <2>3, <2>4, WriteKeeps
  <1>8. CASE ReleaseByCli(n, t)
    <2>1. r \in Rows /\ r.file = db[t].file
      BY <1>2, <1>3 DEF Rows
    <2>2. Fits(t, r)
      BY <1>2 DEF Fits, Rows
    <2>3. Write(t, r)
      BY <1>8 DEF ReleaseByCli
    <2> HIDE DEF r
    <2> QED
      BY <1>1, <2>1, <2>2, <2>3, WriteKeeps
  <1> QED
    BY <1>5, <1>6, <1>7, <1>8

-----------------------------------------------------------------------------
(* Steps of the import                                                     *)

LEMMA SameBatches ==
    ASSUME BatchWhole, UNCHANGED <<db, batches>>
    PROVE  BatchWhole'
  <1>1. Committed' = Committed
    BY DEF Committed
  <1> QED
    BY <1>1 DEF BatchWhole

\* It ends without a commit.
LEMMA EndKeeps ==
    ASSUME MigrationInv, stage' = "idle", tx' = db,
           UNCHANGED <<disk, held, manifest, db, batches>>
    PROVE  MigrationInv'
  <1> USE DEF MigrationInv
  <1>1. MigrationTyped'
    BY DEF MigrationTyped
  <1>2. RowsFit'
    BY DEF RowsFit
  <1>3. TxFollows'
    BY DEF TxFollows, SameWork
  <1>4. ItemsDoneSoFar' /\ AssignedSoFar'
    BY DEF ItemsDoneSoFar, AssignedSoFar
  <1>5. BatchWhole'
    BY SameBatches
  <1> QED
    BY <1>1, <1>2, <1>3, <1>4, <1>5

\* Between imports: the inspection, and the start.
LEMMA IdleKeeps ==
    ASSUME MigrationInv, stage = "idle", Directory(disk)', held' \in [Name -> Audio \cup {None}],
           manifest' # None => ManifestTyped(manifest)',
           \/ stage' = "idle"
           \/ stage' = "items" /\ manifest' # None /\ todo' = DOMAIN manifest'.files,
           tx' = db, UNCHANGED <<db, batches>>
    PROVE  MigrationInv'
  <1> USE DEF MigrationInv
  <1>1. MigrationTyped'
    BY DEF MigrationTyped
  <1>2. RowsFit'
    BY DEF RowsFit
  <1>3. TxFollows'
    BY DEF TxFollows, SameWork
  <1>4. ItemsDoneSoFar' /\ AssignedSoFar'
    BY DEF ItemsDoneSoFar, AssignedSoFar
  <1>5. BatchWhole'
    BY SameBatches
  <1> QED
    BY <1>1, <1>2, <1>3, <1>4, <1>5

LEMMA IdleStepsKeep ==
    ASSUME MigrationInv, TakeInventory \/ Inspect \/ Begin
    PROVE  MigrationInv'
  <1>1. MigrationTyped /\ stage = "idle" /\ tx = db
    BY DEF TakeInventory, Inspect, Begin, CanLoad, MigrationInv, TxFollows
  <1>2. Directory(disk)' /\ held' \in [Name -> Audio \cup {None}]
    BY <1>1 DEF TakeInventory, Inspect, Begin, files, MigrationTyped, Directory
  <1>3. UNCHANGED <<db, batches>> /\ tx' = db
    BY <1>1 DEF TakeInventory, Inspect, Begin, import
  <1>4. CASE TakeInventory \/ Begin
    <2>1. UNCHANGED manifest
      BY <1>4 DEF TakeInventory, Begin
    <2>2. manifest' # None => ManifestTyped(manifest)'
      BY <1>1, <2>1 DEF MigrationTyped, ManifestTyped, Listed
    <2> QED
      BY <1>1, <1>2, <1>3, <1>4, <2>1, <2>2, IdleKeeps DEF TakeInventory, Begin, CanLoad, import
  <1>5. CASE Inspect
    <2>1. PICK ignored : manifest' = Manifest(taken, disk, held, taken.sounds, ignored)
      BY <1>5 DEF Inspect
    <2>2. ManifestTyped(manifest')
      BY <1>1, <2>1, ManifestIsTyped DEF MigrationTyped
    <2>3. ManifestTyped(manifest)'
      BY <2>2 DEF ManifestTyped, Listed
    <2> QED
      BY <1>1, <1>2, <1>3, <1>5, <2>3, IdleKeeps DEF Inspect, import
  <1> QED
    BY <1>4, <1>5

LEMMA EditKeeps ==
    ASSUME MigrationInv, Edit
    PROVE  MigrationInv'
  <1> USE DEF MigrationInv
  <1>1. UNCHANGED <<held, manifest, stage, todo, tx, db, batches>>
    BY DEF Edit, import
  <1>2. Directory(disk)'
    <2>1. ASSUME NEW f \in DOMAIN disk, NEW x \in {"asr", "human"}, disk[f] # Broken,
                 disk' = [disk EXCEPT ![f].text = x]
          PROVE  Directory(disk)'
      <3>1. disk[f] \in Document
        BY <2>1 DEF MigrationTyped, Directory
      <3>2. [disk[f] EXCEPT !.text = x] \in Document
        BY <3>1 DEF Document
      <3>3. DOMAIN disk' = DOMAIN disk
        BY <2>1
      <3>4. \A g \in DOMAIN disk : disk'[g] = IF g = f THEN [disk[f] EXCEPT !.text = x] ELSE disk[g]
        BY <2>1
      <3> HIDE DEF MigrationInv
      <3> QED
        BY <3>2, <3>3, <3>4 DEF MigrationInv, MigrationTyped, Directory
    <2>2. ASSUME NEW f \in File, NEW doc \in Document,
                 disk' = [g \in DOMAIN disk \cup {f} |-> IF g = f THEN doc ELSE disk[g]]
          PROVE  Directory(disk)'
      BY <2>2 DEF MigrationTyped, Directory
    <2>3. ASSUME NEW f \in DOMAIN disk, disk' = [g \in DOMAIN disk \ {f} |-> disk[g]]
          PROVE  Directory(disk)'
      BY <2>3 DEF MigrationTyped, Directory
    <2> QED
      BY <2>1, <2>2, <2>3 DEF Edit
  <1>3. MigrationTyped'
    BY <1>1, <1>2 DEF MigrationTyped, ManifestTyped, Listed
  <1>4. RowsFit' /\ AssignedSoFar'
    BY <1>1 DEF RowsFit, AssignedSoFar
  <1>5. TxFollows'
    BY <1>1 DEF TxFollows, SameWork, Listed
  <1>6. ItemsDoneSoFar'
    BY <1>1 DEF ItemsDoneSoFar
  <1>7. BatchWhole'
    BY <1>1, SameBatches
  <1> QED
    BY <1>3, <1>4, <1>5, <1>6, <1>7

\* Nothing outside the transaction changes, and its rows stay typed.
LEMMA InsideTyped ==
    ASSUME MigrationTyped, stage' \in {"items", "assign"}, stage # "idle",
           tx' \in [Audio -> Rows \cup {NoRow}],
           UNCHANGED <<disk, held, manifest, db, batches>>
    PROVE  MigrationTyped'
  BY DEF MigrationTyped, ManifestTyped, Listed

LEMMA SkipKeeps ==
    ASSUME MigrationInv, Skip
    PROVE  MigrationInv'
  <1> USE DEF MigrationInv
  <1>1. PICK f \in todo : /\ Next1(f) /\ SameSource(f) /\ Known(disk[f].audio, disk[f])
                          /\ todo' = todo \ {f}
    BY DEF Skip
  <1>2. /\ stage = "items" /\ UNCHANGED <<disk, held, manifest, stage, tx, db, batches>>
    BY <1>1 DEF Skip, Next1, files
  <1>3. MigrationTyped'
    BY <1>2, InsideTyped DEF MigrationTyped
  <1>4. RowsFit' /\ AssignedSoFar'
    BY <1>2 DEF RowsFit, AssignedSoFar
  <1>5. TxFollows'
    BY <1>2 DEF TxFollows, SameWork, Listed
  <1>6. ItemsDoneSoFar'
    <2>1. tx[manifest.files[f].doc.audio] # NoRow
          /\ tx[manifest.files[f].doc.audio].file = manifest.files[f].doc
      BY <1>1 DEF SameSource, Known, Imported
    <2> QED
      BY <1>1, <1>2, <2>1 DEF ItemsDoneSoFar
  <1>7. BatchWhole'
    BY <1>2, SameBatches
  <1> QED
    BY <1>3, <1>4, <1>5, <1>6, <1>7

LEMMA InsertKeeps ==
    ASSUME MigrationInv, Insert
    PROVE  MigrationInv'
  <1> USE DEF MigrationInv
  <1>1. PICK f \in todo :
          /\ Next1(f) /\ SameSource(f) /\ ~ Known(disk[f].audio, disk[f])
          /\ ~ Different(disk[f].audio, disk[f])
          /\ tx' = [tx EXCEPT ![disk[f].audio] = Row(disk[f], manifest.files[f].order)]
          /\ todo' = todo \ {f}
    BY DEF Insert
  <1> DEFINE doc == manifest.files[f].doc
             t == doc.audio
             r == Row(doc, manifest.files[f].order)
  <1>2. stage = "items" /\ UNCHANGED <<disk, held, manifest, stage, db, batches>>
    BY <1>1 DEF Insert, Next1, files
  <1>3. f \in DOMAIN manifest.files /\ ManifestTyped(manifest)
    BY <1>1, <1>2 DEF ItemsDoneSoFar, MigrationTyped
  <1>4. doc \in Document /\ t \in Audio /\ manifest.files[f].order \in Nat
    BY <1>3 DEF ManifestTyped, Document
  <1>5. disk[f] = doc
    BY <1>1 DEF SameSource
  <1>6. tx[t] = NoRow /\ db[t] = NoRow
    <2>1. tx[t] = NoRow
      BY <1>1, <1>5 DEF Known, Different, Imported
    <2> QED
      BY <1>4, <2>1 DEF TxFollows
  <1>7. /\ r \in Rows /\ r.file = doc /\ r.holder = Nobody /\ r.revision = 0
        /\ r.status = doc.status /\ r.text = doc.text
        /\ r.status = "done" => r.owner = doc.owner
    BY <1>4 DEF Row, Rows, Document, Names
  <1>8. r # NoRow /\ Fits(t, r)
    BY <1>7, RowIsRow DEF Fits
  <1>9. tx' = [tx EXCEPT ![t] = r]
    BY <1>1, <1>5
  <1> HIDE DEF r, t
  <1>10. tx'[t] = r /\ \A s \in Audio : s # t => tx'[s] = tx[s]
    BY <1>4, <1>9 DEF MigrationTyped, t
  <1>11. MigrationTyped'
    <2>1. tx' \in [Audio -> Rows \cup {NoRow}]
      BY <1>7, <1>9 DEF MigrationTyped
    <2> QED
      BY <1>2, <2>1, InsideTyped
  <1>12. RowsFit'
    BY <1>2, <1>8, <1>10 DEF RowsFit
  <1>13. TxFollows'
    <2>1. (\A s \in Audio : db[s] # NoRow => tx[s] # NoRow /\ SameWork(tx[s], db[s]))'
      BY <1>2, <1>6, <1>10 DEF TxFollows, SameWork
    <2>2. t \in Listed(manifest)
      BY <1>3 DEF Listed, t
    <2>3. (\A s \in Audio : tx[s] # NoRow /\ db[s] = NoRow => s \in Listed(manifest))'
      BY <1>2, <1>10, <2>2 DEF TxFollows, Listed
    <2> QED
      BY <1>2, <2>1, <2>3 DEF TxFollows
  <1>14. ItemsDoneSoFar'
    <2> SUFFICES ASSUME NEW g \in DOMAIN manifest.files, g \notin todo \ {f}
                 PROVE  /\ tx'[manifest.files[g].doc.audio] # NoRow
                        /\ tx'[manifest.files[g].doc.audio].file = manifest.files[g].doc
      BY <1>1, <1>2 DEF ItemsDoneSoFar
    <2>1. CASE g = f
      BY <1>7, <1>8, <1>10, <2>1 DEF t
    <2>2. CASE g # f
      <3>1. tx[manifest.files[g].doc.audio] # NoRow
            /\ tx[manifest.files[g].doc.audio].file = manifest.files[g].doc
        BY <1>2, <2>2 DEF ItemsDoneSoFar
      <3>2. manifest.files[g].doc.audio \in Audio /\ manifest.files[g].doc.audio # t
        BY <1>3, <1>6, <3>1 DEF ManifestTyped, Document
      <3> QED
        BY <1>10, <3>1, <3>2
    <2> QED
      BY <2>1, <2>2
  <1>15. AssignedSoFar'
    BY <1>2 DEF AssignedSoFar
  <1>16. BatchWhole'
    BY <1>2, SameBatches
  <1> QED
    BY <1>11, <1>12, <1>13, <1>14, <1>15, <1>16

LEMMA ItemsDoneKeeps ==
    ASSUME MigrationInv, ItemsDone
    PROVE  MigrationInv'
  <1> USE DEF MigrationInv
  <1>1. /\ stage = "items" /\ todo = {} /\ stage' = "assign"
        /\ todo' = DOMAIN manifest.assignments
        /\ UNCHANGED <<disk, held, manifest, tx, db, batches>>
    BY DEF ItemsDone, files
  <1>2. MigrationTyped'
    BY <1>1, InsideTyped DEF MigrationTyped
  <1>3. RowsFit'
    BY <1>1 DEF RowsFit
  <1>4. TxFollows'
    BY <1>1 DEF TxFollows, SameWork, Listed
  <1>5. ItemsDoneSoFar' /\ AssignedSoFar'
    BY <1>1 DEF ItemsDoneSoFar, AssignedSoFar
  <1>6. BatchWhole'
    BY <1>1, SameBatches
  <1> QED
    BY <1>2, <1>3, <1>4, <1>5, <1>6

\* In the second part of the import every file and every task to assign is a row.
LEMMA AllRows ==
    ASSUME MigrationInv, stage = "assign"
    PROVE  /\ ManifestTyped(manifest)
           /\ \A f \in DOMAIN manifest.files :
                /\ manifest.files[f].doc.audio \in Audio
                /\ tx[manifest.files[f].doc.audio] \in Rows
                /\ tx[manifest.files[f].doc.audio] # NoRow
                /\ tx[manifest.files[f].doc.audio].file = manifest.files[f].doc
           /\ \A n \in DOMAIN manifest.assignments :
                /\ n \in Name /\ manifest.assignments[n] \in Audio
                /\ tx[manifest.assignments[n]] \in Rows
                /\ tx[manifest.assignments[n]] # NoRow
  <1>1. ManifestTyped(manifest)
    BY DEF MigrationInv, MigrationTyped
  <1>2. \A f \in DOMAIN manifest.files :
                /\ manifest.files[f].doc.audio \in Audio
                /\ tx[manifest.files[f].doc.audio] \in Rows
                /\ tx[manifest.files[f].doc.audio] # NoRow
                /\ tx[manifest.files[f].doc.audio].file = manifest.files[f].doc
    BY <1>1, PresentIsRow DEF MigrationInv, ItemsDoneSoFar, ManifestTyped, Document
  <1> QED
    BY <1>1, <1>2 DEF ManifestTyped, Listed

LEMMA AssignKeeps ==
    ASSUME MigrationInv, Assign
    PROVE  MigrationInv'
  <1> USE DEF MigrationInv
  <1>1. PICK n \in todo :
          /\ CanAssign(n, manifest.assignments[n])
          /\ tx' = [tx EXCEPT ![manifest.assignments[n]].holder = n]
          /\ todo' = todo \ {n}
    BY DEF Assign
  <1>2. stage = "assign" /\ UNCHANGED <<disk, held, manifest, stage, db, batches>>
    BY DEF Assign, files
  <1> DEFINE t == manifest.assignments[n]
             r == [tx[t] EXCEPT !.holder = n]
  <1>3. n \in DOMAIN manifest.assignments
    BY <1>2 DEF AssignedSoFar
  <1>4. n \in Name /\ t \in Audio /\ tx[t] \in Rows /\ tx[t] # NoRow
    BY <1>2, <1>3, AllRows
  <1>5. /\ r \in Rows /\ r.holder = n /\ r.revision = tx[t].revision
        /\ r.file = tx[t].file /\ r.status = tx[t].status /\ r.text = tx[t].text
        /\ r.owner = tx[t].owner /\ r.editor = tx[t].editor
    BY <1>4 DEF Rows, Names
  <1>6. tx[t].status = "pending" /\ tx[t].holder \in {n, Nobody}
    BY <1>1 DEF CanAssign
  <1>7. r # NoRow /\ Fits(t, r)
    BY <1>4, <1>5, <1>6, RowIsRow DEF Fits, RowsFit
  <1>8. tx' = [tx EXCEPT ![t] = r]
    BY <1>1, <1>4 DEF MigrationTyped
  <1> HIDE DEF r, t
  <1>9. tx'[t] = r /\ \A s \in Audio : s # t => tx'[s] = tx[s]
    BY <1>4, <1>8 DEF MigrationTyped
  <1>10. MigrationTyped'
    <2>1. tx' \in [Audio -> Rows \cup {NoRow}]
      BY <1>5, <1>8 DEF MigrationTyped
    <2> QED
      BY <1>2, <2>1, InsideTyped
  <1>11. RowsFit'
    BY <1>2, <1>7, <1>9 DEF RowsFit
  <1>12. TxFollows'
    <2>1. (\A s \in Audio : db[s] # NoRow => tx[s] # NoRow /\ SameWork(tx[s], db[s]))'
      BY <1>2, <1>4, <1>5, <1>6, <1>7, <1>9 DEF TxFollows, SameWork
    <2>2. (\A s \in Audio : tx[s] # NoRow /\ db[s] = NoRow => s \in Listed(manifest))'
      BY <1>2, <1>4, <1>9 DEF TxFollows, Listed
    <2> QED
      BY <1>2, <2>1, <2>2 DEF TxFollows
  <1>13. ItemsDoneSoFar'
    BY <1>2, <1>5, <1>7, <1>9, AllRows DEF ItemsDoneSoFar
  <1>14. AssignedSoFar'
    <2> SUFFICES ASSUME NEW o \in DOMAIN manifest.assignments, o \notin todo \ {n}
                 PROVE  tx'[manifest.assignments[o]].holder = o
      BY <1>1, <1>2 DEF AssignedSoFar
    <2>1. CASE o = n
      BY <1>5, <1>9, <2>1 DEF t
    <2>2. CASE o # n
      <3>1. manifest.assignments[o] # t /\ manifest.assignments[o] \in Audio
        BY <1>2, <1>3, <2>2, AllRows DEF ManifestTyped, t
      <3> QED
        BY <1>2, <1>9, <2>2, <3>1 DEF AssignedSoFar
    <2> QED
      BY <2>1, <2>2
  <1>15. BatchWhole'
    BY <1>2, SameBatches
  <1> QED
    BY <1>10, <1>11, <1>12, <1>13, <1>14, <1>15

-----------------------------------------------------------------------------
(* The commit                                                              *)

\* What a reservation leaves of a row.
LEMMA ReservedRow ==
    ASSUME MigrationInv, stage = "assign", NEW t \in Audio
    PROVE  /\ tx[t] = NoRow => Reserved(t) = NoRow
           /\ tx[t] # NoRow =>
                /\ Reserved(t) \in Rows /\ Reserved(t) # NoRow
                /\ Reserved(t).file = tx[t].file /\ Reserved(t).status = tx[t].status
                /\ Reserved(t).text = tx[t].text /\ Reserved(t).revision = tx[t].revision
                /\ Reserved(t).owner = tx[t].owner /\ Reserved(t).editor = tx[t].editor
                /\ Reserved(t).holder = tx[t].holder
                /\ Fits(t, tx[t]) => Fits(t, Reserved(t))
  <1>1. t \in Listed(manifest) => tx[t] # NoRow /\ ItemEditor(t) \in Names
    <2> SUFFICES ASSUME t \in Listed(manifest)
                 PROVE  tx[t] # NoRow /\ ItemEditor(t) \in Names
      OBVIOUS
    <2>1. \E g \in DOMAIN manifest.files : manifest.files[g].doc.audio = t
      BY DEF Listed
    <2>2. PICK f : f = (CHOOSE g \in DOMAIN manifest.files : manifest.files[g].doc.audio = t)
      OBVIOUS
    <2>3. f \in DOMAIN manifest.files /\ manifest.files[f].doc.audio = t
      BY <2>1, <2>2
    <2>4. manifest.files[f].doc \in Document
      BY <2>3, AllRows DEF ManifestTyped
    <2>5. ItemEditor(t) = manifest.files[f].doc.editor
      BY <2>2 DEF ItemEditor
    <2> QED
      BY <2>3, <2>4, <2>5, AllRows DEF Document, Names
  <1> DEFINE e == ItemEditor(t)
             r == [tx[t] EXCEPT !.reserved = e]
  <1>2. Reserved(t) = tx[t] \/ (t \in Listed(manifest) /\ Reserved(t) = r)
    BY DEF Reserved, Listed
  <1>3. CASE Reserved(t) = tx[t]
    BY <1>3, PresentIsRow DEF MigrationInv
  <1>4. CASE t \in Listed(manifest) /\ Reserved(t) = r
    <2>1. e \in Names /\ tx[t] \in Rows /\ tx[t] # NoRow
      BY <1>1, <1>4, PresentIsRow DEF MigrationInv
    <2> HIDE DEF e
    <2>2. /\ r \in Rows /\ r.file = tx[t].file /\ r.status = tx[t].status
          /\ r.text = tx[t].text /\ r.revision = tx[t].revision
          /\ r.owner = tx[t].owner /\ r.editor = tx[t].editor /\ r.holder = tx[t].holder
      BY <2>1 DEF Rows
    <2> HIDE DEF r
    <2>3. Fits(t, tx[t]) => Fits(t, r)
      BY <2>2 DEF Fits
    <2> QED
      BY <1>4, <2>1, <2>2, <2>3, RowIsRow
  <1> QED
    BY <1>2, <1>3, <1>4

LEMMA CommitKeeps ==
    ASSUME MigrationInv, Commit
    PROVE  MigrationInv'
  <1> USE DEF MigrationInv
  <1>1. /\ stage = "assign" /\ todo = {} /\ db' = [t \in Audio |-> Reserved(t)] /\ tx' = db'
        /\ batches' = WithBatch(manifest, "completed") /\ stage' = "idle"
        /\ UNCHANGED <<disk, held, manifest>>
    BY DEF Commit, files
  <1>2. \A t \in Audio : db'[t] = Reserved(t)
    BY <1>1
  <1>3. MigrationTyped'
    <2>1. \A t \in Audio : Reserved(t) \in Rows \cup {NoRow}
      BY <1>1, ReservedRow
    <2>2. db' \in [Audio -> Rows \cup {NoRow}]
      BY <1>1, <2>1
    <2>3. DOMAIN batches' = DOMAIN batches \cup {manifest} /\ manifest # None
      BY <1>1 DEF WithBatch, MigrationTyped
    <2> QED
      BY <1>1, <2>2, <2>3 DEF MigrationTyped
  <1>4. RowsFit'
    BY <1>1, <1>2, ReservedRow DEF RowsFit
  <1>5. TxFollows'
    BY <1>1 DEF TxFollows, SameWork
  <1>6. ItemsDoneSoFar' /\ AssignedSoFar'
    BY <1>1 DEF ItemsDoneSoFar, AssignedSoFar
  <1>7. BatchWhole'
    <2>1. Committed' = Committed \cup {manifest}
      BY <1>1 DEF Committed, WithBatch
    <2>2. ASSUME NEW m \in Committed', NEW f \in DOMAIN m.files
          PROVE  LET row == db'[m.files[f].doc.audio]
                 IN  row # NoRow /\ row.file = m.files[f].doc
      <3> DEFINE t == m.files[f].doc.audio
      <3>1. t \in Audio /\ tx[t] # NoRow /\ tx[t].file = m.files[f].doc
        <4>1. CASE m = manifest
          BY <1>1, <2>2, <4>1, AllRows
        <4>2. CASE m \in Committed
          <5>1. db[t] # NoRow /\ db[t].file = m.files[f].doc
            BY <2>2, <4>2 DEF BatchWhole
          <5>2. t \in Audio
            BY <2>2, <4>2 DEF Committed, MigrationTyped, ManifestTyped, Document
          <5> QED
            BY <5>1, <5>2 DEF TxFollows, SameWork
        <4> QED
          BY <2>1, <4>1, <4>2
      <3> HIDE DEF t
      <3>2. db'[t] # NoRow /\ db'[t].file = m.files[f].doc
        BY <1>1, <1>2, <3>1, ReservedRow
      <3> QED
        BY <3>2 DEF t
    <2>3. ASSUME NEW t \in Audio, db'[t] # NoRow
          PROVE  \E m \in Committed' : t \in Listed(m)
      <3>1. tx[t] # NoRow
        BY <1>1, <1>2, <2>3, ReservedRow
      <3> QED
        BY <2>1, <3>1 DEF TxFollows, BatchWhole
    <2> QED
      BY <2>2, <2>3 DEF BatchWhole, Listed
  <1> QED
    BY <1>3, <1>4, <1>5, <1>6, <1>7

-----------------------------------------------------------------------------
(* The invariant                                                           *)

LEMMA InitMigration == Init => MigrationInv
  <1> SUFFICES ASSUME Init PROVE MigrationInv
    OBVIOUS
  <1>1. Directory(disk)
    BY DEF Init, Start, Directory
  <1>2. MigrationTyped
    BY <1>1 DEF Init, MigrationTyped
  <1>3. \A t \in Audio : db[t] = NoRow /\ tx[t] = NoRow
    BY DEF Init
  <1>4. RowsFit /\ TxFollows
    BY <1>3 DEF Init, RowsFit, TxFollows
  <1>5. ItemsDoneSoFar /\ AssignedSoFar
    BY DEF Init, ItemsDoneSoFar, AssignedSoFar
  <1>6. BatchWhole
    <2>1. Committed = {}
      BY DEF Init, Committed
    <2> QED
      BY <1>3, <2>1 DEF BatchWhole
  <1> QED
    BY <1>2, <1>4, <1>5, <1>6 DEF MigrationInv

LEMMA EndStepsKeep ==
    ASSUME MigrationInv,
           Changed \/ Repeated \/ SourceChanged \/ Collide \/ CannotAssign \/ Crash
    PROVE  MigrationInv'
  <1>1. stage' = "idle" /\ tx' = db /\ UNCHANGED <<disk, held, manifest, db, batches>>
    <2>1. CASE Crash
      BY <2>1 DEF Crash, BatchesAfterCrash, files
    <2>2. CASE \E why : Refused(why)
      BY <2>2 DEF Refused, files
    <2> QED
      BY <2>1, <2>2 DEF Changed, Repeated, SourceChanged, Collide, CannotAssign
  <1> QED
    BY <1>1, EndKeeps

LEMMA StepKeeps == MigrationInv /\ [Next]_vars => MigrationInv'
  <1> SUFFICES ASSUME MigrationInv, [Next]_vars PROVE MigrationInv'
    OBVIOUS
  <1>1. CASE UNCHANGED vars
    <2>1. UNCHANGED <<disk, held, manifest, stage, todo, tx, db, batches>>
      BY <1>1 DEF vars, files, import
    <2>2. BatchWhole'
      BY <2>1, SameBatches DEF MigrationInv
    <2> QED
      BY <2>1, <2>2 DEF MigrationInv, MigrationTyped, Directory, ManifestTyped, Listed,
                        RowsFit, TxFollows, SameWork, ItemsDoneSoFar, AssignedSoFar
  <1>2. CASE TakeInventory \/ Inspect \/ Begin
    BY <1>2, IdleStepsKeep
  <1>3. CASE Changed \/ Repeated \/ SourceChanged \/ Collide \/ CannotAssign \/ Crash
    BY <1>3, EndStepsKeep
  <1>4. CASE Skip
    BY <1>4, SkipKeeps
  <1>5. CASE Insert
    BY <1>5, InsertKeeps
  <1>6. CASE ItemsDone
    BY <1>6, ItemsDoneKeeps
  <1>7. CASE Assign
    BY <1>7, AssignKeeps
  <1>8. CASE Commit
    BY <1>8, CommitKeeps
  <1>9. CASE Edit
    BY <1>9, EditKeeps
  <1>10. ASSUME NEW n \in Name, NEW t \in Audio,
                Claim(n, t) \/ Save(n, t) \/ Complete(n, t) \/ ReleaseByCli(n, t)
         PROVE  MigrationInv'
    BY <1>10, WorkersKeep
  <1> QED
    BY <1>1, <1>2, <1>3, <1>4, <1>5, <1>6, <1>7, <1>8, <1>9, <1>10 DEF Next, Importing

\* The import's transaction differs from the committed rows in nothing but what it
\* inserted and assigned, and what it has been through is done.
THEOREM MigrationInvHolds == Spec => []MigrationInv
  BY InitMigration, StepKeeps, PTL DEF Spec

-----------------------------------------------------------------------------
(* What follows                                                            *)

LEMMA ExportsFaithful ==
    ASSUME MigrationInv
    PROVE  ExportFaithful
  <1> SUFFICES ASSUME NEW t \in Audio, db[t] # NoRow
               PROVE  LET doc == RowToLegacy(t, db[t]) IN
                        /\ doc.status = db[t].status /\ doc.text = db[t].text
                        /\ db[t].revision = 0 /\ (doc.status = "pending" \/ db[t].owner # Nobody)
                             => doc = db[t].file
                        /\ db[t].revision > 0 => doc.editor = db[t].editor
                        /\ db[t].revision > 0 /\ db[t].status = "done" => doc.owner = db[t].owner
    BY DEF ExportFaithful
  <1> DEFINE r == db[t]
             doc == RowToLegacy(t, r)
  <1>1. r \in Rows /\ Fits(t, r)
    BY PresentIsRow DEF MigrationInv, RowsFit
  <1>2. r.file \in Document /\ r.revision \in Nat /\ r.status \in {"pending", "done"}
    BY <1>1 DEF Rows
  <1> HIDE DEF r
  <1>3. /\ doc.status = r.status /\ doc.text = r.text /\ doc.audio = t
        /\ r.revision = 0 => doc.editor = r.file.editor
        /\ r.revision > 0 => doc.editor = r.editor
        /\ r.status = "pending" => doc.owner = r.file.owner
        /\ r.status = "done" /\ r.owner # Nobody => doc.owner = r.owner
    <2>1. /\ doc.status = r.status /\ doc.text = r.text /\ doc.audio = t
          /\ doc.owner = IF r.status = "done" /\ r.owner = Nobody THEN "" ELSE Attribution(r)
          /\ doc.editor = IF ~ ChangedSince(r) THEN r.file.editor
                          ELSE IF r.editor # Nobody THEN r.editor ELSE r.owner
      BY DEF RowToLegacy
    <2>2. (r.revision = 0 <=> ~ ChangedSince(r)) /\ (r.revision > 0 <=> ChangedSince(r))
      BY <1>2 DEF ChangedSince
    <2>3. Attribution(r) = IF r.status = "done" THEN r.owner ELSE r.file.owner
      BY DEF Attribution
    <2>4. r.revision > 0 => r.editor # Nobody
      BY <1>1 DEF Fits
    <2> HIDE DEF doc
    <2>5. r.status = "pending" => r.status # "done"
      OBVIOUS
    <2> QED
      BY <2>1, <2>2, <2>3, <2>4, <2>5
  <1>4. ASSUME r.revision = 0, doc.status = "pending" \/ r.owner # Nobody
        PROVE  doc = r.file
    <2>1. /\ doc.audio = r.file.audio /\ doc.status = r.file.status
          /\ doc.owner = r.file.owner /\ doc.editor = r.file.editor /\ doc.text = r.file.text
      BY <1>1, <1>2, <1>3, <1>4 DEF Fits
    <2>2. doc = [audio |-> doc.audio, status |-> doc.status, text |-> doc.text,
                 owner |-> doc.owner, editor |-> doc.editor]
      BY DEF RowToLegacy
    <2>3. r.file = [audio |-> r.file.audio, status |-> r.file.status, text |-> r.file.text,
                    owner |-> r.file.owner, editor |-> r.file.editor]
      BY <1>2 DEF Document
    <2> HIDE DEF doc
    <2> QED
      BY <2>1, <2>2, <2>3
  <1> HIDE DEF doc
  <1> QED
    BY <1>1, <1>2, <1>3, <1>4 DEF r, doc, Fits

LEMMA VerificationMeansSame ==
    ASSUME MigrationInv
    PROVE  VerifiedMeansSame
  <1> SUFFICES ASSUME manifest # None, Verified(manifest)
               PROVE  /\ \A t \in Audio : db[t] # NoRow <=> t \in Listed(manifest)
                      /\ \A f \in DOMAIN manifest.files :
                           LET doc == manifest.files[f].doc
                               row == db[doc.audio]
                           IN  row.status = doc.status /\ row.text = doc.text
                      /\ \A t \in Audio : db[t] # NoRow /\ db[t].holder # Nobody =>
                            db[t].holder \in DOMAIN manifest.assignments
                            /\ manifest.assignments[db[t].holder] = t
    BY DEF VerifiedMeansSame
  <1>1. \A t \in Audio : db[t] # NoRow <=> t \in Listed(manifest)
    BY DEF Verified, SameTasks, Listed
  <1>2. ASSUME NEW f \in DOMAIN manifest.files
        PROVE  LET doc == manifest.files[f].doc
                   row == db[doc.audio]
               IN  row.status = doc.status /\ row.text = doc.text
    <2> DEFINE doc == manifest.files[f].doc
               row == db[doc.audio]
    <2>1. doc.audio \in Audio /\ doc.audio \in Listed(manifest)
      BY DEF MigrationInv, MigrationTyped, ManifestTyped, Document, Listed
    <2>2. RowToLegacy(doc.audio, row) = doc
      BY <1>1, <2>1 DEF Verified
    <2>3. /\ RowToLegacy(doc.audio, row).status = row.status
          /\ RowToLegacy(doc.audio, row).text = row.text
      BY DEF RowToLegacy
    <2> QED
      BY <2>2, <2>3
  <1>3. ASSUME NEW t \in Audio, db[t] # NoRow, db[t].holder # Nobody
        PROVE  /\ db[t].holder \in DOMAIN manifest.assignments
               /\ manifest.assignments[db[t].holder] = t
    <2>1. db[t].holder \in Name
      BY <1>3, PresentIsRow DEF MigrationInv, Rows, Names
    <2> DEFINE p == <<db[t].holder, t>>
    <2>2. p \in {h \in Name \X Audio : db[h[2]] # NoRow /\ db[h[2]].holder = h[1]}
      BY <1>3, <2>1
    <2>3. p \in {<<n, manifest.assignments[n]>> : n \in DOMAIN manifest.assignments}
      BY <2>2 DEF Verified
    <2>4. PICK n \in DOMAIN manifest.assignments : p = <<n, manifest.assignments[n]>>
      BY <2>3
    <2> QED
      BY <2>4
  <1> QED
    BY <1>1, <1>2, <1>3

\* Batches are whole, exports are true and a verification that finds nothing says that
\* the store holds the manifest's tasks, each as it was.
THEOREM RowsTellTheFilesHolds == Spec => []RowsTellTheFiles
  <1>1. MigrationInv => RowsTellTheFiles
    BY ExportsFaithful, VerificationMeansSame DEF MigrationInv, RowsTellTheFiles
  <1> QED
    BY <1>1, MigrationInvHolds, PTL

\* No import undoes or redoes work, and nobody loses a task by the migration.
THEOREM WorkKeptHolds == Spec => WorkKept
  <1>1. MigrationInv /\ [Next]_vars => [Commit => WorkStays /\ OwnersStay]_vars
    <2> SUFFICES ASSUME MigrationInv, Commit PROVE WorkStays /\ OwnersStay
      OBVIOUS
    <2>1. /\ stage = "assign" /\ todo = {}
          /\ \A t \in Audio : db'[t] = Reserved(t)
      BY DEF Commit
    <2>2. WorkStays
      BY <2>1, ReservedRow DEF WorkStays, MigrationInv, TxFollows, SameWork
    <2>3. \A n \in DOMAIN manifest.assignments : db'[manifest.assignments[n]].holder = n
      BY <2>1, ReservedRow, AllRows DEF MigrationInv, AssignedSoFar
    <2>4. ASSUME NEW f \in DOMAIN manifest.files,
                 db'[manifest.files[f].doc.audio].status = "pending",
                 manifest.files[f].doc.editor # Nobody,
                 ~ \E n \in DOMAIN manifest.assignments :
                      manifest.assignments[n] = manifest.files[f].doc.audio
          PROVE  db'[manifest.files[f].doc.audio].reserved = manifest.files[f].doc.editor
      <3> DEFINE t == manifest.files[f].doc.audio
      <3>1. t \in Audio /\ tx[t] # NoRow /\ tx[t] \in Rows /\ ManifestTyped(manifest)
        BY <2>1, AllRows
      <3>2. tx[t].status = "pending"
        BY <2>1, <2>4, <3>1, ReservedRow
      <3>3. ItemEditor(t) = manifest.files[f].doc.editor
        <4>1. (CHOOSE g \in DOMAIN manifest.files : manifest.files[g].doc.audio = t) = f
          BY <3>1 DEF ManifestTyped
        <4> QED
          BY <4>1 DEF ItemEditor
      <3>4. Reserved(t) = [tx[t] EXCEPT !.reserved = ItemEditor(t)]
        BY <2>4, <3>2, <3>3 DEF Reserved
      <3>5. [tx[t] EXCEPT !.reserved = ItemEditor(t)].reserved = ItemEditor(t)
        BY <3>1 DEF Rows
      <3> QED
        BY <2>1, <3>1, <3>3, <3>4, <3>5
    <2> QED
      BY <2>2, <2>3, <2>4 DEF OwnersStay
  <1> QED
    BY <1>1, MigrationInvHolds, PTL DEF Spec, WorkKept
=============================================================================
