----------------------------- MODULE SourceProofs -----------------------------
(***************************************************************************)
(* Evidence stays in place and a completed run has recorded its snapshot,  *)
(* for any importers, batches, records and any number of crashes, reruns   *)
(* and scans.  An import decides about a record from what it read when it  *)
(* took the locks; ImportInv says that what it read still stands.          *)
(***************************************************************************)
EXTENDS SourceProperties, TLAPS

Member == [at : {"idle", "next", "placed", "locked"}, line : Nat,
           row : Path \cup {None}, known : Path \cup {None},
           good : BOOLEAN, bad : BOOLEAN]

SourcesTyped ==
    /\ manifest \in [1 .. Lines -> Record]
    /\ job \in [Importer -> Job]
    /\ tasks \in [Path -> TaskRow \cup {None}]
    /\ identities \in [Video -> [task : Path \cup {None}, sound : Sound \cup {None}]]
    /\ sources \in SUBSET Row
    /\ runs \in [Batch \X Snapshot -> RunStatus \cup {None}]
    /\ importer \in [Importer -> Member]
    /\ faults \in [reruns : Nat, crashes : Nat, scans : Nat]

SomeCurrent == \A s \in sources : Current(s.batch, s.key) # {}

\* A record at hand is one of the snapshot.
AtLine ==
    \A i \in Importer :
        /\ importer[i].at # "idle" => importer[i].line >= job[i].snapshot[1]
        /\ importer[i].at \in {"placed", "locked"} => importer[i].line <= job[i].snapshot[2]

\* Identities and evidence are about tasks there are.
Bound ==
    /\ \A v \in Video : identities[v].task # None => identities[v].task \in Tasks
    /\ \A s \in sources : s.task \in Tasks

\* What a transaction found of the identity stands, for nobody else has the video's lock.
KnownStands ==
    \A i \in Importer : importer[i].at = "locked" =>
        /\ importer[i].known = Known(Rec(i))
        /\ \A j \in Importer : /\ j # i /\ importer[j].at = "locked"
                               /\ Rec(i).video # None
                               => Rec(j).video # Rec(i).video

Recorded(b, n) ==
    \E s \in sources : /\ s.batch = b /\ s.key = manifest[n].key
                       /\ s.digest = Digest(manifest[n])
                       /\ manifest[n].path \in {s.task} \cup tasks[s.task].aliases

\* An import that has met no bad record has recorded all it has passed.
BehindRecorded ==
    \A i \in Importer : importer[i].at # "idle" /\ ~ importer[i].bad =>
        \A n \in job[i].snapshot[1] .. importer[i].line - 1 : Recorded(job[i].batch, n)

\* A path that only one video uses is a task once that video is bound to it.
OwnPathBound ==
    faults.scans = 0 =>
        \A n \in 1 .. Lines :
            /\ OwnPath(n) /\ manifest[n].video # None /\ manifest[n].path \in Tasks
            => identities[manifest[n].video].task = manifest[n].path

ImportInv ==
    /\ SourcesTyped /\ SomeCurrent /\ OneChain /\ EvidenceFollowsIdentity
    /\ AtLine /\ Bound /\ KnownStands /\ OwnPathBound
    /\ BehindRecorded /\ CompletedMeansRecorded

-----------------------------------------------------------------------------
(* The chain of one record                                                 *)

LEMMA CurrentIsOne ==
    ASSUME SourcesTyped, OneChain, NEW b, NEW k,
           NEW c \in Current(b, k), NEW d \in Current(b, k)
    PROVE  c = d
  <1>1. c.revision <= d.revision /\ d.revision <= c.revision
    BY DEF Current, OneChain
  <1>2. c.revision \in Nat /\ d.revision \in Nat
    BY DEF Current, SourcesTyped, Row
  <1>3. QED
    BY <1>1, <1>2 DEF Current, OneChain

\* A chain without a current link is empty.
LEMMA NoCurrentNoChain ==
    ASSUME SomeCurrent, NEW b, NEW k, Current(b, k) = {}
    PROVE  \A s \in sources : ~ (s.batch = b /\ s.key = k)
  BY DEF SomeCurrent

\* The chain of (b, k) gets another link, which becomes its current one.
LEMMA ChainGrows ==
    ASSUME SourcesTyped, OneChain, SomeCurrent, NEW b, NEW k, NEW new \in Row,
           new.batch = b, new.key = k, new.current,
           new.revision = NextRevision(Current(b, k)),
           \A c \in Current(b, k) : c.digest # new.digest /\ c.task = new.task,
           sources' = (sources \ Current(b, k))
                      \cup {[s EXCEPT !.current = FALSE] : s \in Current(b, k)}
                      \cup {new}
    PROVE  OneChain' /\ SomeCurrent'
  <1> DEFINE Same(s) == s.batch = b /\ s.key = k
  <1>1. CASE Current(b, k) = {}
    <2>1. sources' = sources \cup {new} /\ new.revision = 1
      BY <1>1 DEF NextRevision
    <2>2. \A s \in sources : ~ Same(s)
      BY <1>1, NoCurrentNoChain
    <2>3. OneChain'
      BY <2>1, <2>2 DEF OneChain, SourcesTyped, Row
    <2>4. SomeCurrent'
      BY <2>1, <2>2 DEF SomeCurrent, Current
    <2>5. QED
      BY <2>3, <2>4
  <1>2. ASSUME NEW c \in Current(b, k)
        PROVE  OneChain' /\ SomeCurrent'
    <2> DEFINE old == [c EXCEPT !.current = FALSE]
    <2>1. Current(b, k) = {c}
      BY CurrentIsOne
    <2>2. new.revision = c.revision + 1
      BY <2>1 DEF NextRevision
    <2>3. c \in sources /\ c \in Row /\ Same(c) /\ c.revision \in Nat
      BY DEF Current, SourcesTyped, Row
    <2>4. sources' = (sources \ {c}) \cup {old, new}
      BY <2>1
    <2>5. /\ Same(old) /\ ~ old.current /\ old.revision = c.revision
          /\ old.digest = c.digest /\ old.task = c.task
      BY <2>3 DEF Row
    <2> HIDE DEF old
    <2>6. \A s \in sources : Same(s) => s.revision <= c.revision /\ s.revision \in Nat
      BY DEF Current, OneChain, SourcesTyped, Row
    <2>7. \A s \in sources' : Same(s) => s.revision <= new.revision /\ s.revision \in Nat
      BY <2>2, <2>3, <2>4, <2>5, <2>6
    <2>8. \A s \in sources : Same(s) /\ s # c => s.revision < c.revision /\ ~ s.current
      BY <2>1, <2>3, <2>6 DEF OneChain, Current
    <2>9. \A s \in sources' :
            s.current <=> \A x \in sources' : x.batch = s.batch /\ x.key = s.key
                                              => x.revision <= s.revision
      <3>1. ASSUME NEW s \in sources', ~ Same(s)
            PROVE  s.current <=> \A x \in sources' : x.batch = s.batch /\ x.key = s.key
                                                     => x.revision <= s.revision
        BY <2>3, <2>4, <2>5, <3>1 DEF OneChain
      <3>2. ASSUME NEW s \in sources', Same(s)
            PROVE  s.current <=> \A x \in sources' : x.batch = s.batch /\ x.key = s.key
                                                     => x.revision <= s.revision
        <4>1. s.current <=> s = new
          BY <2>4, <2>5, <2>8, <3>2
        <4>2. s # new => s.revision < new.revision
          BY <2>2, <2>3, <2>4, <2>5, <2>6, <3>2
        <4>3. new \in sources' /\ Same(new)
          BY <2>4
        <4>4. QED
          BY <2>2, <2>3, <2>7, <3>2, <4>1, <4>2, <4>3
      <3>3. QED
        BY <3>1, <3>2
    <2>10. \A s \in sources' : s.revision > 1 =>
             \E x \in sources' : /\ x.batch = s.batch /\ x.key = s.key
                                 /\ x.revision = s.revision - 1
                                 /\ x.digest # s.digest /\ x.task = s.task
      <3>1. \A s \in sources : s.revision > 1 =>
              \E x \in sources' : /\ x.batch = s.batch /\ x.key = s.key
                                  /\ x.revision = s.revision - 1
                                  /\ x.digest # s.digest /\ x.task = s.task
        <4> SUFFICES ASSUME NEW s \in sources, s.revision > 1
                     PROVE  \E x \in sources' : /\ x.batch = s.batch /\ x.key = s.key
                                                /\ x.revision = s.revision - 1
                                                /\ x.digest # s.digest /\ x.task = s.task
          OBVIOUS
        <4>1. PICK x \in sources : /\ x.batch = s.batch /\ x.key = s.key
                                   /\ x.revision = s.revision - 1
                                   /\ x.digest # s.digest /\ x.task = s.task
          BY DEF OneChain
        <4>2. x # c \/ s.revision = c.revision + 1
          BY <4>1, <2>3 DEF SourcesTyped, Row
        <4>3. QED
          BY <4>1, <2>3, <2>4, <2>5
      <3>2. \E x \in sources' : /\ x.batch = new.batch /\ x.key = new.key
                                /\ x.revision = new.revision - 1
                                /\ x.digest # new.digest /\ x.task = new.task
        BY <2>2, <2>3, <2>4, <2>5
      <3>3. QED
        BY <2>3, <2>4, <2>5, <3>1, <3>2
    <2>11. \A s, x \in sources' : x.batch = s.batch /\ x.key = s.key
                                  /\ x.revision = s.revision => x = s
      <3>1. \A s, x \in sources : x.batch = s.batch /\ x.key = s.key
                                  /\ x.revision = s.revision => x = s
        BY DEF OneChain
      <3>2. \A s \in sources' \ {old, new} :
              s \in sources /\ (Same(s) => s.revision < c.revision)
        BY <2>4, <2>8
      <3>3. QED
        BY <2>2, <2>3, <2>4, <2>5, <3>1, <3>2
    <2>12. OneChain'
      BY <2>9, <2>10, <2>11 DEF OneChain
    <2>13. SomeCurrent'
      <3>1. \A s \in sources' : Same(s) => new \in Current(s.batch, s.key)'
        BY <2>4 DEF Current
      <3>2. ASSUME NEW s \in sources', ~ Same(s)
            PROVE  \E x \in sources' : x.batch = s.batch /\ x.key = s.key /\ x.current
        <4>1. s \in sources
          BY <2>4, <2>5, <3>2
        <4>2. PICK x \in Current(s.batch, s.key) : TRUE
          BY <4>1 DEF SomeCurrent
        <4>3. x \in sources' /\ x.batch = s.batch /\ x.key = s.key /\ x.current
          BY <2>3, <2>4, <3>2, <4>2 DEF Current
        <4>4. QED
          BY <4>3
      <3>3. QED
        BY <3>1, <3>2 DEF SomeCurrent, Current
    <2>14. QED
      BY <2>12, <2>13
  <1>3. QED
    BY <1>1, <1>2

-----------------------------------------------------------------------------
(* Tasks, records and importers                                            *)

LEMMA NoneIsNone ==
    /\ None \notin Path /\ None \notin Video /\ None \notin TaskRow
    /\ None \notin RunStatus /\ Lines \in Nat
  BY SourceAssumption

LEMMA WithPathForm ==
    ASSUME SourcesTyped, NEW t \in Path, NEW path \in Path,
           NEW sound \in Sound \cup {None}, NEW new, new = WithPath(t, path, sound)
    PROVE  /\ new \in [Path -> TaskRow \cup {None}]
           /\ new[t] # None /\ path \in {t} \cup new[t].aliases
           /\ \A p \in Path \ {t} : new[p] = tasks[p]
           /\ \A p \in Tasks : new[p] # None /\ tasks[p].aliases \subseteq new[p].aliases
  <1> DEFINE was == IF tasks[t] = None THEN [aliases |-> {}, sound |-> None] ELSE tasks[t]
             row == [aliases |-> was.aliases \cup ({path} \ {t}),
                     sound   |-> IF was.sound = None THEN sound ELSE was.sound]
  <1>1. was \in TaskRow /\ (tasks[t] # None => was = tasks[t])
    BY DEF SourcesTyped, TaskRow
  <1>2. new = [tasks EXCEPT ![t] = row]
    BY DEF WithPath
  <1> HIDE DEF was
  <1>3. /\ row \in TaskRow /\ was.aliases \subseteq row.aliases
        /\ path \in {t} \cup row.aliases
    BY <1>1 DEF TaskRow
  <1> HIDE DEF row
  <1>4. row # None
    BY <1>3, NoneIsNone
  <1>5. QED
    BY <1>1, <1>2, <1>3, <1>4 DEF SourcesTyped, Tasks

\* Importer i and the record it has before it.
LEMMA AtHand ==
    ASSUME ImportInv, NEW i \in Importer
    PROVE  /\ importer[i] \in Member /\ job[i] \in Job
           /\ Run(i) \in Batch \X Snapshot /\ Run(i) = <<job[i].batch, job[i].snapshot>>
           /\ job[i].snapshot[1] \in 1 .. Lines /\ job[i].snapshot[2] \in 1 .. Lines
           /\ \A n \in job[i].snapshot[1] .. job[i].snapshot[2] :
                  n \in 1 .. Lines /\ manifest[n] \in Record
           /\ AtRecord(i) \/ importer[i].at \in {"placed", "locked"} =>
                  Rec(i) \in Record /\ importer[i].line \in 1 .. Lines
  <1>1. importer[i] \in Member /\ job[i] \in Job
    BY DEF ImportInv, SourcesTyped
  <1>2. /\ job[i].batch \in Batch /\ job[i].snapshot \in Snapshot
        /\ job[i].snapshot[1] \in 1 .. Lines /\ job[i].snapshot[2] \in 1 .. Lines
    BY <1>1 DEF Job, Snapshot
  <1>3. AtRecord(i) \/ importer[i].at \in {"placed", "locked"} =>
            importer[i].line \in job[i].snapshot[1] .. job[i].snapshot[2]
    BY <1>1, <1>2 DEF ImportInv, AtLine, AtRecord, Member
  <1>4. \A n \in job[i].snapshot[1] .. job[i].snapshot[2] :
          n \in 1 .. Lines /\ manifest[n] \in Record
    BY <1>2, NoneIsNone DEF ImportInv, SourcesTyped
  <1>5. QED
    BY <1>1, <1>2, <1>3, <1>4 DEF Run, Rec

\* Evidence is kept: with another link at most, at a task that keeps its paths.
Keeps ==
    /\ manifest' = manifest
    /\ \A s \in sources : \E x \in sources' :
          x.batch = s.batch /\ x.key = s.key /\ x.digest = s.digest /\ x.task = s.task
    /\ \A p \in Tasks : tasks'[p] # None /\ tasks[p].aliases \subseteq tasks'[p].aliases

LEMMA RecordedStays ==
    ASSUME Bound, Keeps, NEW b, NEW n, Recorded(b, n)
    PROVE  Recorded(b, n)'
  <1>1. PICK s \in sources : /\ s.batch = b /\ s.key = manifest[n].key
                             /\ s.digest = Digest(manifest[n])
                             /\ manifest[n].path \in {s.task} \cup tasks[s.task].aliases
    BY DEF Recorded
  <1>2. PICK x \in sources' :
          x.batch = s.batch /\ x.key = s.key /\ x.digest = s.digest /\ x.task = s.task
    BY DEF Keeps
  <1>3. tasks[s.task].aliases \subseteq tasks'[x.task].aliases
    BY <1>2 DEF Bound, Keeps
  <1>4. Digest(manifest[n])' = Digest(manifest[n])
    BY DEF Keeps, Digest
  <1>5. QED
    BY <1>1, <1>2, <1>3, <1>4 DEF Recorded, Keeps

-----------------------------------------------------------------------------
(* Steps that leave tasks, identities and evidence alone                   *)

\* Importer i becomes p, knowing what it must, and has recorded what it is past.
Moves(i, p) ==
    /\ importer' = [importer EXCEPT ![i] = p]
    /\ p \in Member
    /\ p.at # "idle" => p.line >= job[i].snapshot[1]
    /\ p.at \in {"placed", "locked"} => p.line <= job[i].snapshot[2]
    /\ p.at = "locked" =>
         /\ p.known = Known(manifest[p.line])
         /\ \A j \in Importer \ {i} :
               importer[j].at = "locked" /\ manifest[p.line].video # None
               => Rec(j).video # manifest[p.line].video
    /\ p.at # "idle" /\ ~ p.bad =>
         \A n \in job[i].snapshot[1] .. p.line - 1 : Recorded(job[i].batch, n)

LEMMA MovesKeeps ==
    ASSUME ImportInv, NEW i \in Importer, NEW p, Moves(i, p),
           UNCHANGED <<manifest, job, tasks, identities, sources>>,
           faults' \in [reruns : Nat, crashes : Nat, scans : Nat],
           faults'.scans = faults.scans,
           runs' \in [Batch \X Snapshot -> RunStatus \cup {None}],
           \A run \in Batch \X Snapshot : runs'[run] = "completed" =>
               \/ runs[run] = "completed"
               \/ \A n \in run[2][1] .. run[2][2] : Recorded(run[1], n)
    PROVE  ImportInv'
  <1> USE DEF ImportInv
  <1>1. \A j \in Importer : importer'[j] = IF j = i THEN p ELSE importer[j]
    BY DEF SourcesTyped, Moves
  <1>2. SourcesTyped'
    BY DEF SourcesTyped, Moves
  <1>3. SomeCurrent' /\ OneChain' /\ EvidenceFollowsIdentity' /\ Bound'
    BY DEF SomeCurrent, Current, OneChain, EvidenceFollowsIdentity, Bound, Tasks
  <1>4. OwnPathBound'
    BY DEF OwnPathBound, OwnPath, Tasks
  <1>5. AtLine'
    BY <1>1 DEF AtLine, Moves
  <1>6. KnownStands'
    BY <1>1 DEF KnownStands, Moves, Rec, Known
  <1>7. Keeps
    BY DEF Keeps, Tasks
  <1>8. \A b, n : Recorded(b, n) => Recorded(b, n)'
    BY <1>7, RecordedStays
  <1>9. BehindRecorded'
    BY <1>1, <1>8 DEF BehindRecorded, Moves
  <1>10. CompletedMeansRecorded'
    <2>1. DOMAIN runs = Batch \X Snapshot /\ DOMAIN runs' = Batch \X Snapshot
      BY DEF SourcesTyped
    <2>2. \A run \in Batch \X Snapshot : runs[run] = "completed" =>
            \A n \in run[2][1] .. run[2][2] : Recorded(run[1], n)
      BY <2>1 DEF CompletedMeansRecorded, Recorded
    <2>3. \A run \in Batch \X Snapshot : runs'[run] = "completed" =>
            \A n \in run[2][1] .. run[2][2] : Recorded(run[1], n)'
      BY <1>8, <2>2
    <2>4. QED
      BY <2>1, <2>3 DEF CompletedMeansRecorded, Recorded
  <1>11. QED
    BY <1>2, <1>3, <1>4, <1>5, <1>6, <1>9, <1>10

LEMMA RunsStand ==
    ASSUME ImportInv, UNCHANGED runs
    PROVE  /\ runs' \in [Batch \X Snapshot -> RunStatus \cup {None}]
           /\ \A run \in Batch \X Snapshot : runs'[run] = "completed" =>
                 runs[run] = "completed"
  BY DEF ImportInv, SourcesTyped

\* A record is counted, and the next one comes up.
LEMMA CountedForm ==
    ASSUME NEW i \in Importer, importer[i] \in Member, NEW good \in BOOLEAN, Counted(i, good)
    PROVE  \E q \in Member : /\ importer' = [importer EXCEPT ![i] = q]
                             /\ q.at = "next" /\ q.line = importer[i].line + 1
                             /\ ~ q.bad => ~ importer[i].bad /\ good
  <1> DEFINE g == importer[i].good \/ good
             b == importer[i].bad \/ ~ good
             q == [importer[i] EXCEPT !.at = "next", !.line = @ + 1, !.row = None,
                                      !.known = None, !.good = g, !.bad = b]
  <1>1. importer' = [importer EXCEPT ![i] = q]
    BY DEF Counted
  <1>2. g \in BOOLEAN /\ b \in BOOLEAN /\ (~ b => ~ importer[i].bad /\ good)
    BY Zenon
  <1> HIDE DEF g, b
  <1>3. /\ q \in Member /\ q.at = "next" /\ q.line = importer[i].line + 1 /\ q.bad = b
    <2>1. importer[i].line + 1 \in Nat
      BY DEF Member
    <2>2. QED
      BY <1>2, <2>1 DEF Member
  <1> HIDE DEF q
  <1>4. QED
    BY <1>1, <1>2, <1>3

\* The import ends, or the record before it turns out bad.
LEMMA MovesForms ==
    ASSUME ImportInv, NEW i \in Importer
    PROVE  /\ importer' = [importer EXCEPT ![i] = Idle] => Moves(i, Idle)
           /\ importer[i].at # "idle" /\ Counted(i, FALSE) => \E p : Moves(i, p)
  <1>1. Idle \in Member /\ Idle.at = "idle"
    BY DEF Idle, Member
  <1>2. ASSUME importer[i].at # "idle", Counted(i, FALSE)
        PROVE  \E p : Moves(i, p)
    <2>1. importer[i] \in Member
      BY AtHand
    <2>2. PICK p \in Member : /\ importer' = [importer EXCEPT ![i] = p]
                              /\ p.at = "next" /\ p.line = importer[i].line + 1 /\ p.bad
      BY <1>2, <2>1, CountedForm
    <2>3. p.line >= job[i].snapshot[1]
      BY <1>2, <2>1, <2>2, AtHand DEF ImportInv, AtLine, Member
    <2>4. QED
      BY <2>2, <2>3 DEF Moves
  <1>3. QED
    BY <1>1, <1>2 DEF Moves

LEMMA EndingKeeps ==
    ASSUME ImportInv, NEW i \in Importer,
           NotReady(i) \/ Conflict(i) \/ Raise(i) \/ Crash(i)
    PROVE  ImportInv'
  <1>1. PICK p : Moves(i, p)
    BY MovesForms DEF NotReady, Conflict, Raise, Crash, AtRecord
  <1>2. /\ faults' \in [reruns : Nat, crashes : Nat, scans : Nat]
        /\ faults'.scans = faults.scans
    <2>1. faults \in [reruns : Nat, crashes : Nat, scans : Nat]
      BY DEF ImportInv, SourcesTyped
    <2>2. faults' = faults \/ faults' = [faults EXCEPT !.crashes = @ + 1]
      BY DEF NotReady, Conflict, Raise, Crash
    <2>3. QED
      BY <2>1, <2>2
  <1>3. UNCHANGED <<manifest, job, tasks, identities, sources, runs>>
    BY DEF NotReady, Conflict, Raise, Crash
  <1>4. QED
    BY <1>1, <1>2, <1>3, RunsStand, MovesKeeps

LEMMA BeginRunKeeps == ASSUME ImportInv, NEW i \in Importer, BeginRun(i) PROVE ImportInv'
  <1> DEFINE p == [Idle EXCEPT !.at = "next", !.line = job[i].snapshot[1]]
  <1>1. p \in Member /\ p.at = "next" /\ p.line = job[i].snapshot[1]
    <2>1. job[i].snapshot[1] \in Nat
      BY AtHand
    <2>2. QED
      BY <2>1 DEF Idle, Member
  <1>2. importer' = [importer EXCEPT ![i] = p]
    BY DEF BeginRun
  <1> HIDE DEF p
  <1>3. Moves(i, p)
    BY <1>1, <1>2, AtHand DEF Moves
  <1>4. /\ faults' \in [reruns : Nat, crashes : Nat, scans : Nat]
        /\ faults'.scans = faults.scans
    BY DEF ImportInv, SourcesTyped, BeginRun
  <1>5. /\ runs' \in [Batch \X Snapshot -> RunStatus \cup {None}]
        /\ \A run \in Batch \X Snapshot : runs'[run] = "completed" =>
              runs[run] = "completed"
    BY AtHand DEF ImportInv, SourcesTyped, BeginRun, RunStatus
  <1>6. QED
    BY <1>3, <1>4, <1>5, MovesKeeps DEF BeginRun

LEMMA FinishRunKeeps == ASSUME ImportInv, NEW i \in Importer, FinishRun(i) PROVE ImportInv'
  <1>1. Moves(i, Idle)
    BY MovesForms DEF FinishRun
  <1>2. /\ runs' \in [Batch \X Snapshot -> RunStatus \cup {None}]
        /\ \A run \in Batch \X Snapshot : runs'[run] = "completed" =>
              \/ runs[run] = "completed"
              \/ run = Run(i) /\ ~ importer[i].bad
    BY AtHand DEF ImportInv, SourcesTyped, FinishRun, Outcome, RunStatus
  <1>3. ~ importer[i].bad =>
          \A n \in job[i].snapshot[1] .. job[i].snapshot[2] : Recorded(job[i].batch, n)
    <2>1. importer[i].line \in Nat /\ job[i].snapshot[2] \in Nat /\ job[i].snapshot[1] \in Nat
      BY AtHand DEF Member
    <2>2. job[i].snapshot[1] .. job[i].snapshot[2]
             \subseteq job[i].snapshot[1] .. importer[i].line - 1
      BY <2>1 DEF FinishRun
    <2>3. QED
      BY <2>2 DEF ImportInv, BehindRecorded, FinishRun
  <1>4. Run(i)[1] = job[i].batch /\ Run(i)[2] = job[i].snapshot
    BY AtHand
  <1>5. QED
    BY <1>1, <1>2, <1>3, <1>4, MovesKeeps DEF FinishRun, ImportInv, SourcesTyped

LEMMA PlaceKeeps == ASSUME ImportInv, NEW i \in Importer, Place(i) PROVE ImportInv'
  <1>1. PICK p : Moves(i, p)
    <2> DEFINE p == [importer[i] EXCEPT !.at = "placed"]
    <2>1. /\ p \in Member /\ p.at = "placed" /\ p.line = importer[i].line
          /\ p.bad = importer[i].bad
      BY AtHand DEF Member
    <2>2. Goes(i, "placed") => importer' = [importer EXCEPT ![i] = p]
      BY DEF Goes
    <2> HIDE DEF p
    <2>3. Goes(i, "placed") => Moves(i, p)
      BY <2>1, <2>2 DEF Moves, Place, AtRecord, ImportInv, AtLine, BehindRecorded
    <2>4. QED
      BY <2>3, MovesForms DEF Place, AtRecord
  <1>2. QED
    BY <1>1, RunsStand, MovesKeeps DEF Place, ImportInv, SourcesTyped

LEMMA LockKeeps == ASSUME ImportInv, NEW i \in Importer, Lock(i) PROVE ImportInv'
  <1> DEFINE r == IF Rec(i).path \in Tasks THEN Rec(i).path ELSE None
             p == [importer[i] EXCEPT !.at = "locked", !.row = r, !.known = Known(Rec(i))]
  <1>1. importer[i] \in Member /\ Rec(i) \in Record /\ importer[i].at = "placed"
    BY AtHand DEF Lock
  <1>2. r \in Path \cup {None} /\ Known(Rec(i)) \in Path \cup {None}
    BY <1>1 DEF Record, Known, ImportInv, SourcesTyped
  <1>3. /\ p \in Member /\ p.at = "locked" /\ p.line = importer[i].line
        /\ p.known = Known(Rec(i)) /\ p.bad = importer[i].bad
    BY <1>1, <1>2 DEF Member
  <1>4. importer' = [importer EXCEPT ![i] = p]
    BY <1>1 DEF Lock, ImportInv, SourcesTyped, Member
  <1> HIDE DEF p, r
  <1>5. \A j \in Importer \ {i} : importer[j].at = "locked" /\ Rec(i).video # None
                                  => Rec(j).video # Rec(i).video
    BY DEF Lock, HoldsVideo
  <1>6. Moves(i, p)
    BY <1>1, <1>3, <1>4, <1>5
       DEF Moves, ImportInv, AtLine, BehindRecorded, Rec
  <1>7. QED
    BY <1>6, RunsStand, MovesKeeps DEF Lock, ImportInv, SourcesTyped

-----------------------------------------------------------------------------
(* The transaction of a record                                             *)

\* The evidence of a record, as a transaction that binds it to t leaves it.
LEMMA SyncedForm ==
    ASSUME ImportInv, NEW i \in Importer, NEW t \in Path, Rec(i) \in Record,
           ~ Elsewhere(i, t), sources' = Synced(i, t)
    PROVE  /\ sources' \in SUBSET Row /\ OneChain' /\ SomeCurrent'
           /\ \A s \in sources : \E x \in sources' :
                 x.batch = s.batch /\ x.key = s.key /\ x.digest = s.digest /\ x.task = s.task
           /\ \E x \in sources' : /\ x.batch = job[i].batch /\ x.key = Rec(i).key
                                  /\ x.digest = Digest(Rec(i)) /\ x.task = t
           /\ \A x \in sources' : \/ \E s \in sources : /\ x.task = s.task /\ x.digest = s.digest
                                                        /\ x.current => s.current
                                  \/ x.task = t /\ x.digest = Digest(Rec(i))
  <1> DEFINE b == job[i].batch
             k == Rec(i).key
             old == Current(b, k)
  <1>1. b \in Batch /\ k \in Key
    BY AtHand DEF Record, Job
  <1>2. \A s \in old : s \in sources /\ s \in Row /\ s.batch = b /\ s.key = k /\ s.task = t
    BY DEF Current, ImportInv, SourcesTyped, Elsewhere
  <1>3. CASE Unchanged(i)
    <2>1. sources' = sources
      BY <1>3 DEF Synced
    <2>2. PICK s \in old : s.digest = Digest(Rec(i))
      BY <1>3 DEF Unchanged
    <2>3. OneChain' /\ SomeCurrent'
      BY <2>1 DEF OneChain, SomeCurrent, Current, ImportInv
    <2>4. QED
      BY <1>2, <2>1, <2>2, <2>3 DEF ImportInv, SourcesTyped
  <1>4. CASE ~ Unchanged(i)
    <2> DEFINE new == [batch |-> b, key |-> k, revision |-> NextRevision(old), current |-> TRUE,
                       task |-> t, path |-> Rec(i).path, digest |-> Digest(Rec(i))]
               past(s) == [s EXCEPT !.current = FALSE]
    <2>1. sources' = (sources \ old) \cup {past(s) : s \in old} \cup {new}
      BY <1>4 DEF Synced
    <2>2. NextRevision(old) \in Nat \ {0}
      <3>1. CASE old = {}
        BY <3>1 DEF NextRevision
      <3>2. CASE old # {}
        <4>1. (CHOOSE s \in old : TRUE) \in old
          BY <3>2
        <4>2. (CHOOSE s \in old : TRUE).revision \in Nat
          BY <1>2, <4>1 DEF Row
        <4>3. QED
          BY <3>2, <4>2 DEF NextRevision
      <3>3. QED
        BY <3>1, <3>2
    <2>3. new \in Row /\ new.current = TRUE
      BY <1>1, <2>2, AtHand DEF Row, Record, Digest
    <2>4. \A c \in old : c.digest # Digest(Rec(i))
      BY <1>4 DEF Unchanged
    <2>5. /\ new.batch = b /\ new.key = k /\ new.task = t /\ new.digest = Digest(Rec(i))
          /\ new.revision = NextRevision(old)
      OBVIOUS
    <2> HIDE DEF new
    <2>6. \A s \in Row : /\ past(s) \in Row /\ past(s).batch = s.batch /\ past(s).key = s.key
                         /\ past(s).digest = s.digest /\ past(s).task = s.task
                         /\ ~ past(s).current
      BY DEF Row
    <2>7. OneChain' /\ SomeCurrent'
      <3>1. SourcesTyped /\ OneChain /\ SomeCurrent
        BY DEF ImportInv
      <3>2. \A c \in old : c.digest # new.digest /\ c.task = new.task
        BY <1>2, <2>4, <2>5
      <3>3. new.revision = NextRevision(Current(b, k)) /\ new.current
        BY <2>3, <2>5
      <3> HIDE DEF b, k
      <3>4. QED
        BY <2>1, <2>3, <2>5, <3>1, <3>2, <3>3, ChainGrows
    <2> HIDE DEF past, old, b, k
    <2>8. sources' \in SUBSET Row
      BY <1>2, <2>1, <2>3, <2>6 DEF ImportInv, SourcesTyped
    <2>9. \A s \in sources : \E x \in sources' :
             x.batch = s.batch /\ x.key = s.key /\ x.digest = s.digest /\ x.task = s.task
      BY <1>2, <2>1, <2>6
    <2>10. \A x \in sources' : \/ \E s \in sources : /\ x.task = s.task /\ x.digest = s.digest
                                                     /\ x.current => s.current
                               \/ x.task = t /\ x.digest = Digest(Rec(i))
      BY <1>2, <2>1, <2>5, <2>6
    <2>11. new \in sources'
      BY <2>1
    <2>12. QED
      BY <2>5, <2>7, <2>8, <2>9, <2>10, <2>11 DEF b, k
  <1>5. QED
    BY <1>3, <1>4

\* The identities, as that transaction leaves them.
LEMMA AttachedForm ==
    ASSUME ImportInv, NEW i \in Importer, importer[i].at = "locked", Rec(i) \in Record,
           identities' = Attached(Rec(i), Chosen(i))
    PROVE  /\ Chosen(i) \in Path
           /\ identities' \in [Video -> [task : Path \cup {None}, sound : Sound \cup {None}]]
           /\ \A v \in Video : identities'[v].task =
                 IF v = Rec(i).video THEN Chosen(i) ELSE identities[v].task
           /\ \A v \in Video : identities[v].task # None
                               => identities'[v].task = identities[v].task
  <1> DEFINE r == Rec(i)
  <1>1. importer[i].known = Known(r)
    BY DEF ImportInv, KnownStands
  <1>2. Chosen(i) \in Path /\ (Known(r) # None => Chosen(i) = Known(r))
    BY <1>1, AtHand DEF Chosen, Member, Record
  <1>3. r.video \in Video \cup {None} /\ r.sound \in Sound
    BY DEF Record
  <1> HIDE DEF r
  <1>4. CASE r.video = None
    BY <1>2, <1>4, NoneIsNone DEF Attached, ImportInv, SourcesTyped, r
  <1>5. CASE r.video # None /\ Known(r) # None
    BY <1>2, <1>3, <1>5 DEF Attached, ImportInv, SourcesTyped, r, Known
  <1>6. CASE r.video # None /\ Known(r) = None
    <2>1. identities' = [identities EXCEPT ![r.video] = [task |-> Chosen(i), sound |-> r.sound]]
      BY <1>6 DEF Attached, r
    <2>2. identities[r.video].task = None
      BY <1>6 DEF Known
    <2>3. QED
      BY <1>2, <1>3, <1>6, <2>1, <2>2 DEF ImportInv, SourcesTyped, r
  <1>7. QED
    BY <1>4, <1>5, <1>6

LEMMA ImportKeeps == ASSUME ImportInv, NEW i \in Importer, Import(i) PROVE ImportInv'
  <1> USE DEF ImportInv
  <1> DEFINE r == Rec(i)
             t == Chosen(i)
  <1>1. /\ importer[i].at = "locked" /\ importer[i] \in Member /\ r \in Record
        /\ importer[i].line \in 1 .. Lines /\ r = manifest[importer[i].line]
    BY AtHand DEF Import, Rec
  <1>2. /\ t \in Path
        /\ identities' \in [Video -> [task : Path \cup {None}, sound : Sound \cup {None}]]
        /\ \A v \in Video : identities'[v].task = IF v = r.video THEN t ELSE identities[v].task
        /\ \A v \in Video : identities[v].task # None
                            => identities'[v].task = identities[v].task
    BY <1>1, AttachedForm DEF Import
  <1>3. /\ r.path \in Path /\ r.sound \in Sound /\ r.key \in Key
        /\ r.video \in Video \cup {None}
    BY <1>1 DEF Record
  <1>4. /\ tasks' \in [Path -> TaskRow \cup {None}]
        /\ tasks'[t] # None /\ r.path \in {t} \cup tasks'[t].aliases
        /\ \A p \in Path \ {t} : tasks'[p] = tasks[p]
        /\ \A p \in Tasks : tasks'[p] # None /\ tasks[p].aliases \subseteq tasks'[p].aliases
    BY <1>2, <1>3, WithPathForm DEF Import
  <1>5. /\ sources' \in SUBSET Row /\ OneChain' /\ SomeCurrent'
        /\ \A s \in sources : \E x \in sources' :
              x.batch = s.batch /\ x.key = s.key /\ x.digest = s.digest /\ x.task = s.task
        /\ \E x \in sources' : /\ x.batch = job[i].batch /\ x.key = r.key
                               /\ x.digest = Digest(r) /\ x.task = t
        /\ \A x \in sources' : \/ \E s \in sources : /\ x.task = s.task /\ x.digest = s.digest
                                                     /\ x.current => s.current
                               \/ x.task = t /\ x.digest = Digest(r)
    BY <1>1, <1>2, SyncedForm DEF Import
  <1>6. PICK q \in Member : /\ importer' = [importer EXCEPT ![i] = q]
                            /\ q.at = "next" /\ q.line = importer[i].line + 1
                            /\ ~ q.bad => ~ importer[i].bad
    BY <1>1, CountedForm DEF Import
  <1>7. \A j \in Importer : importer'[j] = IF j = i THEN q ELSE importer[j]
    BY <1>6 DEF SourcesTyped
  <1>8. UNCHANGED <<manifest, job, runs, faults>>
    BY DEF Import
  <1>9. \A v \in Video : v # r.video => identities'[v] = identities[v]
    BY <1>3 DEF Import, Attached, SourcesTyped
  <1> HIDE DEF r, t
  <1>10. Keeps
    BY <1>4, <1>5, <1>8 DEF Keeps
  <1>11. \A b, n : Recorded(b, n) => Recorded(b, n)'
    BY <1>10, RecordedStays
  <1>12. SourcesTyped'
    BY <1>2, <1>4, <1>5, <1>6, <1>7, <1>8 DEF SourcesTyped
  <1>13. EvidenceFollowsIdentity'
    <2> SUFFICES ASSUME NEW x \in sources', x.current, x.digest[3] # None
                 PROVE  identities'[x.digest[3]].task = x.task
      BY DEF EvidenceFollowsIdentity
    <2>1. x.digest[3] \in Video
      BY <1>5 DEF Row
    <2>2. CASE \E s \in sources : x.task = s.task /\ x.digest = s.digest /\ (x.current => s.current)
      <3>1. PICK s \in sources : x.task = s.task /\ x.digest = s.digest /\ s.current
        BY <2>2
      <3>2. identities[x.digest[3]].task = x.task
        BY <3>1 DEF EvidenceFollowsIdentity
      <3>3. x.task # None
        BY <1>5, NoneIsNone DEF Row
      <3>4. QED
        BY <1>2, <2>1, <3>2, <3>3
    <2>3. CASE x.task = t /\ x.digest = Digest(r)
      <3>1. x.digest[3] = r.video
        BY <2>3 DEF Digest
      <3>2. QED
        BY <1>2, <2>1, <2>3, <3>1
    <2>4. QED
      BY <1>5, <2>2, <2>3
  <1>14. AtLine'
    <2>1. q.line >= job[i].snapshot[1]
      BY <1>1, <1>6, AtHand DEF AtLine, Member
    <2>2. QED
      BY <1>6, <1>7, <1>8, <2>1 DEF AtLine
  <1>15. Bound'
    <2>1. \A p \in Tasks \cup {t} : p \in Path /\ tasks'[p] # None
      BY <1>2, <1>4 DEF Tasks
    <2>2. \A v \in Video : identities'[v].task # None => identities'[v].task \in Tasks \cup {t}
      BY <1>2 DEF Bound
    <2>3. \A x \in sources' : x.task \in Tasks \cup {t}
      BY <1>5 DEF Bound
    <2>4. QED
      BY <2>1, <2>2, <2>3 DEF Bound, Tasks
  <1>16. KnownStands'
    <2> SUFFICES ASSUME NEW j \in Importer, importer'[j].at = "locked"
                 PROVE  /\ importer'[j].known = Known(Rec(j))'
                        /\ \A l \in Importer : /\ l # j /\ importer'[l].at = "locked"
                                               /\ Rec(j)'.video # None
                                               => Rec(l)'.video # Rec(j)'.video
      BY DEF KnownStands
    <2>1. j # i /\ importer'[j] = importer[j]
      BY <1>6, <1>7
    <2>2. Rec(j)' = Rec(j) /\ \A l \in Importer \ {i} : Rec(l)' = Rec(l)
      BY <1>7, <1>8, <2>1 DEF Rec
    <2>3. \A l \in Importer : /\ l # j /\ importer'[l].at = "locked" /\ Rec(j)'.video # None
                              => Rec(l)'.video # Rec(j)'.video
      BY <1>6, <1>7, <2>1, <2>2 DEF KnownStands
    <2>4. Rec(j) \in Record
      BY <2>1, AtHand
    <2>5. Rec(j).video # None => Rec(j).video # r.video
      BY <1>1, <2>1 DEF KnownStands, r
    <2>6. Known(Rec(j))' = Known(Rec(j))
      BY <1>9, <2>2, <2>4, <2>5 DEF Known, Record
    <2>7. QED
      BY <2>1, <2>3, <2>6 DEF KnownStands
  <1>17. BehindRecorded'
    <2>1. \A n : n = importer[i].line => Recorded(job[i].batch, n)'
      BY <1>1, <1>4, <1>5, <1>8 DEF Recorded, Digest
    <2>2. \A j \in Importer : importer[j].at # "idle" /\ ~ importer[j].bad =>
             \A n \in job[j].snapshot[1] .. importer[j].line - 1 : Recorded(job[j].batch, n)'
      BY <1>8, <1>11 DEF BehindRecorded
    <2>3. ~ q.bad => \A n \in job[i].snapshot[1] .. q.line - 1 : Recorded(job[i].batch, n)'
      <3>1. \A n \in job[i].snapshot[1] .. q.line - 1 :
              n \in job[i].snapshot[1] .. importer[i].line - 1 \/ n = importer[i].line
        BY <1>1, <1>6, AtHand
      <3>2. QED
        BY <1>1, <1>6, <1>8, <2>1, <2>2, <3>1
    <2>4. QED
      BY <1>7, <1>8, <2>2, <2>3 DEF BehindRecorded
  <1>18. CompletedMeansRecorded'
    BY <1>8, <1>11 DEF CompletedMeansRecorded, Recorded
  <1>19. OwnPathBound'
    <2> SUFFICES ASSUME faults.scans = 0, NEW n \in 1 .. Lines, OwnPath(n),
                        manifest[n].video # None, manifest[n].path \in Tasks'
                 PROVE  identities'[manifest[n].video].task = manifest[n].path
      BY <1>8 DEF OwnPathBound, OwnPath
    <2>1. manifest[n].video \in Video /\ manifest[n].path \in Path
      BY DEF SourcesTyped, Record
    <2>2. CASE manifest[n].path \in Tasks
      <3>1. identities[manifest[n].video].task = manifest[n].path
        BY <2>2 DEF OwnPathBound
      <3>2. QED
        BY <1>2, <2>1, <3>1, NoneIsNone
    <2>3. CASE manifest[n].path \notin Tasks
      <3>1. manifest[n].path = t
        BY <1>4, <2>1, <2>3 DEF Tasks
      <3>2. importer[i].known = None
        <4>1. importer[i].known = Known(r)
          BY <1>1 DEF KnownStands, r
        <4>2. Known(r) # None => Known(r) \in Tasks
          BY <1>3 DEF Known, Bound
        <4>3. QED
          BY <2>3, <3>1, <4>1, <4>2 DEF Chosen, t
      <3>3. t = r.path
        BY <3>2 DEF Chosen, t, r
      <3>4. r.video = manifest[n].video
        BY <1>1, <3>1, <3>3 DEF OwnPath, SourcesTyped
      <3>5. QED
        BY <1>2, <2>1, <3>1, <3>4
    <2>4. QED
      BY <2>2, <2>3
  <1>20. QED
    BY <1>5, <1>12, <1>13, <1>14, <1>15, <1>16, <1>17, <1>18, <1>19

-----------------------------------------------------------------------------
(* A scan, and the whole                                                   *)

LEMMA ScanKeeps == ASSUME ImportInv, NEW p \in Path, Scan(p) PROVE ImportInv'
  <1> USE DEF ImportInv
  <1>1. PICK t \in IF Found(p) = {} THEN {p} ELSE Found(p) : tasks' = WithPath(t, p, None)
    BY DEF Scan
  <1>2. Found(p) \subseteq Path
    BY DEF Found, Tasks, SourcesTyped, Row
  <1>3. t \in Path
    BY <1>1, <1>2
  <1>4. /\ tasks' \in [Path -> TaskRow \cup {None}]
        /\ \A x \in Tasks : tasks'[x] # None /\ tasks[x].aliases \subseteq tasks'[x].aliases
    BY <1>1, <1>3, WithPathForm
  <1>5. UNCHANGED <<manifest, job, identities, sources, runs, importer>>
    BY DEF Scan
  <1>6. faults' \in [reruns : Nat, crashes : Nat, scans : Nat] /\ faults'.scans # 0
    BY DEF Scan, SourcesTyped
  <1>7. Keeps
    BY <1>4, <1>5 DEF Keeps
  <1>8. \A b, n : Recorded(b, n) => Recorded(b, n)'
    BY <1>7, RecordedStays
  <1>9. SourcesTyped'
    BY <1>4, <1>5, <1>6 DEF SourcesTyped
  <1>10. SomeCurrent' /\ OneChain' /\ EvidenceFollowsIdentity' /\ AtLine'
    BY <1>5 DEF SomeCurrent, Current, OneChain, EvidenceFollowsIdentity, AtLine
  <1>11. Bound'
    BY <1>4, <1>5 DEF Bound, Tasks
  <1>12. KnownStands'
    BY <1>5 DEF KnownStands, Rec, Known
  <1>13. OwnPathBound'
    BY <1>6 DEF OwnPathBound
  <1>14. BehindRecorded'
    BY <1>5, <1>8 DEF BehindRecorded
  <1>15. CompletedMeansRecorded'
    BY <1>5, <1>8 DEF CompletedMeansRecorded, Recorded
  <1>16. QED
    BY <1>9, <1>10, <1>11, <1>12, <1>13, <1>14, <1>15

LEMMA ImportInit == ASSUME Init PROVE ImportInv
  <1> USE DEF Init
  <1>1. SourcesTyped
    BY NoneIsNone DEF SourcesTyped, Idle, Member
  <1>2. SomeCurrent /\ OneChain /\ EvidenceFollowsIdentity
    BY DEF SomeCurrent, OneChain, EvidenceFollowsIdentity
  <1>3. AtLine /\ KnownStands /\ BehindRecorded
    BY DEF AtLine, KnownStands, BehindRecorded, Idle
  <1>4. Bound
    BY DEF Bound
  <1>5. OwnPathBound
    BY DEF OwnPathBound, Tasks
  <1>6. CompletedMeansRecorded
    BY NoneIsNone DEF CompletedMeansRecorded, RunStatus
  <1>7. QED
    BY <1>1, <1>2, <1>3, <1>4, <1>5, <1>6 DEF ImportInv

LEMMA ImportNext == ASSUME ImportInv, [Next]_vars PROVE ImportInv'
  <1>1. ASSUME NEW i \in Importer, BeginRun(i) \/ Lock(i) \/ Work(i) \/ Crash(i)
        PROVE  ImportInv'
    BY <1>1, BeginRunKeeps, LockKeeps, PlaceKeeps, ImportKeeps, FinishRunKeeps, EndingKeeps, Zenon
       DEF Work
  <1>2. ASSUME NEW p \in Path, Scan(p)
        PROVE  ImportInv'
    BY <1>2, ScanKeeps
  <1>3. ASSUME UNCHANGED vars
        PROVE  ImportInv'
    <2> USE <1>3 DEF vars, ImportInv
    <2>1. SourcesTyped' /\ AtLine' /\ EvidenceFollowsIdentity'
      BY DEF SourcesTyped, AtLine, EvidenceFollowsIdentity
    <2>2. SomeCurrent' /\ OneChain'
      BY DEF SomeCurrent, Current, OneChain
    <2>3. Bound' /\ KnownStands'
      BY DEF Bound, KnownStands, Tasks, Rec, Known
    <2>4. OwnPathBound'
      BY DEF OwnPathBound, OwnPath, Tasks
    <2>5. \A b, n : Recorded(b, n)' <=> Recorded(b, n)
      BY DEF Recorded, Digest
    <2>6. BehindRecorded'
      BY <2>5 DEF BehindRecorded
    <2>7. CompletedMeansRecorded'
      BY <2>5 DEF CompletedMeansRecorded, Recorded
    <2>8. QED
      BY <2>1, <2>2, <2>3, <2>4, <2>6, <2>7
  <1>4. QED
    BY <1>1, <1>2, <1>3 DEF Next

-----------------------------------------------------------------------------
\* What an import read of an identity under its locks still stands when it decides, the
\* evidence of a record is one chain, and what an import has passed it has recorded,
\* however many importers, batches, records, crashes, reruns and scans there are.
THEOREM ImportInvHolds == Spec => []ImportInv
  <1>1. Init => ImportInv
    BY ImportInit
  <1>2. ImportInv /\ [Next]_vars => ImportInv'
    BY ImportNext
  <1>3. QED
    BY <1>1, <1>2, PTL DEF Spec

\* The evidence of every record is one chain, found at the task of its video's identity,
\* and, unless preprocess.py took up a file itself, a video is one task.
THEOREM EvidenceInPlaceHolds == Spec => []EvidenceInPlace
  <1>1. ASSUME ImportInv, faults.scans = 0
        PROVE  OneTaskPerVideo
    <2>1. DOMAIN manifest = 1 .. Lines
      BY <1>1 DEF ImportInv, SourcesTyped
    <2>2. \A n \in DOMAIN manifest :
             /\ OwnPath(n) /\ manifest[n].video # None /\ manifest[n].path \in Tasks
             => identities[manifest[n].video].task = manifest[n].path
      BY <1>1, <2>1 DEF ImportInv, OwnPathBound
    <2>3. QED
      BY <2>2 DEF OneTaskPerVideo
  <1>2. ImportInv => EvidenceInPlace
    BY <1>1 DEF ImportInv, EvidenceInPlace
  <1>3. QED
    BY <1>2, ImportInvHolds, PTL

\* A run that reads "completed" has left evidence of every record of its snapshot.
THEOREM CompletedMeansRecordedHolds == Spec => []CompletedMeansRecorded
  <1>1. ImportInv => CompletedMeansRecorded
    BY DEF ImportInv
  <1>2. QED
    BY <1>1, ImportInvHolds, PTL
=============================================================================
