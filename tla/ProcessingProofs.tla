---------------------------- MODULE ProcessingProofs ----------------------------
(***************************************************************************)
(* The processing lease excludes, checkpoints grow and the audio follows   *)
(* the row, for any number of processes, segments, attempts, crashes and   *)
(* failures.  Leases are numbered, so a process whose number is not the    *)
(* row's can never store again; LeaseInv says so, and what that means for  *)
(* the file a process has parked.                                          *)
(***************************************************************************)
EXTENDS ProcessingProperties, TLAPS

\* Past segmentation, where a process relies on the file it read.
PastVad == {"load", "renew", "asr", "store", "reject"}

\* The rejection is recorded and nobody works on the task.
Settled == row.rejected /\ ~ row.eligible /\ row.stage = "free"

LeaseTyped ==
    /\ now \in Time
    /\ row \in Row
    /\ audio \in {"there", "parked", "gone"}
    /\ worker \in [Worker -> Process]
    /\ faults \in [failures : Nat, crashes : Nat]

\* Leases are numbered; no two processes have the same number.
Numbered ==
    /\ row.token \in {0, row.version}
    /\ \A w \in Worker :
         /\ worker[w].token <= row.version
         /\ worker[w].at \in PastVad \cup {"segment", "commit"} => worker[w].token # 0
    /\ \A v, w \in Worker :
         v # w /\ worker[v].token # 0 => worker[v].token # worker[w].token

\* The holder works on from what the row has.
Continues ==
    \A w \in Worker :
      /\ worker[w].token = row.token
      /\ worker[w].at \in {"renew", "asr", "store", "reject", "commit"}
      /\ ~ worker[w].blind
      => row.text \subseteq worker[w].text

\* Whoever parks the file holds the task; while the file is away nobody who
\* could still store anything works on it.
Parked ==
    /\ \A w \in Worker : worker[w].at = "commit" =>
         worker[w].token = row.token /\ row.stage = "free" /\ audio = "parked"
    /\ audio # "there" =>
         \A w \in Worker : worker[w].at \in PastVad => worker[w].token # row.token
    /\ \A w \in Worker : worker[w].at = "unlink" =>
         audio # "there" /\ Settled /\ ~ Locked

LeaseInv == LeaseTyped /\ Numbered /\ Continues /\ Parked /\ AudioFollowsRow

-----------------------------------------------------------------------------
(* Steps of one process                                                    *)

\* Process w becomes q; others stay.  A number is kept or dropped, and the file
\* is neither parked nor deleted.
Moves(w, q) ==
    /\ worker' = [worker EXCEPT ![w] = q]
    /\ q \in Process
    /\ q.token \in {0, worker[w].token}
    /\ q.at \in PastVad \cup {"segment"} => q.token # 0
    /\ q.at \notin {"commit", "unlink"}
    /\ now' = now
    /\ faults' \in [failures : Nat, crashes : Nat]
    /\ faults'.crashes >= faults.crashes

\* The task keeps its content; its lease may be prolonged or end.
Quiet ==
    /\ row' \in Row
    /\ row'.version = row.version /\ row'.text = row.text
    /\ row'.eligible = row.eligible /\ row'.rejected = row.rejected
    /\ row'.stage = row.stage
    /\ row'.token = row.token \/ (row'.token = 0 /\ ~ Locked)
    /\ audio' = audio

\* A process that moves on while the task keeps its content: whatever it knows
\* of the text it has from the row, and it is past segmentation only if the
\* file was there.
LEMMA QuietKeeps ==
    ASSUME LeaseInv, NEW w \in Worker, NEW q, Moves(w, q), Quiet,
           q.at \in PastVad => worker[w].at \in PastVad \/ audio = "there",
           q.at \in PastVad \ {"load"} /\ q.token = row.token /\ ~ q.blind =>
               row.text \subseteq q.text,
           worker[w].at = "commit" => faults'.crashes > 0
    PROVE  LeaseInv'
  <1> USE DEF LeaseInv, Moves, Quiet
  <1>1. \A v \in Worker : worker'[v] = IF v = w THEN q ELSE worker[v]
    BY DEF LeaseTyped
  <1>2. LeaseTyped'
    BY DEF LeaseTyped
  <1>3. Numbered'
    BY <1>1, <1>2 DEF Numbered, LeaseTyped, Row, Process, Token, PastVad
  <1>4. Continues'
    BY <1>1 DEF Continues, Numbered, PastVad
  <1>5. Locked => Locked' \/ faults'.crashes > 0
    BY <1>1 DEF Locked
  <1>6. Locked' => Locked
    BY <1>1 DEF Locked
  <1>7. Parked'
    BY <1>1, <1>6 DEF Parked, Numbered, PastVad, Settled, Locked
  <1>8. AudioFollowsRow'
    BY <1>5 DEF AudioFollowsRow, DeletedIsRejected, ParkedForAReason, LeaseTyped
  <1>9. QED
    BY <1>2, <1>3, <1>4, <1>7, <1>8

\* The holder stores a result, or fails to with the file back in its place, and
\* is done with the task either way.
LEMMA StoringKeeps ==
    ASSUME LeaseInv, NEW w \in Worker, NEW q, Moves(w, q),
           worker[w].at \in {"store", "reject", "commit"},
           worker[w].token = row.token,
           q.at \notin PastVad \cup {"segment"},
           row' \in Row, row'.version = row.version, row'.token \in {0, row.token},
           audio' = "there"
    PROVE  LeaseInv'
  <1> USE DEF LeaseInv, Moves
  <1>1. \A v \in Worker : worker'[v] = IF v = w THEN q ELSE worker[v]
    BY DEF LeaseTyped
  <1>2. LeaseTyped'
    BY DEF LeaseTyped
  <1>3. Numbered'
    BY <1>1, <1>2 DEF Numbered, LeaseTyped, Row, Process, Token, PastVad
  <1>4. row.token # 0
    BY DEF Numbered, PastVad
  <1>5. \A v \in Worker : v # w => worker[v].token # row.token
    BY <1>4 DEF Numbered
  <1>6. \A v \in Worker : worker[v].at \notin {"commit", "unlink"} \/ v = w
    BY <1>5 DEF Parked, Locked, PastVad
  <1>7. Continues'
    BY <1>1, <1>5 DEF Continues, Numbered, PastVad
  <1>8. Parked'
    BY <1>1, <1>6 DEF Parked
  <1>9. AudioFollowsRow'
    BY DEF AudioFollowsRow, DeletedIsRejected, ParkedForAReason
  <1>10. QED
    BY <1>2, <1>3, <1>7, <1>8, <1>9

-----------------------------------------------------------------------------
(* The actions of one process                                              *)

LEMMA Constants ==
    /\ Ttl \in Nat /\ Attempts \in Nat /\ Ttl > 0 /\ Attempts > 0
    /\ MaxTime \in Nat /\ MaxLeases \in Nat
    /\ 0 \in Token /\ 0 \in 0 .. MaxTime + Ttl /\ Token \subseteq Nat
  BY LeaseAssumption DEF Token

\* The empty record of a process, the next attempt, and a change of place.
LEMMA ProcessForms ==
    ASSUME LeaseTyped
    PROVE  /\ Idle \in Process
           /\ \A p \in Process :
                /\ NextTry(p) \in Process
                /\ NextTry(p).token = 0 /\ NextTry(p).at \in {"begin", "idle"}
           /\ \A p \in Process, at \in At : [p EXCEPT !.at = at] \in Process
  <1>1. Idle \in Process
    BY Constants DEF Idle, Process, At, Token, Time
  <1>2. ASSUME NEW p \in Process
        PROVE  /\ NextTry(p) \in Process
               /\ NextTry(p).token = 0 /\ NextTry(p).at \in {"begin", "idle"}
    <2>1. CASE p.tries < Attempts
      <3>1. p.tries + 1 \in 0 .. Attempts
        BY <2>1, Constants DEF Process
      <3>2. QED
        BY <1>1, <2>1, <3>1 DEF LeaseTyped, NextTry, Idle, Process, At
    <2>2. CASE ~ p.tries < Attempts
      BY <1>1, <2>2 DEF NextTry, Idle
    <2>3. QED
      BY <2>1, <2>2
  <1>3. QED
    BY <1>1, <1>2 DEF Process

LEMMA ReleasedForm ==
    ASSUME NEW r \in Row, NEW token
    PROVE  /\ Released(r, token) \in Row
           /\ Released(r, token).version = r.version
           /\ Released(r, token).text = r.text /\ Released(r, token).stage = r.stage
           /\ Released(r, token).eligible = r.eligible
           /\ Released(r, token).rejected = r.rejected
           /\ Released(r, token).token = IF r.token = token THEN 0 ELSE r.token
  <1>1. CASE r.token = token
    BY <1>1, Constants DEF Released, Row
  <1>2. CASE r.token # token
    BY <1>2 DEF Released
  <1>3. QED
    BY <1>1, <1>2

LEMMA ProlongedForm ==
    ASSUME LeaseTyped, NEW w \in Worker, NEW t \in Begun(w)
    PROVE  /\ t \in Time /\ t <= now
           /\ [row EXCEPT !.until = t + Ttl] \in Row
  BY Constants DEF LeaseTyped, Begun, Row, Process, Time

LEMMA ScanKeeps == ASSUME LeaseInv, NEW w \in Worker, Scan(w) PROVE LeaseInv'
  <1> DEFINE q == [Idle EXCEPT !.at = "begin", !.since = now, !.tries = 1]
  <1>1. q \in Process /\ q.token = 0 /\ q.at = "begin"
    <2>1. 1 \in 0 .. Attempts /\ now \in Time
      BY Constants DEF LeaseInv, LeaseTyped
    <2>2. QED
      BY <2>1, Constants DEF Idle, Process, At
  <1> HIDE DEF q
  <1>2. Moves(w, q) /\ Quiet
    BY <1>1 DEF LeaseInv, LeaseTyped, Scan, Becomes, Moves, Quiet, PastVad, q
  <1>3. QED
    BY <1>1, <1>2, QuietKeeps DEF Scan, PastVad

LEMMA SegmentKeeps == ASSUME LeaseInv, NEW w \in Worker, Segment(w) PROVE LeaseInv'
  <1>1. PICK at \in {"release", "failed", "reject", "load"} :
          /\ Goes(w, at)
          /\ at \in {"reject", "load"} => audio = "there"
          /\ at = "reject" => Seg = {}
    BY DEF Segment
  <1> DEFINE q == [worker[w] EXCEPT !.at = at]
  <1>2. /\ q \in Process /\ q.at = at /\ q.token = worker[w].token
        /\ q.text = worker[w].text
    BY DEF LeaseInv, LeaseTyped, At, Process
  <1>3. Moves(w, q) /\ Quiet
    BY <1>1, <1>2 DEF LeaseInv, LeaseTyped, Numbered, Segment, Goes, Becomes,
         Moves, Quiet, PastVad
  <1>4. at = "reject" => row.text \subseteq q.text
    BY <1>1 DEF LeaseInv, LeaseTyped, Row
  <1> HIDE DEF q
  <1>5. QED
    BY <1>1, <1>2, <1>3, <1>4, QuietKeeps DEF Segment, PastVad

LEMMA LoadCheckpointKeeps ==
    ASSUME LeaseInv, NEW w \in Worker, LoadCheckpoint(w) PROVE LeaseInv'
  <1> DEFINE q == [worker[w] EXCEPT !.at = "renew", !.blind = Protected,
                                    !.text = IF Protected THEN {} ELSE row.text]
  <1>1. /\ q \in Process /\ q.at = "renew" /\ q.token = worker[w].token
        /\ ~ q.blind => q.text = row.text
    BY DEF LeaseInv, LeaseTyped, At, Process, Row, Protected
  <1>2. worker' = [worker EXCEPT ![w] = q]
    BY DEF LoadCheckpoint, Becomes
  <1> HIDE DEF q
  <1>3. Moves(w, q) /\ Quiet
    BY <1>1, <1>2 DEF LeaseInv, LeaseTyped, Numbered, LoadCheckpoint, Moves,
         Quiet, PastVad
  <1>4. QED
    BY <1>1, <1>3, QuietKeeps DEF LoadCheckpoint, PastVad

\* A transaction that prolongs the lease, or changes nothing, after which the
\* process goes on, or to the end of its attempt, with what it has.
LEMMA SameWorkKeeps ==
    ASSUME LeaseInv, NEW w \in Worker, NEW q \in Process,
           worker' = [worker EXCEPT ![w] = q], worker[w].at \in PastVad \cup {"segment"},
           q.token = worker[w].token, q.text = worker[w].text,
           q.blind = worker[w].blind,
           q.at \in {"failed", "release"}
           \/ q.at = worker[w].at \/ (worker[w].at = "renew" /\ q.at = "asr"),
           Quiet, now' = now, faults' \in [failures : Nat, crashes : Nat],
           faults'.crashes = faults.crashes
    PROVE  LeaseInv'
  <1>1. Moves(w, q)
    BY DEF LeaseInv, LeaseTyped, Numbered, Moves, PastVad
  <1>2. q.at \in PastVad \ {"load"} /\ q.token = row.token /\ ~ q.blind =>
            row.text \subseteq q.text
    BY DEF LeaseInv, Continues, PastVad
  <1>3. QED
    BY <1>1, <1>2, QuietKeeps DEF PastVad

LEMMA RenewKeeps == ASSUME LeaseInv, NEW w \in Worker, Renew(w) PROVE LeaseInv'
  <1>1. PICK t \in Begun(w), at \in {"asr", "failed"} :
          Goes(w, at) /\ row' \in {row, [row EXCEPT !.until = t + Ttl]}
    BY DEF Renew
  <1> DEFINE q == [worker[w] EXCEPT !.at = at]
  <1>2. /\ q \in Process /\ q.at = at /\ q.token = worker[w].token
        /\ q.text = worker[w].text /\ q.blind = worker[w].blind
        /\ worker' = [worker EXCEPT ![w] = q]
    BY <1>1 DEF LeaseInv, LeaseTyped, At, Process, Goes, Becomes
  <1>3. [row EXCEPT !.until = t + Ttl] \in Row
    BY ProlongedForm DEF LeaseInv
  <1>4. Quiet
    BY <1>1, <1>3 DEF LeaseInv, LeaseTyped, Row, Quiet, Renew
  <1> HIDE DEF q
  <1>5. QED
    BY <1>2, <1>4, SameWorkKeeps DEF Renew, PastVad, LeaseInv, LeaseTyped

LEMMA HeartbeatKeeps == ASSUME LeaseInv, NEW w \in Worker, Heartbeat(w) PROVE LeaseInv'
  <1>1. PICK t \in Begun(w), beat \in BOOLEAN :
          /\ worker' = [worker EXCEPT ![w] = [worker[w] EXCEPT !.beat = beat]]
          /\ row' \in {row, [row EXCEPT !.until = t + Ttl]}
    <2>1. worker = [worker EXCEPT ![w] = [worker[w] EXCEPT !.beat = worker[w].beat]]
      BY DEF LeaseInv, LeaseTyped, Process
    <2>2. worker[w].beat \in BOOLEAN
      BY DEF LeaseInv, LeaseTyped, Process
    <2>3. QED
      BY <2>1, <2>2 DEF Heartbeat, Becomes
  <1> DEFINE q == [worker[w] EXCEPT !.beat = beat]
  <1>2. /\ q \in Process /\ q.at = worker[w].at /\ q.token = worker[w].token
        /\ q.text = worker[w].text /\ q.blind = worker[w].blind
    BY DEF LeaseInv, LeaseTyped, Process
  <1>3. [row EXCEPT !.until = t + Ttl] \in Row
    BY ProlongedForm DEF LeaseInv
  <1>4. Quiet
    BY <1>1, <1>3 DEF LeaseInv, LeaseTyped, Row, Quiet, Heartbeat
  <1> HIDE DEF q
  <1>5. QED
    BY <1>1, <1>2, <1>4, SameWorkKeeps
       DEF Heartbeat, PastVad, LeaseInv, LeaseTyped, q

LEMMA TranscribeKeeps == ASSUME LeaseInv, NEW w \in Worker, Transcribe(w) PROVE LeaseInv'
  <1>1. PICK at \in {"reject", "store"}, new \in SUBSET Seg, tries \in {Attempts, worker[w].tries} :
          worker' = [worker EXCEPT ![w] = [worker[w] EXCEPT
                       !.at = at, !.text = @ \cup new, !.tries = tries]]
    BY DEF Transcribe, Becomes
  <1> DEFINE q == [worker[w] EXCEPT !.at = at, !.text = @ \cup new, !.tries = tries]
  <1>2. /\ q \in Process /\ q.at = at /\ q.token = worker[w].token
        /\ worker[w].text \subseteq q.text /\ q.blind = worker[w].blind
    <2>1. tries \in 0 .. Attempts
      BY Constants DEF LeaseInv, LeaseTyped, Process
    <2>2. QED
      BY <2>1 DEF LeaseInv, LeaseTyped, At, Process
  <1>3. worker' = [worker EXCEPT ![w] = q]
    BY <1>1
  <1> HIDE DEF q
  <1>4. Moves(w, q) /\ Quiet
    BY <1>2, <1>3 DEF LeaseInv, LeaseTyped, Numbered, Transcribe, Moves, Quiet,
         PastVad
  <1>5. q.token = row.token /\ ~ q.blind => row.text \subseteq q.text
    BY <1>2 DEF LeaseInv, Continues, Transcribe
  <1>6. QED
    BY <1>2, <1>4, <1>5, QuietKeeps DEF Transcribe, PastVad

LEMMA BreaksKeeps == ASSUME LeaseInv, NEW w \in Worker, Breaks(w) PROVE LeaseInv'
  <1> DEFINE q == [worker[w] EXCEPT !.at = "failed"]
  <1>1. /\ q \in Process /\ q.at = "failed" /\ q.token = worker[w].token
        /\ q.text = worker[w].text /\ q.blind = worker[w].blind
        /\ worker' = [worker EXCEPT ![w] = q]
    BY DEF LeaseInv, LeaseTyped, At, Process, Breaks, Goes, Becomes
  <1>2. /\ faults' \in [failures : Nat, crashes : Nat]
        /\ faults'.crashes = faults.crashes
    BY DEF LeaseInv, LeaseTyped, Breaks, Fail
  <1> HIDE DEF q
  <1>3. Quiet
    BY DEF LeaseInv, LeaseTyped, Quiet, Breaks
  <1>4. QED
    BY <1>1, <1>2, <1>3, SameWorkKeeps DEF Breaks, PastVad, LeaseInv, LeaseTyped

LEMMA CrashKeeps == ASSUME LeaseInv, NEW w \in Worker, Crash(w) PROVE LeaseInv'
  <1>1. Idle \in Process /\ Idle.token = 0 /\ Idle.at = "idle"
    BY ProcessForms DEF LeaseInv, Idle
  <1>2. faults' \in [failures : Nat, crashes : Nat] /\ faults'.crashes > faults.crashes
    BY DEF LeaseInv, LeaseTyped, Crash
  <1>3. Moves(w, Idle) /\ Quiet
    BY <1>1, <1>2 DEF LeaseInv, LeaseTyped, Crash, Becomes, Moves, Quiet, PastVad
  <1>4. faults'.crashes > 0
    BY <1>2 DEF LeaseInv, LeaseTyped
  <1>5. QED
    BY <1>1, <1>3, <1>4, QuietKeeps DEF PastVad

LEMMA BeginKeeps == ASSUME LeaseInv, NEW w \in Worker, Begin(w) PROVE LeaseInv'
  <1>1. PICK t \in Begun(w) :
          \/ Becomes(w, Idle) /\ row' = row
          \/ /\ row.version < MaxLeases /\ row' = Acquired(t)
             /\ Becomes(w, [worker[w] EXCEPT !.at = "segment", !.token = row.version + 1,
                                             !.since = now, !.beat = TRUE])
    BY DEF Begin
  <1>2. CASE Becomes(w, Idle) /\ row' = row
    <2>1. Idle \in Process /\ Idle.token = 0 /\ Idle.at = "idle"
      BY ProcessForms DEF LeaseInv, Idle
    <2>2. Moves(w, Idle) /\ Quiet
      BY <1>2, <2>1 DEF LeaseInv, LeaseTyped, Begin, Becomes, Moves, Quiet, PastVad
    <2>3. QED
      BY <2>1, <2>2, QuietKeeps DEF Begin, PastVad
  <1>3. CASE /\ row.version < MaxLeases /\ row' = Acquired(t)
             /\ Becomes(w, [worker[w] EXCEPT !.at = "segment", !.token = row.version + 1,
                                             !.since = now, !.beat = TRUE])
    <2> DEFINE q == [worker[w] EXCEPT !.at = "segment", !.token = row.version + 1,
                                      !.since = now, !.beat = TRUE]
    <2>1. row.version \in Nat /\ row.version + 1 \in Token
      BY <1>3, Constants DEF LeaseInv, LeaseTyped, Row, Token
    <2>2. /\ q \in Process /\ q.at = "segment" /\ q.token = row.version + 1
          /\ \A v \in Worker : worker'[v] = IF v = w THEN q ELSE worker[v]
          /\ worker' \in [Worker -> Process]
      BY <1>3, <2>1 DEF LeaseInv, LeaseTyped, At, Process, Becomes
    <2>3. t + Ttl \in 0 .. MaxTime + Ttl
      <3>1. t \in Time
        BY ProlongedForm DEF LeaseInv
      <3>2. QED
        BY <3>1, Constants DEF Time
    <2>4. /\ row' \in Row
          /\ row'.token = row.version + 1 /\ row'.version = row.version + 1
          /\ row'.text = row.text /\ row'.stage = row.stage
          /\ row'.eligible = row.eligible /\ row'.rejected = row.rejected
      BY <1>3, <2>1, <2>3 DEF LeaseInv, LeaseTyped, Row, Acquired
    <2> HIDE DEF q
    <2>5. /\ LeaseTyped'
          /\ now' = now /\ audio' = audio /\ faults' = faults
      BY <2>2, <2>4 DEF LeaseInv, LeaseTyped, Begin
    <2>6. \A v \in Worker : worker[v].token \in Nat /\ worker[v].token <= row.version
      <3>1. \A v \in Worker : worker[v].token \in Token
        BY DEF LeaseInv, LeaseTyped, Process
      <3>2. \A v \in Worker : worker[v].token \in Nat
        BY <3>1, Constants
      <3>3. \A v \in Worker : worker[v].token <= row.version
        BY DEF LeaseInv, Numbered
      <3>4. QED
        BY <3>2, <3>3
    <2>7. Numbered'
      BY <2>1, <2>2, <2>4, <2>6 DEF LeaseInv, Numbered, PastVad
    <2>8. Continues'
      BY <2>1, <2>2, <2>4, <2>6 DEF Continues
    <2>9. ~ Locked /\ ~ Locked'
      BY <2>2 DEF Begin, Locked
    <2>10. Parked'
      BY <2>1, <2>2, <2>4, <2>5, <2>6, <2>9
         DEF LeaseInv, Parked, Settled, PastVad, Locked
    <2>11. AudioFollowsRow'
      BY <2>4, <2>5, <2>9
         DEF LeaseInv, AudioFollowsRow, DeletedIsRejected, ParkedForAReason
    <2>12. QED
      BY <2>5, <2>7, <2>8, <2>10, <2>11 DEF LeaseInv
  <1>4. QED
    BY <1>1, <1>2, <1>3

\* What a store or a rejection makes of the row.
LEMMA ResultForms ==
    ASSUME LeaseTyped, NEW w \in Worker
    PROVE  /\ WithResult(w) \in Row /\ WithResult(w).version = row.version
           /\ WithResult(w).token \in {0, row.token}
           /\ WithResult(w).text = worker[w].text
           /\ Rejected(w) \in Row /\ Rejected(w).version = row.version
           /\ Rejected(w).token = IF row.token = worker[w].token THEN 0 ELSE row.token
           /\ Rejected(w).rejected /\ ~ Rejected(w).eligible
           /\ Rejected(w).stage = row.stage /\ Rejected(w).text = worker[w].text
  <1> DEFINE r1 == [row EXCEPT !.text = worker[w].text, !.rejected = FALSE,
                               !.eligible = worker[w].text = Seg]
             r2 == [row EXCEPT !.text = worker[w].text, !.rejected = TRUE,
                               !.eligible = FALSE]
  <1>1. /\ r1 \in Row /\ r1.version = row.version /\ r1.token = row.token
        /\ r2 \in Row /\ r2.version = row.version /\ r2.token = row.token
        /\ r2.rejected /\ ~ r2.eligible /\ r2.stage = row.stage
        /\ r2.text = worker[w].text
        /\ r1.text = worker[w].text
    BY DEF LeaseTyped, Row, Process
  <1>2. WithResult(w) = Released(r1, worker[w].token)
    BY DEF WithResult
  <1>3. Rejected(w) = Released(r2, worker[w].token)
    BY DEF Rejected
  <1> HIDE DEF r1, r2
  <1>4. QED
    BY <1>1, <1>2, <1>3, ReleasedForm

\* The holder gives its lease back; the task keeps its content.
LEMMA GivesBackKeeps ==
    ASSUME LeaseInv, NEW w \in Worker, NEW q \in Process, ~ Locked,
           worker' = [worker EXCEPT ![w] = q], q.token \in {0, worker[w].token},
           q.at \in {"failed", "release", "begin", "idle"},
           row' \in {row, Released(row, worker[w].token)},
           audio' = audio, now' = now, faults' \in [failures : Nat, crashes : Nat],
           faults'.crashes = faults.crashes
    PROVE  LeaseInv'
  <1>1. Moves(w, q)
    BY DEF LeaseInv, LeaseTyped, Moves, PastVad
  <1>2. Quiet
    BY ReleasedForm DEF LeaseInv, LeaseTyped, Quiet
  <1>3. QED
    BY <1>1, <1>2, QuietKeeps DEF PastVad, Locked

LEMMA StoreKeeps == ASSUME LeaseInv, NEW w \in Worker, Store(w) PROVE LeaseInv'
  <1>1. PICK q \in {[worker[w] EXCEPT !.at = "failed"],
                    [worker[w] EXCEPT !.at = "release"], NextTry(worker[w])} :
          /\ worker' = [worker EXCEPT ![w] = q]
          /\ \/ row' \in {row, Released(row, worker[w].token)}
             \/ worker[w].token = row.token /\ row' = WithResult(w)
    BY DEF Store, Goes, Becomes, Holds
  <1>2. /\ q \in Process /\ q.token \in {0, worker[w].token}
        /\ q.at \in {"failed", "release", "begin", "idle"}
    <2>1. worker[w] \in Process
      BY DEF LeaseInv, LeaseTyped
    <2>2. NextTry(worker[w]) \in Process /\ NextTry(worker[w]).token = 0
          /\ NextTry(worker[w]).at \in {"begin", "idle"}
      BY <2>1, ProcessForms DEF LeaseInv
    <2>3. ASSUME NEW at \in {"failed", "release"}
          PROVE  LET p == [worker[w] EXCEPT !.at = at] IN
                 p \in Process /\ p.token = worker[w].token /\ p.at = at
      BY <2>1 DEF Process, At
    <2>4. QED
      BY <2>2, <2>3
  <1>3. /\ now' = now /\ audio' = audio /\ faults' = faults /\ ~ Locked
        /\ faults \in [failures : Nat, crashes : Nat]
        /\ worker[w].at = "store"
    BY DEF Store, LeaseInv, LeaseTyped
  <1>4. CASE row' \in {row, Released(row, worker[w].token)}
    BY <1>1, <1>2, <1>3, <1>4, GivesBackKeeps
  <1>5. CASE worker[w].token = row.token /\ row' = WithResult(w)
    <2>1. audio = "there"
      BY <1>3, <1>5 DEF LeaseInv, Parked, PastVad
    <2>2. Moves(w, q)
      BY <1>1, <1>2, <1>3 DEF LeaseInv, LeaseTyped, Moves, PastVad
    <2>3. /\ row' \in Row /\ row'.version = row.version
          /\ row'.token \in {0, row.token}
      BY <1>5, ResultForms DEF LeaseInv
    <2>4. QED
      BY <1>2, <1>3, <1>5, <2>1, <2>2, <2>3, StoringKeeps DEF PastVad
  <1>6. QED
    BY <1>1, <1>4, <1>5

LEMMA RejectKeeps == ASSUME LeaseInv, NEW w \in Worker, Reject(w) PROVE LeaseInv'
  <1>1. PICK at \in {"failed", "release", "commit"} :
          /\ Goes(w, at)
          /\ \/ at # "commit" /\ row' \in {row, Released(row, worker[w].token)}
                /\ audio' = audio
             \/ at # "commit" /\ worker[w].token = row.token /\ row' = Rejected(w)
                /\ audio' = audio
             \/ at = "commit" /\ worker[w].token = row.token /\ row' = row
                /\ row.stage = "free" /\ audio' = "parked" /\ audio = "there"
    <2>1. row.stage \in Stage
      BY DEF LeaseInv, LeaseTyped, Row
    <2>2. QED
      BY <2>1 DEF Reject, Holds, Protected, Deletes
  <1> DEFINE q == [worker[w] EXCEPT !.at = at]
  <1>2. /\ q \in Process /\ q.at = at /\ q.token = worker[w].token
        /\ q.text = worker[w].text /\ q.blind = worker[w].blind
        /\ worker' = [worker EXCEPT ![w] = q]
        /\ \A v \in Worker : worker'[v] = IF v = w THEN q ELSE worker[v]
    BY <1>1 DEF LeaseInv, LeaseTyped, At, Process, Goes, Becomes
  <1> HIDE DEF q
  <1>3. /\ now' = now /\ faults' = faults /\ ~ Locked
        /\ faults \in [failures : Nat, crashes : Nat]
        /\ worker[w].at = "reject" /\ worker[w].token # 0
    BY DEF Reject, LeaseInv, LeaseTyped, Numbered, PastVad
  <1>4. CASE at # "commit" /\ row' \in {row, Released(row, worker[w].token)}
             /\ audio' = audio
    BY <1>2, <1>3, <1>4, GivesBackKeeps
  <1>5. CASE at # "commit" /\ worker[w].token = row.token /\ row' = Rejected(w)
             /\ audio' = audio
    <2>1. audio' = "there"
      BY <1>3, <1>5 DEF LeaseInv, Parked, PastVad
    <2>2. Moves(w, q)
      BY <1>2, <1>3, <1>5 DEF LeaseInv, LeaseTyped, Moves, PastVad
    <2>3. /\ row' \in Row /\ row'.version = row.version
          /\ row'.token \in {0, row.token}
      BY <1>5, ResultForms DEF LeaseInv
    <2>4. QED
      BY <1>2, <1>3, <1>5, <2>1, <2>2, <2>3, StoringKeeps DEF PastVad
  <1>6. CASE at = "commit" /\ worker[w].token = row.token /\ row' = row
             /\ row.stage = "free" /\ audio' = "parked" /\ audio = "there"
    <2>1. LeaseTyped'
      BY <1>2, <1>3, <1>6 DEF LeaseInv, LeaseTyped
    <2>2. Numbered'
      BY <1>2, <1>3, <1>6 DEF LeaseInv, Numbered, PastVad
    <2>3. Continues'
      BY <1>2, <1>3, <1>6 DEF LeaseInv, Continues
    <2>4. \A v \in Worker : v # w => worker[v].token # row.token
      BY <1>3, <1>6 DEF LeaseInv, Numbered
    <2>5. \A v \in Worker : worker[v].at # "unlink"
      BY <1>6 DEF LeaseInv, Parked
    <2>6. Locked'
      BY <1>2, <1>6 DEF Locked
    <2>7. Parked'
      BY <1>2, <1>3, <1>6, <2>4, <2>5 DEF LeaseInv, Parked, PastVad, Locked
    <2>8. AudioFollowsRow'
      BY <1>6, <2>6 DEF AudioFollowsRow, DeletedIsRejected, ParkedForAReason
    <2>9. QED
      BY <2>1, <2>2, <2>3, <2>7, <2>8 DEF LeaseInv
  <1>7. QED
    BY <1>1, <1>4, <1>5, <1>6

LEMMA CommitKeeps == ASSUME LeaseInv, NEW w \in Worker, Commit(w) PROVE LeaseInv'
  <1> DEFINE q == [worker[w] EXCEPT !.at = "unlink"]
  <1>1. /\ q \in Process /\ q.at = "unlink" /\ q.token = worker[w].token
        /\ \A v \in Worker : worker'[v] = IF v = w THEN q ELSE worker[v]
        /\ worker' \in [Worker -> Process]
    BY DEF LeaseInv, LeaseTyped, At, Process, Commit, Goes, Becomes
  <1> HIDE DEF q
  <1>2. /\ worker[w].token = row.token /\ row.token # 0
        /\ row.stage = "free" /\ audio = "parked"
        /\ \A v \in Worker : v # w => worker[v].token # row.token
    BY DEF Commit, LeaseInv, Numbered, Parked, PastVad
  <1>3. /\ row' \in Row /\ row'.version = row.version /\ row'.token = 0
        /\ Settled'
        /\ now' = now /\ audio' = audio /\ faults' = faults
    BY <1>2, ResultForms DEF Commit, LeaseInv, Settled
  <1>4. LeaseTyped'
    BY <1>1, <1>3 DEF LeaseInv, LeaseTyped
  <1>5. Numbered'
    BY <1>1, <1>2, <1>3 DEF LeaseInv, Numbered, PastVad
  <1>6. Continues'
    BY <1>1, <1>3 DEF LeaseInv, Continues, Numbered, PastVad
  <1>7. ~ Locked'
    BY <1>1, <1>2 DEF LeaseInv, Parked, Locked
  <1>8. Parked'
    BY <1>1, <1>2, <1>3, <1>7 DEF LeaseInv, Parked, Numbered, PastVad, Locked
  <1>9. AudioFollowsRow'
    BY <1>2, <1>3 DEF AudioFollowsRow, DeletedIsRejected, ParkedForAReason, Settled
  <1>10. QED
    BY <1>4, <1>5, <1>6, <1>8, <1>9 DEF LeaseInv

LEMMA CommitRaisesKeeps ==
    ASSUME LeaseInv, NEW w \in Worker, CommitRaises(w) PROVE LeaseInv'
  <1> DEFINE q == [worker[w] EXCEPT !.at = "failed"]
  <1>1. /\ q \in Process /\ q.at = "failed" /\ q.token = worker[w].token
        /\ worker' = [worker EXCEPT ![w] = q]
    BY DEF LeaseInv, LeaseTyped, At, Process, CommitRaises, Goes, Becomes
  <1> HIDE DEF q
  <1>2. Moves(w, q)
    BY <1>1 DEF LeaseInv, LeaseTyped, Moves, PastVad, CommitRaises, Fail
  <1>3. worker[w].token = row.token
    BY DEF CommitRaises, LeaseInv, Parked
  <1>4. /\ row' \in Row /\ row'.version = row.version
        /\ row'.token \in {0, row.token}
    BY ResultForms DEF CommitRaises, LeaseInv, LeaseTyped
  <1>5. QED
    BY <1>1, <1>2, <1>3, <1>4, StoringKeeps DEF CommitRaises, PastVad

LEMMA UnlinkKeeps == ASSUME LeaseInv, NEW w \in Worker, Unlink(w) PROVE LeaseInv'
  <1> DEFINE q == [worker[w] EXCEPT !.at = "release"]
  <1>1. /\ q \in Process /\ q.at = "release" /\ q.token = worker[w].token
        /\ \A v \in Worker : worker'[v] = IF v = w THEN q ELSE worker[v]
        /\ worker' \in [Worker -> Process]
    BY DEF LeaseInv, LeaseTyped, At, Process, Unlink, Goes, Becomes
  <1> HIDE DEF q
  <1>2. Settled /\ ~ Locked /\ audio # "there"
    BY DEF Unlink, LeaseInv, Parked
  <1>3. /\ row' = row /\ now' = now /\ audio' \in {audio, "gone"}
        /\ faults' \in [failures : Nat, crashes : Nat]
    BY DEF Unlink, Fail, LeaseInv, LeaseTyped
  <1>4. LeaseTyped' /\ Numbered' /\ Continues'
    BY <1>1, <1>3 DEF LeaseInv, LeaseTyped, Numbered, Continues, PastVad
  <1>5. Parked'
    BY <1>1, <1>2, <1>3 DEF LeaseInv, Parked, PastVad, Settled, Locked
  <1>6. AudioFollowsRow'
    BY <1>2, <1>3 DEF AudioFollowsRow, DeletedIsRejected, ParkedForAReason, Settled
  <1>7. QED
    BY <1>4, <1>5, <1>6 DEF LeaseInv

LEMMA ReleaseKeeps == ASSUME LeaseInv, NEW w \in Worker, Release(w) PROVE LeaseInv'
  <1>1. PICK q \in {Idle, NextTry(worker[w])} : worker' = [worker EXCEPT ![w] = q]
    BY DEF Release, Becomes
  <1>2. q \in Process /\ q.token = 0 /\ q.at \in {"begin", "idle"}
    <2>1. Idle \in Process /\ Idle.token = 0 /\ Idle.at = "idle"
      BY ProcessForms DEF LeaseInv, Idle
    <2>2. NextTry(worker[w]) \in Process /\ NextTry(worker[w]).token = 0
          /\ NextTry(worker[w]).at \in {"begin", "idle"}
      BY ProcessForms DEF LeaseInv, LeaseTyped
    <2>3. QED
      BY <2>1, <2>2
  <1>3. /\ row' \in {row, Released(row, worker[w].token)} /\ ~ Locked
        /\ now' = now /\ audio' = audio
        /\ faults' \in [failures : Nat, crashes : Nat]
        /\ faults'.crashes = faults.crashes
    BY DEF Release, Fail, LeaseInv, LeaseTyped
  <1>4. QED
    BY <1>1, <1>2, <1>3, GivesBackKeeps

-----------------------------------------------------------------------------
(* Annotators, time, and the whole                                         *)

LEMMA AnnotatorKeeps == ASSUME LeaseInv, Claim \/ GiveUp \/ Keep PROVE LeaseInv'
  <1>1. PICK stage \in Stage :
          /\ row' = [row EXCEPT !.stage = stage]
          /\ UNCHANGED <<now, audio, worker, faults>>
    BY DEF Claim, GiveUp, Keep, Stage
  <1>2. /\ row' \in Row /\ row'.version = row.version /\ row'.token = row.token
        /\ row'.text = row.text /\ row'.rejected = row.rejected
        /\ row'.eligible = row.eligible
    BY <1>1 DEF LeaseInv, LeaseTyped, Row
  <1>3. ~ Settled
    BY DEF Claim, GiveUp, Keep, Settled
  <1>4. ~ Locked
    BY DEF Claim, GiveUp, Keep, LeaseInv, Parked, Locked
  <1>5. LeaseTyped' /\ Numbered' /\ Continues'
    BY <1>1, <1>2 DEF LeaseInv, LeaseTyped, Numbered, Continues
  <1>6. Parked'
    BY <1>1, <1>2, <1>3, <1>4 DEF LeaseInv, Parked, Locked
  <1>7. AudioFollowsRow'
    BY <1>1, <1>2, <1>3, <1>4
       DEF LeaseInv, AudioFollowsRow, DeletedIsRejected, ParkedForAReason, Settled
  <1>8. QED
    BY <1>5, <1>6, <1>7 DEF LeaseInv

LEMMA TickKeeps == ASSUME LeaseInv, Tick PROVE LeaseInv'
  <1>1. now' \in Time
    BY Constants DEF LeaseInv, LeaseTyped, Time, Tick
  <1>2. UNCHANGED <<row, audio, worker, faults>>
    BY DEF Tick
  <1>3. QED
    BY <1>1, <1>2
       DEF LeaseInv, LeaseTyped, Numbered, Continues, Parked, AudioFollowsRow,
           DeletedIsRejected, ParkedForAReason, Settled, Locked

LEMMA LeaseInit == Init => LeaseInv
  <1> SUFFICES ASSUME Init PROVE LeaseInv
    OBVIOUS
  <1>1. now = 0 /\ 0 \in Time
    BY Constants DEF Init, Time
  <1>2. row \in Row /\ row.token = 0 /\ row.version = 0 /\ row.text = {}
    BY Constants DEF Init, Row, Stage
  <1>3. worker \in [Worker -> Process]
    <2>1. Idle \in Process
      BY <1>1, Constants DEF Idle, Process, At
    <2>2. QED
      BY <2>1 DEF Init
  <1>4. \A w \in Worker : worker[w].at = "idle" /\ worker[w].token = 0
    BY DEF Init, Idle
  <1>5. LeaseTyped
    BY <1>1, <1>2, <1>3 DEF Init, LeaseTyped
  <1>6. audio = "there"
    BY DEF Init
  <1>7. QED
    BY <1>2, <1>4, <1>5, <1>6
       DEF LeaseInv, Numbered, Continues, Parked, AudioFollowsRow, DeletedIsRejected,
           ParkedForAReason, PastVad

LEMMA LeaseNext == LeaseInv /\ [Next]_vars => LeaseInv'
  <1> SUFFICES ASSUME LeaseInv, [Next]_vars PROVE LeaseInv'
    OBVIOUS
  <1>1. CASE \E w \in Worker : Step(w)
    <2> SUFFICES ASSUME NEW w \in Worker, Step(w) PROVE LeaseInv'
      BY <1>1
    <2>1. QED
      BY ScanKeeps, BeginKeeps, SegmentKeeps, LoadCheckpointKeeps, RenewKeeps,
         TranscribeKeeps, HeartbeatKeeps, StoreKeeps, RejectKeeps, CommitKeeps,
         CommitRaisesKeeps, UnlinkKeeps, ReleaseKeeps, BreaksKeeps, CrashKeeps, Zenon
         DEF Step
  <1>2. CASE Claim \/ GiveUp \/ Keep
    BY <1>2, AnnotatorKeeps
  <1>3. CASE Tick
    BY <1>3, TickKeeps
  <1>4. CASE UNCHANGED vars
    BY <1>4
       DEF vars, LeaseInv, LeaseTyped, Numbered, Continues, Parked, AudioFollowsRow,
           DeletedIsRejected, ParkedForAReason, Settled, Locked
  <1>5. QED
    BY <1>1, <1>2, <1>3, <1>4 DEF Next

\* Leases are numbered, the holder goes on from the row's text, and the file
\* is away only while nobody could store anything about it.
THEOREM LeaseInvHolds == Spec => []LeaseInv
  BY LeaseInit, LeaseNext, PTL DEF Spec

\* Audio is deleted only under a recorded rejection, and parked for a reason,
\* whatever processes die and whatever transactions fail.
THEOREM AudioFollowsRowHolds == Spec => []AudioFollowsRow
  <1>1. LeaseInv => AudioFollowsRow
    BY DEF LeaseInv
  <1>2. QED
    BY <1>1, LeaseInvHolds, PTL

-----------------------------------------------------------------------------
(* What a step may do                                                      *)

\* The row's content and its lease: what a step of process w may do to them.
Touches(w) ==
    /\ worker'[w] # worker[w]
    /\ worker[w].token = row.token /\ worker[w].token = row.version
    /\ worker[w].at \in {"store", "reject", "commit"}
    /\ row'.text \in {row.text, worker[w].text}

\* A lease ends, or changes hands, once it ran out.
Expires == row'.token # row.token => row.token = 0 \/ row.until <= now

SameResult == /\ row'.text = row.text /\ row'.rejected = row.rejected
              /\ row'.eligible = row.eligible

LEMMA HolderIsLast ==
    ASSUME LeaseInv, NEW w \in Worker,
           worker[w].at \in {"store", "reject", "commit"},
           worker[w].token = row.token
    PROVE  worker[w].token = row.version
  BY DEF LeaseInv, Numbered, PastVad

LEMMA StepTouches ==
    ASSUME LeaseInv, NEW w \in Worker, Step(w)
    PROVE  \/ Touches(w)
           \/ SameResult /\ Expires
           \/ /\ SameResult /\ worker'[w] # worker[w]
              /\ worker[w].token = row.token
  <1> USE DEF LeaseInv
  <1>1. worker[w] \in Process /\ row \in Row
    BY DEF LeaseTyped
  <1>2. \A token : /\ Released(row, token).text = row.text
                   /\ Released(row, token).rejected = row.rejected
                   /\ Released(row, token).eligible = row.eligible
                   /\ Released(row, token).token # row.token => token = row.token
    BY <1>1, ReleasedForm
  <1>3. \A x : [row EXCEPT !.until = x].text = row.text
                /\ [row EXCEPT !.until = x].rejected = row.rejected
                /\ [row EXCEPT !.until = x].eligible = row.eligible
                /\ [row EXCEPT !.until = x].token = row.token
    BY <1>1 DEF Row
  <1>4. ASSUME NEW q, worker' = [worker EXCEPT ![w] = q], q.at # worker[w].at
        PROVE  worker'[w] # worker[w]
    BY <1>4 DEF LeaseTyped
  <1>5. \A at \in At : [worker[w] EXCEPT !.at = at].at = at
    BY <1>1 DEF Process
  <1>6. NextTry(worker[w]).at \in {"begin", "idle"} /\ Idle.at = "idle"
    BY <1>1, ProcessForms DEF Idle
  <1>7. CASE Scan(w) \/ Segment(w) \/ LoadCheckpoint(w) \/ Transcribe(w)
             \/ Breaks(w) \/ Crash(w) \/ Unlink(w)
    BY <1>7 DEF Scan, Segment, LoadCheckpoint, Transcribe, Breaks, Crash, Unlink,
         SameResult, Expires
  <1>8. CASE Renew(w) \/ Heartbeat(w)
    BY <1>3, <1>8 DEF Renew, Heartbeat, SameResult, Expires
  <1>9. CASE Begin(w)
    <2>1. \A t : /\ Acquired(t).text = row.text
                 /\ Acquired(t).rejected = row.rejected
                 /\ Acquired(t).eligible = row.eligible
      BY <1>1 DEF Acquired, Row
    <2>2. \A t \in Begun(w) : t <= now /\ t \in Nat
      BY <1>1, Constants DEF Begun, Process, Time
    <2>3. row.until \in Nat /\ now \in Nat
      BY Constants DEF LeaseTyped, Row, Time
    <2>4. \A t \in Begun(w) : ~ LeaseActive(t) => row.token = 0 \/ row.until <= now
      BY <2>2, <2>3 DEF LeaseActive
    <2>5. QED
      BY <1>9, <2>1, <2>4 DEF Begin, SameResult, Expires
  <1>10. CASE Release(w)
    <2>1. worker[w].at \in {"release", "failed"}
      BY <1>10 DEF Release
    <2>2. worker'[w] # worker[w]
      BY <1>4, <1>6, <1>10, <2>1 DEF Release, Becomes
    <2>3. row' \in {row, Released(row, worker[w].token)}
      BY <1>10 DEF Release
    <2>4. QED
      BY <1>2, <2>2, <2>3 DEF SameResult, Expires
  <1>11. CASE Store(w) \/ Reject(w) \/ Commit(w) \/ CommitRaises(w)
    <2>1. worker[w].at \in {"store", "reject", "commit"}
      BY <1>11 DEF Store, Reject, Commit, CommitRaises
    <2>2. worker'[w] # worker[w]
      <3>1. \E q : /\ worker' = [worker EXCEPT ![w] = q]
                   /\ q.at \in {"failed", "release", "begin", "idle", "commit", "unlink"}
                   /\ q.at # worker[w].at
        BY <1>5, <1>6, <1>11 DEF Store, Reject, Commit, CommitRaises, Goes, Becomes, At
      <3>2. QED
        BY <1>4, <3>1
    <2>3. \/ row' \in {row, Released(row, worker[w].token)}
          \/ /\ row' \in {WithResult(w), Rejected(w)}
             /\ worker[w].token = row.token
      BY <1>11 DEF Store, Reject, Commit, CommitRaises, Holds, Parked
    <2>4. CASE row' \in {row, Released(row, worker[w].token)}
      BY <1>2, <2>2, <2>4 DEF SameResult, Expires
    <2>5. CASE /\ row' \in {WithResult(w), Rejected(w)}
               /\ worker[w].token = row.token
      <3>1. WithResult(w).text = worker[w].text /\ Rejected(w).text = worker[w].text
        BY ResultForms
      <3>2. QED
        BY <2>1, <2>2, <2>5, <3>1, HolderIsLast DEF Touches
    <2>6. QED
      BY <2>3, <2>4, <2>5
  <1>12. QED
    BY <1>7, <1>8, <1>9, <1>10, <1>11 DEF Step

LEMMA OthersTouch ==
    ASSUME LeaseInv, Claim \/ GiveUp \/ Keep \/ Tick \/ UNCHANGED vars
    PROVE  SameResult /\ row'.token = row.token
  <1>1. \A stage : /\ [row EXCEPT !.stage = stage].text = row.text
                   /\ [row EXCEPT !.stage = stage].rejected = row.rejected
                   /\ [row EXCEPT !.stage = stage].eligible = row.eligible
                   /\ [row EXCEPT !.stage = stage].token = row.token
    BY DEF LeaseInv, LeaseTyped, Row
  <1>2. QED
    BY <1>1 DEF Claim, GiveUp, Keep, Tick, vars, SameResult

LEMMA Excludes ==
    ASSUME LeaseInv, [Next]_vars
    PROVE  StoredByTheLast /\ EndedByTheHolder
  <1>1. row.until \in Nat /\ now \in Nat
    BY Constants DEF LeaseInv, LeaseTyped, Row, Time
  <1>2. CASE \E w \in Worker : Step(w)
    <2>1. PICK w \in Worker : Step(w)
      BY <1>2
    <2>2. QED
      BY <1>1, <2>1, StepTouches
         DEF Touches, SameResult, Expires, StoredByTheLast, EndedByTheHolder
  <1>3. CASE Claim \/ GiveUp \/ Keep \/ Tick \/ UNCHANGED vars
    BY <1>3, OthersTouch DEF SameResult, StoredByTheLast, EndedByTheHolder
  <1>4. QED
    BY <1>2, <1>3 DEF Next

\* The lease excludes: only the process that was given the task last stores a
\* result, and nobody else ends a lease that has not run out.
THEOREM LeaseExcludesHolds == Spec => LeaseExcludes
  <1>1. LeaseInv /\ [Next]_vars => [StoredByTheLast /\ EndedByTheHolder]_vars
    BY Excludes
  <1>2. QED
    BY <1>1, LeaseInvHolds, PTL DEF Spec, LeaseExcludes

\* A checkpoint grows unless its writer could not read the one before.
THEOREM CheckpointGrowsHolds == Spec => CheckpointGrows
  <1>1. ASSUME LeaseInv, [Next]_vars
        PROVE  \/ row.text \subseteq row'.text
               \/ \E w \in Worker : worker[w].blind /\ worker'[w] # worker[w]
    <2>1. CASE \E w \in Worker : Step(w)
      <3>1. PICK w \in Worker : Step(w)
        BY <2>1
      <3>2. CASE Touches(w) /\ ~ worker[w].blind
        BY <1>1, <3>2 DEF Touches, LeaseInv, Continues
      <3>3. CASE Touches(w) /\ worker[w].blind
        BY <3>3 DEF Touches
      <3>4. CASE SameResult
        BY <3>4 DEF SameResult
      <3>5. QED
        BY <1>1, <3>1, <3>2, <3>3, <3>4, StepTouches
    <2>2. CASE Claim \/ GiveUp \/ Keep \/ Tick \/ UNCHANGED vars
      BY <1>1, <2>2, OthersTouch DEF SameResult
    <2>3. QED
      BY <1>1, <2>1, <2>2 DEF Next
  <1>2. LeaseInv /\ [Next]_vars =>
          [row.text \subseteq row'.text
            \/ \E w \in Worker : worker[w].blind /\ worker'[w] # worker[w]]_vars
    BY <1>1
  <1>3. QED
    BY <1>2, LeaseInvHolds, PTL DEF Spec, CheckpointGrows
=============================================================================
