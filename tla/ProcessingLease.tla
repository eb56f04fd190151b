---------------------------- MODULE ProcessingLease ----------------------------
(***************************************************************************)
(* Preprocessing one audio file: runs of preprocess.py on several machines,*)
(* the lease on the task row that keeps them apart, the heartbeat that     *)
(* prolongs it, and the two places a rejection touches: the row and the    *)
(* file, which is parked inside the transaction and deleted after it.      *)
(*                                                                         *)
(* PostgreSQL's now() is the time a transaction began, so a transaction    *)
(* that waited for the row acts on a time that is past.                    *)
(***************************************************************************)
EXTENDS Naturals

CONSTANTS
    Worker,       \* processes that run preprocess.py
    Seg,          \* the segments voice detection finds; none: no speech
    Ttl,          \* DEFAULT_LEASE_SECONDS
    Attempts,     \* tries of one run: full speed, recovery, deferred rounds
    Forced, RetryRejected, DeleteRejected,    \* the options of the command
    MaxTime,      \* bound: the clock
    MaxLeases,    \* bound: leases issued
    MaxFailures,  \* bound: transactions or deletions that fail
    MaxCrashes    \* bound: processes that die

ASSUME LeaseAssumption ==
    /\ {Ttl, Attempts} \subseteq Nat \ {0}
    /\ {Forced, RetryRejected, DeleteRejected} \subseteq BOOLEAN
    /\ {MaxTime, MaxLeases, MaxFailures, MaxCrashes} \subseteq Nat

VARIABLES
    now,      \* the database's clock
    row,      \* annotation_tasks with its draft's segments
    audio,    \* the source file: "there", "parked" or "gone"
    worker,   \* what each process holds in memory
    faults    \* the bounds' counters: failures, crashes

vars == <<now, row, audio, worker, faults>>

Time == 0 .. MaxTime
Token == 0 .. MaxLeases     \* 0: no token; processing_version numbers them
Stage == {"free", "claimed", "kept"}
At == {"idle", "begin", "segment", "load", "renew", "asr", "store", "reject",
       "commit", "unlink", "release", "failed"}

Row == [token : Token, until : 0 .. MaxTime + Ttl, version : Token,
        eligible : BOOLEAN, rejected : BOOLEAN, text : SUBSET Seg, stage : Stage]

\* since: no transaction of this attempt began earlier; blind: the draft's
\* segments could not be read when the checkpoint was looked up.
Process == [at : At, token : Token, since : Time, text : SUBSET Seg,
            blind : BOOLEAN, beat : BOOLEAN, tries : 0 .. Attempts]

Idle == [at |-> "idle", token |-> 0, since |-> 0, text |-> {},
         blind |-> FALSE, beat |-> FALSE, tries |-> 0]

-----------------------------------------------------------------------------
(* The lease                                                               *)

AlmostActive(t) == row.token # 0 /\ row.until > t + 1

\* _lease_active, in a transaction that began at time t.
LeaseActive(t) == row.token # 0 /\ row.until > t

HoldsUntilTaken(token, t) == token # 0 /\ row.until > t

\* The test of renew_processing_lease, require_processing_token and
\* complete_processing.
Holds(token, t) == token # 0 /\ row.token = token /\ row.until > t

\* complete_processing
Released(r, token) == IF r.token = token THEN [r EXCEPT !.token = 0, !.until = 0] ELSE r

\* task_is_protected
Protected == row.stage # "free"

\* Somebody is inside the transaction that parks the file.
Locked == \E w \in Worker : worker[w].at = "commit"

Begun(w) == worker[w].since .. now

Becomes(w, process) == worker' = [worker EXCEPT ![w] = process]
Goes(w, at) == Becomes(w, [worker[w] EXCEPT !.at = at])

Fail == faults.failures < MaxFailures /\ faults' = [faults EXCEPT !.failures = @ + 1]

\* run_one: once more at recovery speed, then in the deferred rounds.
NextTry(p) ==
    IF p.tries < Attempts
    THEN [Idle EXCEPT !.at = "begin", !.since = now, !.tries = p.tries + 1]
    ELSE Idle

-----------------------------------------------------------------------------
(* One run                                                                 *)

\* collect_pending_audio
Pending ==
    /\ audio = "there" /\ ~ Protected
    /\ row.rejected => RetryRejected
    /\ row.eligible => Forced

\* ingestion_states reads the row before any file is processed.
Scan(w) ==
    /\ worker[w].at = "idle"
    /\ Pending
    /\ Becomes(w, [Idle EXCEPT !.at = "begin", !.since = now, !.tries = 1])
    /\ UNCHANGED <<now, row, audio, faults>>

\* acquire_processing_lease, in a transaction that began at time t.
Acquired(t) ==
    [row EXCEPT !.token = row.version + 1, !.until = t + Ttl, !.version = @ + 1]

\* begin_audio_processing.  A busy file counts as
\* done in this run.
Begin(w) ==
    /\ worker[w].at = "begin" /\ ~ Locked
    /\ UNCHANGED <<now, audio, faults>>
    /\ \E t \in Begun(w) :
        \/ /\ Protected \/ LeaseActive(t)
           /\ Becomes(w, Idle)
           /\ row' = row
        \/ /\ ~ Protected /\ ~ LeaseActive(t)
           /\ row.version < MaxLeases
           /\ row' = Acquired(t)
           /\ Becomes(w, [worker[w] EXCEPT !.at = "segment", !.token = row.version + 1,
                                           !.since = now, !.beat = TRUE])

\* The file is read and segmented, with no transaction open.
Segment(w) ==
    /\ worker[w].at = "segment"
    /\ \/ Protected /\ Goes(w, "release")
       \/ ~ Protected /\ audio # "there" /\ Goes(w, "failed")
       \/ ~ Protected /\ audio = "there"
          /\ Goes(w, IF Seg = {} THEN "reject" ELSE "load")
    /\ UNCHANGED <<now, row, audio, faults>>

\* load_draft_segments: the checkpoint, unless somebody has the task.
LoadCheckpoint(w) ==
    /\ worker[w].at = "load"
    /\ Becomes(w, [worker[w] EXCEPT !.at = "renew", !.blind = Protected,
                                    !.text = IF Protected THEN {} ELSE row.text])
    /\ UNCHANGED <<now, row, audio, faults>>

Renew(w) ==
    /\ worker[w].at = "renew" /\ ~ Locked
    /\ \E t \in Begun(w) :
        \/ /\ Holds(worker[w].token, t)
           /\ row' = [row EXCEPT !.until = t + Ttl]
           /\ Goes(w, "asr")
        \/ /\ ~ Holds(worker[w].token, t)
           /\ row' = row
           /\ Goes(w, "failed")
    /\ UNCHANGED <<now, audio, faults>>

\* call_asr_one: text, a limit that was hit, an account overdue, a refusal of
\* the content.
Reply == {"text", "quota", "overdue", "refused"}

\* The missing segments are sent out until a reply that is no text comes back.
\* A refusal rejects the file; an overdue account ends the run once the
\* checkpoint is stored.
Transcribe(w) ==
    /\ worker[w].at = "asr"
    /\ LET missing == Seg \ worker[w].text IN
       \E sent \in SUBSET missing : \E reply \in [sent -> Reply] :
        LET Some(kind) == \E s \in sent : reply[s] = kind IN
        /\ sent = missing \/ \E s \in sent : reply[s] # "text"
        /\ Becomes(w, [worker[w] EXCEPT !.at = IF Some("refused") THEN "reject" ELSE "store",
                                        !.text = @ \cup {s \in sent : reply[s] = "text"},
                                        !.tries = IF Some("overdue") THEN Attempts ELSE @])
    /\ UNCHANGED <<now, row, audio, faults>>

\* processing_heartbeat: a thread of its own, ended by its first failure.
Heartbeat(w) ==
    /\ worker[w].beat /\ ~ Locked
    /\ worker[w].at \in {"segment", "load", "renew", "asr", "store", "reject"}
    /\ \E t \in Begun(w) :
        \/ /\ Holds(worker[w].token, t)
           /\ row' = [row EXCEPT !.until = t + Ttl]
           /\ worker' = worker
        \/ /\ ~ Holds(worker[w].token, t)
           /\ row' = row
           /\ Becomes(w, [worker[w] EXCEPT !.beat = FALSE])
    /\ UNCHANGED <<now, audio, faults>>

\* What a store writes into an unprotected task: incomplete text keeps it out
\* of the pool as a checkpoint.
WithResult(w) ==
    Released([row EXCEPT !.text = worker[w].text, !.rejected = FALSE,
                         !.eligible = worker[w].text = Seg], worker[w].token)

RejectedInPool(w) ==
    Released([row EXCEPT !.text = worker[w].text, !.rejected = TRUE], worker[w].token)

Rejected(w) ==
    Released([row EXCEPT !.text = worker[w].text, !.rejected = TRUE,
                         !.eligible = FALSE], worker[w].token)

\* store_preprocessed_task: one transaction.
Store(w) ==
    /\ worker[w].at = "store" /\ ~ Locked
    /\ UNCHANGED <<now, audio, faults>>
    /\ \E t \in Begun(w) :
        \/ /\ ~ Holds(worker[w].token, t)
           /\ row' = row
           /\ Goes(w, "failed")
        \/ /\ Holds(worker[w].token, t) /\ Protected
           /\ row' = Released(row, worker[w].token)
           /\ Goes(w, "release")
        \/ /\ Holds(worker[w].token, t) /\ ~ Protected
           /\ row' = WithResult(w)
           /\ IF worker[w].text = Seg THEN Goes(w, "release")
              ELSE Becomes(w, NextTry(worker[w]))

\* Whether the rejection is handed the file to delete, and finds it.
Deletes == DeleteRejected /\ audio = "there"

\* finalize_rejected_task: store_preprocessed_task up to before_complete, which
\* parks the file while the row is locked.
Reject(w) ==
    /\ worker[w].at = "reject" /\ ~ Locked
    /\ UNCHANGED <<now, faults>>
    /\ \E t \in Begun(w) :
        \/ /\ ~ Holds(worker[w].token, t)
           /\ Goes(w, "failed")
           /\ UNCHANGED <<row, audio>>
        \/ /\ Holds(worker[w].token, t) /\ Protected
           /\ row' = Released(row, worker[w].token)
           /\ Goes(w, "release")
           /\ audio' = audio
        \/ /\ Holds(worker[w].token, t) /\ ~ Protected
           /\ ~ Deletes
           /\ row' = Rejected(w)
           /\ Goes(w, "release")
           /\ audio' = audio
        \/ /\ Holds(worker[w].token, t) /\ ~ Protected
           /\ Deletes
           /\ audio' = "parked"
           /\ Goes(w, "commit")
           /\ row' = row

Commit(w) ==
    /\ worker[w].at = "commit"
    /\ row' = Rejected(w)
    /\ Goes(w, "unlink")
    /\ UNCHANGED <<now, audio, faults>>

\* The file goes back when the transaction raised, landed or not.
CommitRaises(w) ==
    /\ worker[w].at = "commit"
    /\ Fail
    /\ row' \in {row, Rejected(w)}
    /\ audio' = "there"
    /\ Goes(w, "failed")
    /\ now' = now

Unlink(w) ==
    /\ worker[w].at = "unlink"
    /\ \/ audio' = "gone" /\ faults' = faults
       \/ audio' = audio /\ Fail
    /\ Goes(w, "release")
    /\ UNCHANGED <<now, row>>

\* The finally clause: a lease still held is given back, whatever happened; an
\* error there is swallowed.
Release(w) ==
    /\ worker[w].at \in {"release", "failed"} /\ ~ Locked
    /\ \/ /\ faults' = faults
          /\ \E t \in Begun(w) :
                row' = IF Holds(worker[w].token, t)
                       THEN Released(row, worker[w].token) ELSE row
       \/ row' = row /\ Fail
    /\ Becomes(w, IF worker[w].at = "failed" THEN NextTry(worker[w]) ELSE Idle)
    /\ UNCHANGED <<now, audio>>

\* A transaction of the attempt fails and is rolled back.
Breaks(w) ==
    /\ worker[w].at \in {"load", "renew", "store", "reject"}
    /\ Fail
    /\ Goes(w, "failed")
    /\ UNCHANGED <<now, row, audio>>

\* The process dies; an open transaction is rolled back.
Crash(w) ==
    /\ worker[w].at # "idle"
    /\ faults.crashes < MaxCrashes
    /\ faults' = [faults EXCEPT !.crashes = @ + 1]
    /\ Becomes(w, Idle)
    /\ UNCHANGED <<now, row, audio>>

-----------------------------------------------------------------------------
(* The annotators, and time                                                *)

\* Claimed, given up untouched, or worked on for good.
Claim ==
    /\ row.eligible /\ row.stage = "free" /\ ~ Locked
    /\ row' = [row EXCEPT !.stage = "claimed"]
    /\ UNCHANGED <<now, audio, worker, faults>>

GiveUp ==
    /\ row.stage = "claimed"
    /\ row' = [row EXCEPT !.stage = "free"]
    /\ UNCHANGED <<now, audio, worker, faults>>

Keep ==
    /\ row.stage = "claimed"
    /\ row' = [row EXCEPT !.stage = "kept"]
    /\ UNCHANGED <<now, audio, worker, faults>>

Tick ==
    /\ now < MaxTime
    /\ now' = now + 1
    /\ UNCHANGED <<row, audio, worker, faults>>

-----------------------------------------------------------------------------
\* The placeholder that a manifest import or the first begin makes.
Init ==
    /\ now = 0
    /\ row = [token |-> 0, until |-> 0, version |-> 0, eligible |-> FALSE,
              rejected |-> FALSE, text |-> {}, stage |-> "free"]
    /\ audio = "there"
    /\ worker = [w \in Worker |-> Idle]
    /\ faults = [failures |-> 0, crashes |-> 0]

Step(w) ==
    \/ Scan(w) \/ Begin(w) \/ Segment(w) \/ LoadCheckpoint(w) \/ Renew(w)
    \/ Transcribe(w) \/ Heartbeat(w) \/ Store(w) \/ Reject(w) \/ Commit(w)
    \/ CommitRaises(w) \/ Unlink(w) \/ Release(w) \/ Breaks(w) \/ Crash(w)

Next == (\E w \in Worker : Step(w)) \/ Claim \/ GiveUp \/ Keep \/ Tick

Spec == Init /\ [][Next]_vars
=============================================================================
