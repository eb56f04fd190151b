------------------------------- MODULE DraftSync -------------------------------
(***************************************************************************)
(* How an annotator's edits reach the server: the workspace page with its  *)
(* autosave, the working draft and the outbox it keeps in IndexedDB, a     *)
(* network that loses requests and answers, and the server's assignment,   *)
(* revision and operations table.                                          *)
(*                                                                         *)
(* One annotator, one task, one workspace page in one browser.  The page's *)
(* coroutines (autosave, submission, replay of the outbox) are modelled    *)
(* from one await to the next.  Closing the page, or a crash of it, loses  *)
(* everything but the IndexedDB; requests it has sent stay on their way.   *)
(***************************************************************************)
EXTENDS Naturals, Sequences, FiniteSets, SequencesExt

CONSTANTS
    Seg,         \* segments of the task; the scene review counts as one
    Submits,     \* whether the user hands the task in
    MaxEdits,    \* bound: edits made, on this page or elsewhere
    MaxOps,      \* bound: operation ids drawn
    MaxFaults,   \* bound: requests or answers that get lost, or server errors
    MaxOpens,    \* bound: how often the page is opened
    MaxOnline,   \* bound: "online" events of the browser
    MaxLeases    \* bound: leases of the task

ASSUME BoundsAssumption ==
    /\ Submits \in BOOLEAN
    /\ {MaxEdits, MaxOps, MaxFaults, MaxOpens, MaxOnline, MaxLeases} \subseteq Nat

VARIABLES
    page,      \* what the page holds in memory
    replay,    \* the page's walk through the outbox, when there is one
    draft,     \* IndexedDB: working_drafts of the task
    outbox,    \* IndexedDB: outbox, by created_at
    sent,      \* requests on their way to the server, by whom they were sent
    answers,   \* answers on their way to the page
    server,    \* assignments, annotation_versions and segments of the task
    applied,   \* table operations: the requests answered with success
    used       \* the bounds' counters: edits, ops, faults, opens, online

vars == <<page, replay, draft, outbox, sent, answers, server, applied, used>>

Edit == 0 .. MaxEdits
Op == 1 .. MaxOps
Lease == 1 .. MaxLeases
Rev == 0 .. MaxOps + MaxEdits
Sender == {"save", "submit", "replay", "nobody"}
Result == {"ok", "revision", "unassigned", "lease", "lost", "error"}

NoRequest == [op |-> 0, kind |-> "save", lease |-> 0, rev |-> 0,
              dirty |-> {}, text |-> [s \in Seg |-> 0]]
NoDraft == [lease |-> 0, rev |-> 0, dirty |-> {},
            text |-> [s \in Seg |-> 0], status |-> "clean"]
ClosedPage == [mode |-> "closed", lease |-> 0, rev |-> 0, dirty |-> {},
               text |-> [s \in Seg |-> 0], pending |-> NoRequest, save |-> "no",
               batch |-> NoRequest, due |-> FALSE, queued |-> FALSE, blocked |-> FALSE,
               conflict |-> FALSE, complete |-> NoRequest, submit |-> "no"]
NoReplay == [stage |-> "no", left |-> <<>>, terminal |-> FALSE, failed |-> FALSE]

Request == [op : Op \cup {0}, kind : {"save", "complete"}, lease : Lease \cup {0},
            rev : Rev, dirty : SUBSET Seg, text : [Seg -> Edit]]

-----------------------------------------------------------------------------
(* The page's memory                                                       *)

Working == page.mode = "work"
Terminal(r) == r.kind = "complete"

\* A 403 about the lease, like a failed network, is not the 409 that blocks.
Conflicting(result) == result \in {"revision", "unassigned"}

\* nextSaveNeeded
SaveNeeded ==
    /\ Working /\ ~ page.blocked
    /\ page.pending # NoRequest \/ page.dirty # {}

\* pendingDirtySegmentIds: what is in no confirmed save.
Unconfirmed == page.dirty \cup page.pending.dirty

\* persistWorkspaceDraft
Persisted ==
    [lease |-> page.lease, rev |-> page.rev, text |-> page.text,
     dirty |-> Unconfirmed,
     status |-> IF Unconfirmed # {} \/ page.complete # NoRequest
                THEN "dirty" ELSE "clean"]

\* capturePendingSave
Captured ==
    [op |-> used.ops + 1, kind |-> "save", lease |-> page.lease,
     rev |-> page.rev, dirty |-> page.dirty, text |-> page.text]

\* submitTask: the whole task, whatever is dirty.
Completion ==
    [op |-> used.ops + 1, kind |-> "complete", lease |-> page.lease,
     rev |-> page.rev, dirty |-> Seg, text |-> page.text]

-----------------------------------------------------------------------------
(* IndexedDB                                                               *)

InOutbox(op) == \E i \in 1 .. Len(outbox) : outbox[i].op = op

\* putOutbox: an operation id is bound to its request once.
PutOutbox(r) == outbox' = IF InOutbox(r.op) THEN outbox ELSE Append(outbox, r)

ClearedAnyway(r) == draft.dirty \ r.dirty

\* A sent segment that has not been edited since is no longer dirty.
Cleared(r) == draft.dirty \ {s \in r.dirty : draft.text[s] = r.text[s]}

\* The revision save_draft answers, and would answer again.
NewRevision(r) == r.rev + 1

\* The outbox without the request of this operation id, its key.
Without(op) == RemoveAt(outbox, CHOOSE i \in 1 .. Len(outbox) : outbox[i].op = op)

\* confirmOutbox, in one transaction over both stores.
Confirm(r) ==
    IF ~ InOutbox(r.op) THEN UNCHANGED <<draft, outbox>>
    ELSE /\ outbox' = Without(r.op)
         /\ draft' =
              IF draft = NoDraft \/ Terminal(r) THEN NoDraft
              ELSE [draft EXCEPT !.rev = NewRevision(r), !.dirty = Cleared(r),
                                 !.status = IF Cleared(r) = {} THEN "clean" ELSE "dirty"]

-----------------------------------------------------------------------------
(* Server                                                                  *)

Merged(r) == [s \in Seg |-> IF s \in r.dirty THEN r.text[s] ELSE server.text[s]]

RevisionIgnored(r) == r.lease = server.lease
RevisionMatches(r) == r.lease = server.lease /\ r.rev = server.rev

NeverReplayed(r) == FALSE

\* _operation_replay: the id was used, for this very request.
Replayed(r) == r \in applied

Accepted(r) == server.stage = "held" /\ RevisionMatches(r)

Refusal(r) ==
    CASE server.stage # "held" -> "unassigned"
      [] server.stage = "held" /\ r.lease # server.lease -> "lease"
      [] OTHER -> "revision"

Answer(m, result) ==
    answers' = IF m.by = "nobody" THEN answers
               ELSE answers \cup {[req |-> m.req, by |-> m.by, result |-> result]}

Apply(r) ==
    /\ server' = [server EXCEPT !.text = Merged(r), !.rev = NewRevision(r),
                                !.stage = IF Terminal(r) THEN "done" ELSE @]
    /\ applied' = applied \cup {r}

\* save_draft, complete: one transaction.
Serve(m) ==
    /\ sent' = sent \ {m}
    /\ UNCHANGED <<page, replay, draft, outbox, used>>
    /\ \/ /\ Replayed(m.req)
          /\ Answer(m, "ok")
          /\ UNCHANGED <<server, applied>>
       \/ /\ ~ Replayed(m.req) /\ Accepted(m.req)
          /\ Answer(m, "ok")
          /\ Apply(m.req)
       \/ /\ ~ Replayed(m.req) /\ ~ Accepted(m.req)
          /\ Answer(m, Refusal(m.req))
          /\ UNCHANGED <<server, applied>>

-----------------------------------------------------------------------------
(* Faults                                                                  *)

Fault == used.faults < MaxFaults /\ used' = [used EXCEPT !.faults = @ + 1]

\* The connection breaks: fetch rejects, but the request may yet arrive.
BreakOff(m) ==
    /\ Fault
    /\ m.by # "nobody"
    /\ sent' = (sent \ {m}) \cup {[m EXCEPT !.by = "nobody"]}
    /\ Answer(m, "lost")
    /\ UNCHANGED <<page, replay, draft, outbox, server, applied>>

\* A request that nobody waits for need not arrive at all.
Vanish(m) ==
    /\ m.by = "nobody"
    /\ sent' = sent \ {m}
    /\ UNCHANGED <<page, replay, draft, outbox, answers, server, applied, used>>

LoseAnswer(a) ==
    /\ Fault
    /\ a.result # "lost"
    /\ answers' = (answers \ {a}) \cup {[a EXCEPT !.result = "lost"]}
    /\ UNCHANGED <<page, replay, draft, outbox, sent, server, applied>>

\* A 5xx: the database or the worker is away, the transaction rolled back.
ServerError(m) ==
    /\ Fault
    /\ sent' = sent \ {m}
    /\ Answer(m, "error")
    /\ UNCHANGED <<page, replay, draft, outbox, server, applied>>

-----------------------------------------------------------------------------
(* Autosave                                                                *)

Send(r, by) == sent' = sent \cup {[req |-> r, by |-> by]}

\* markDirty: also forgets a submission that failed.
EditSegment(s) ==
    /\ Working /\ ~ page.blocked /\ page.submit = "no"
    /\ used.edits < MaxEdits
    /\ page' = [page EXCEPT !.text[s] = used.edits + 1, !.dirty = @ \cup {s},
                            !.complete = NoRequest, !.due = TRUE]
    /\ used' = [used EXCEPT !.edits = @ + 1]
    /\ UNCHANGED <<replay, draft, outbox, sent, answers, server, applied>>

\* The draft timer.
KeepDraft ==
    /\ Working /\ ~ page.conflict
    /\ draft' = Persisted
    /\ UNCHANGED <<page, replay, outbox, sent, answers, server, applied, used>>

\* flushDirty, when no save is under way.
StartSave ==
    /\ page.save = "no" /\ SaveNeeded
    /\ UNCHANGED <<replay, draft, outbox, sent, answers, server, applied>>
    /\ \/ /\ page.pending # NoRequest
          /\ page' = [page EXCEPT !.save = "store", !.due = FALSE]
          /\ used' = used
       \/ /\ page.pending = NoRequest
          /\ used.ops < MaxOps
          /\ page' = [page EXCEPT !.save = "store", !.due = FALSE,
                                  !.pending = Captured, !.dirty = {}]
          /\ used' = [used EXCEPT !.ops = @ + 1]

\* The save timer.
SaveTimer ==
    /\ Working /\ page.due
    /\ \/ StartSave
       \/ /\ page.save # "no" \/ ~ SaveNeeded
          /\ page' = [page EXCEPT !.due = FALSE,
                                  !.queued = @ \/ (page.save # "no" /\ ~ page.blocked)]
          /\ UNCHANGED <<replay, draft, outbox, sent, answers, server, applied, used>>

StoreSave ==
    /\ page.save = "store"
    /\ draft' = Persisted
    /\ page' = [page EXCEPT !.save = "post"]
    /\ UNCHANGED <<replay, outbox, sent, answers, server, applied, used>>

\* Only what the outbox holds is sent.
PostSave ==
    /\ page.save = "post"
    /\ PutOutbox(page.pending)
    /\ Send(page.pending, "save")
    /\ page' = [page EXCEPT !.save = "wait"]
    /\ UNCHANGED <<replay, draft, answers, server, applied, used>>

\* showLocalConflict
Blocked == [page EXCEPT !.blocked = TRUE, !.conflict = TRUE, !.due = FALSE,
                        !.save = "no", !.queued = FALSE, !.submit = "no"]

\* A failed save is tried again; one that a submission waits for ends that.
SaveFailed(result) ==
    IF page.submit = "drain" /\ result = "lease" THEN Blocked
    ELSE [page EXCEPT !.due = TRUE, !.save = "no", !.queued = FALSE, !.submit = "no",
                      !.blocked = @ \/ (page.submit = "drain" /\ result = "lost")]

\* What was captured is saved; what was edited since is not.
Saved(r) ==
    [page EXCEPT !.rev = NewRevision(r), !.save = "confirm",
                 !.pending = NoRequest, !.batch = r]

SaveAnswered(a) ==
    /\ a.by = "save" /\ page.save = "wait"
    /\ answers' = answers \ {a}
    /\ UNCHANGED <<replay, outbox, sent, server, applied, used>>
    /\ \/ /\ a.result = "ok"
          /\ page' = Saved(a.req)
          /\ draft' = draft
       \/ /\ Conflicting(a.result)
          /\ page' = Blocked
          /\ draft' = Persisted
       \/ /\ a.result \in {"lost", "error", "lease"}
          /\ page' = SaveFailed(a.result)
          /\ draft' = IF page.submit = "drain" THEN Persisted ELSE draft

ConfirmSave ==
    /\ page.save = "confirm"
    /\ Confirm(page.batch)
    /\ page' = [page EXCEPT !.save = "settle", !.batch = NoRequest]
    /\ UNCHANGED <<replay, sent, answers, server, applied, used>>

SettledOnce == [page EXCEPT !.save = "no", !.queued = FALSE]

\* What became dirty, or was asked for, during the save goes next.
Settled == [page EXCEPT !.save = "no", !.queued = FALSE,
                        !.due = @ \/ (~ page.blocked /\ (page.queued \/ SaveNeeded))]

SettleSave ==
    /\ page.save = "settle"
    /\ draft' = Persisted
    /\ page' = Settled
    /\ UNCHANGED <<replay, outbox, sent, answers, server, applied, used>>

-----------------------------------------------------------------------------
(* Handing in                                                              *)

Submit ==
    /\ Submits
    /\ Working /\ ~ page.blocked /\ page.submit = "no"
    /\ page' = [page EXCEPT !.submit = "drain", !.due = FALSE]
    /\ UNCHANGED <<replay, draft, outbox, sent, answers, server, applied, used>>

\* drainSaves
Drain == page.submit = "drain" /\ StartSave

BuildCompletion ==
    /\ page.submit = "drain" /\ page.save = "no" /\ ~ SaveNeeded
    /\ UNCHANGED <<replay, draft, outbox, sent, answers, server, applied>>
    /\ \/ /\ page.blocked
          /\ page' = [page EXCEPT !.submit = "no"]
          /\ used' = used
       \/ /\ ~ page.blocked /\ page.complete # NoRequest
          /\ page' = [page EXCEPT !.submit = "store"]
          /\ used' = used
       \/ /\ ~ page.blocked /\ page.complete = NoRequest
          /\ used.ops < MaxOps
          /\ page' = [page EXCEPT !.submit = "store", !.complete = Completion]
          /\ used' = [used EXCEPT !.ops = @ + 1]

StoreCompletion ==
    /\ page.submit = "store"
    /\ draft' = Persisted
    /\ page' = [page EXCEPT !.submit = "post"]
    /\ UNCHANGED <<replay, outbox, sent, answers, server, applied, used>>

PostCompletion ==
    /\ page.submit = "post"
    /\ PutOutbox(page.complete)
    /\ Send(page.complete, "submit")
    /\ page' = [page EXCEPT !.submit = "wait"]
    /\ UNCHANGED <<replay, draft, answers, server, applied, used>>

\* A lost request is sent once more, then the page waits for the connection.
CompletionAnswered(a) ==
    /\ a.by = "submit" /\ page.submit \in {"wait", "again"}
    /\ answers' = answers \ {a}
    /\ UNCHANGED <<replay, outbox, server, applied, used>>
    /\ \/ /\ a.result = "ok"
          /\ page' = [page EXCEPT !.submit = "confirm"]
          /\ UNCHANGED <<draft, sent>>
       \/ /\ a.result = "lost" /\ page.submit = "wait"
          /\ Send(page.complete, "submit")
          /\ page' = [page EXCEPT !.submit = "again"]
          /\ draft' = draft
       \/ /\ a.result = "lost" /\ page.submit = "again"
          /\ page' = [page EXCEPT !.submit = "no", !.blocked = TRUE]
          /\ draft' = Persisted /\ sent' = sent
       \/ /\ a.result = "error"
          /\ page' = [page EXCEPT !.submit = "no"]
          /\ draft' = Persisted /\ sent' = sent
       \/ /\ a.result \in {"revision", "lease"}
          /\ page' = Blocked
          /\ draft' = Persisted /\ sent' = sent
       \/ /\ a.result = "unassigned"
          /\ page' = [Blocked EXCEPT !.mode = "idle"]
          /\ draft' = Persisted /\ sent' = sent

ConfirmCompletion ==
    /\ page.submit = "confirm"
    /\ Confirm(page.complete)
    /\ page' = [ClosedPage EXCEPT !.mode = "idle"]
    /\ UNCHANGED <<replay, sent, answers, server, applied, used>>

-----------------------------------------------------------------------------
(* Opening the page, replaying the outbox                                  *)

Opening == [ClosedPage EXCEPT !.mode = "opening"]
Walk(items) == [NoReplay EXCEPT !.stage = "next", !.left = items]

\* Nobody waits any more for what the page had sent.
Forsaken == {[m EXCEPT !.by = "nobody"] : m \in sent}

Open ==
    /\ page.mode = "closed"
    /\ used.opens < MaxOpens
    /\ page' = Opening
    /\ replay' = Walk(outbox)
    /\ used' = [used EXCEPT !.opens = @ + 1]
    /\ UNCHANGED <<draft, outbox, sent, answers, server, applied>>

\* The tab is closed or the browser dies.
Close ==
    /\ page.mode # "closed"
    /\ page' = ClosedPage
    /\ replay' = NoReplay
    /\ sent' = Forsaken /\ answers' = {}
    /\ UNCHANGED <<draft, outbox, server, applied, used>>

\* recoverOutboxAfterOnline
Online ==
    /\ page.mode \in {"work", "idle"} /\ replay = NoReplay
    /\ used.online < MaxOnline
    /\ draft' = IF Working THEN Persisted ELSE draft
    /\ replay' = Walk(outbox)
    /\ used' = [used EXCEPT !.online = @ + 1]
    /\ UNCHANGED <<page, outbox, sent, answers, server, applied>>

ReplaySend ==
    /\ replay.stage = "next" /\ replay.left # <<>>
    /\ Send(Head(replay.left), "replay")
    /\ replay' = [replay EXCEPT !.stage = "wait"]
    /\ UNCHANGED <<page, draft, outbox, answers, server, applied, used>>

\* replayOutbox stops at the first item that fails.
ReplayAnswered(a) ==
    /\ a.by = "replay" /\ replay.stage = "wait"
    /\ answers' = answers \ {a}
    /\ UNCHANGED <<sent, server, applied, used>>
    /\ \/ /\ a.result = "ok"
          /\ Confirm(a.req)
          /\ replay' = [replay EXCEPT !.stage = "next", !.left = Tail(@),
                                      !.terminal = @ \/ Terminal(a.req)]
          /\ page' = IF Working /\ ~ Terminal(a.req)
                     THEN [page EXCEPT !.rev = NewRevision(a.req)] ELSE page
       \/ /\ a.result # "ok"
          /\ replay' = [replay EXCEPT !.stage = "next", !.left = <<>>, !.failed = TRUE]
          /\ UNCHANGED <<page, draft, outbox>>

Walked == replay.stage = "next" /\ replay.left = <<>>

\* Somewhere in the outbox a task had been handed in: start over.
Reload ==
    /\ Walked /\ replay.terminal
    /\ page.mode = "opening" \/ ~ replay.failed
    /\ page' = Opening
    /\ replay' = Walk(outbox)
    /\ sent' = Forsaken /\ answers' = {}
    /\ UNCHANGED <<draft, outbox, server, applied, used>>

\* loadTask
LoadedPage ==
    [ClosedPage EXCEPT !.mode = "work", !.lease = server.lease,
                       !.rev = server.rev, !.text = server.text]

\* restoreLocalDraft: only onto the very revision it was made from.
RestoredPage ==
    IF draft.status = "clean" THEN LoadedPage
    ELSE IF draft.lease = server.lease /\ draft.rev = server.rev
    THEN [LoadedPage EXCEPT !.text = draft.text, !.dirty = draft.dirty, !.due = TRUE]
    ELSE [LoadedPage EXCEPT !.blocked = TRUE, !.conflict = TRUE]

\* loadAssignment
Load ==
    /\ page.mode = "opening" /\ Walked /\ ~ replay.terminal
    /\ page' = IF server.stage = "held" THEN RestoredPage
               ELSE [ClosedPage EXCEPT !.mode = "idle"]
    /\ replay' = NoReplay
    /\ UNCHANGED <<draft, outbox, sent, answers, server, applied, used>>

\* Back online: an autosave may go at once.
Recovered ==
    /\ page.mode \in {"work", "idle"} /\ Walked
    /\ replay.failed \/ ~ replay.terminal
    /\ replay' = NoReplay
    /\ page' = [page EXCEPT !.due = @ \/ (SaveNeeded /\ ~ replay.failed)]
    /\ UNCHANGED <<draft, outbox, sent, answers, server, applied, used>>

\* discardLocalConflict
Discard ==
    /\ page.conflict
    /\ draft' = NoDraft /\ outbox' = <<>>
    /\ page' = Opening
    /\ replay' = Walk(<<>>)
    /\ sent' = Forsaken /\ answers' = {}
    /\ UNCHANGED <<server, applied, used>>

-----------------------------------------------------------------------------
(* The assignment, and the same annotator in other places                  *)

\* command_release, or abandon in another tab: the draft goes back to the pool.
Release ==
    /\ server.stage = "held"
    /\ server' = [server EXCEPT !.stage = "pooled"]
    /\ UNCHANGED <<page, replay, draft, outbox, sent, answers, applied, used>>

Reclaim ==
    /\ server.stage = "pooled" /\ server.lease < MaxLeases
    /\ server' = [server EXCEPT !.stage = "held", !.lease = @ + 1]

\* claimTask on this page: it loads the task, and no local draft.
ClaimHere ==
    /\ page.mode = "idle" /\ ~ page.conflict
    /\ Reclaim
    /\ page' = [LoadedPage EXCEPT !.lease = server.lease + 1]
    /\ UNCHANGED <<replay, draft, outbox, sent, answers, applied, used>>

\* In another tab, under the same session.
ClaimInOtherTab ==
    /\ page.mode # "closed"
    /\ Reclaim
    /\ UNCHANGED <<page, replay, draft, outbox, sent, answers, applied, used>>

\* In another browser, whose login ended this one's session: the fence turns
\* away whatever this browser still had on its way.
EditElsewhere(s) ==
    /\ page.mode = "closed"
    /\ server.stage = "held"
    /\ used.edits < MaxEdits
    /\ server' = [server EXCEPT !.text[s] = used.edits + 1, !.rev = @ + 1]
    /\ used' = [used EXCEPT !.edits = @ + 1]
    /\ sent' = {}
    /\ UNCHANGED <<page, replay, draft, outbox, answers, applied>>

-----------------------------------------------------------------------------
Init ==
    /\ page = ClosedPage /\ replay = NoReplay
    /\ draft = NoDraft /\ outbox = <<>>
    /\ sent = {} /\ answers = {} /\ applied = {}
    /\ server = [stage |-> "held", lease |-> 1, rev |-> 0, text |-> [s \in Seg |-> 0]]
    /\ used = [edits |-> 0, ops |-> 0, faults |-> 0, opens |-> 0, online |-> 0]

Autosave ==
    \/ SaveTimer \/ StoreSave \/ PostSave \/ ConfirmSave \/ SettleSave
    \/ \E a \in answers : SaveAnswered(a)

HandIn ==
    \/ Drain \/ BuildCompletion \/ StoreCompletion \/ PostCompletion
    \/ ConfirmCompletion \/ \E a \in answers : CompletionAnswered(a)

Walking ==
    \/ ReplaySend \/ Reload \/ Load \/ Recovered
    \/ \E a \in answers : ReplayAnswered(a)

Serving == \E m \in sent : Serve(m)

Faults ==
    \/ \E m \in sent : BreakOff(m) \/ Vanish(m) \/ ServerError(m)
    \/ \E a \in answers : LoseAnswer(a)

User ==
    \/ \E s \in Seg : EditSegment(s) \/ EditElsewhere(s)
    \/ KeepDraft \/ Submit \/ Open \/ Close \/ Online \/ Discard
    \/ Release \/ ClaimHere \/ ClaimInOtherTab

Next == Autosave \/ HandIn \/ Walking \/ Serving \/ Faults \/ User

\* Timers fire, IndexedDB answers, and a request that nobody loses is served.
Fairness ==
    /\ WF_vars(Autosave) /\ WF_vars(HandIn) /\ WF_vars(Walking)
    /\ WF_vars(Serving)

Spec == Init /\ [][Next]_vars /\ Fairness
=============================================================================
