------------------------------ MODULE DraftProofs ------------------------------
(***************************************************************************)
(* What DraftProperties.tla states of saving, for every number of          *)
(* segments, edits, operations, faults, leases and openings of the page.   *)
(*                                                                         *)
(* A refused request never takes effect, whatever the page does.  That     *)
(* nothing is taken for saved that is not, and that the server's work only *)
(* moves forward, is proved for a page that replays its outbox when it is  *)
(* opened but not while it is open (MaxOnline = 0); with "online" events   *)
(* it is not true of the code (see the README).                            *)
(***************************************************************************)
EXTENDS DraftProperties, SequenceTheorems, TLAPS

-----------------------------------------------------------------------------
(* Types                                                                   *)

Texts == [Seg -> Nat]

Requests == [op : Nat, kind : {"save", "complete"}, lease : Nat, rev : Nat,
             dirty : SUBSET Seg, text : Texts]

Pages == [mode : {"closed", "opening", "work", "idle"}, lease : Nat, rev : Nat,
          dirty : SUBSET Seg, text : Texts, pending : Requests,
          save : {"no", "store", "post", "wait", "confirm", "settle"},
          batch : Requests, due : BOOLEAN, queued : BOOLEAN, blocked : BOOLEAN,
          conflict : BOOLEAN, complete : Requests,
          submit : {"no", "drain", "store", "post", "wait", "again", "confirm"}]

Walks == [stage : {"no", "next", "wait"}, left : Seq(Requests),
          terminal : BOOLEAN, failed : BOOLEAN]

Drafts == [lease : Nat, rev : Nat, dirty : SUBSET Seg, text : Texts,
           status : {"clean", "dirty"}]

Servers == [stage : {"held", "pooled", "done"}, lease : Nat, rev : Nat, text : Texts]

Uses == [edits : Nat, ops : Nat, faults : Nat, opens : Nat, online : Nat]

TypeInv ==
    /\ page \in Pages
    /\ replay \in Walks
    /\ draft \in Drafts
    /\ outbox \in Seq(Requests)
    /\ sent \subseteq [req : Requests, by : Sender]
    /\ answers \subseteq [req : Requests, by : Sender, result : Result]
    /\ server \in Servers
    /\ applied \subseteq Requests
    /\ used \in Uses

-----------------------------------------------------------------------------
(* Sequences                                                               *)

In(q) == {q[i] : i \in 1 .. Len(q)}

\* Taking a confirmed request out of the outbox leaves only what was in it.
LEMMA WithoutIn ==
    ASSUME NEW S, outbox \in Seq(S), NEW op, InOutbox(op)
    PROVE  Without(op) \in Seq(S) /\ In(Without(op)) \subseteq In(outbox)
<1> DEFINE i == CHOOSE j \in 1 .. Len(outbox) : outbox[j].op = op
           L == SubSeq(outbox, 1, i - 1)
           R == SubSeq(outbox, i + 1, Len(outbox))
<1>1. i \in 1 .. Len(outbox)
  BY DEF InOutbox
<1> HIDE DEF i
<1>2. /\ L \in Seq(S) /\ R \in Seq(S)
      /\ Len(L) = i - 1 /\ Len(R) = Len(outbox) - i
      /\ \A j \in 1 .. Len(L) : L[j] = outbox[j]
      /\ \A j \in 1 .. Len(R) : R[j] = outbox[i + j]
  BY <1>1
<1> HIDE DEF L, R
<1>3. Without(op) = L \o R
  BY DEF Without, RemoveAt, i, L, R
<1>4. /\ L \o R \in Seq(S) /\ Len(L \o R) = Len(L) + Len(R)
      /\ \A j \in 1 .. Len(L) + Len(R) :
            (L \o R)[j] = IF j <= Len(L) THEN L[j] ELSE R[j - Len(L)]
  BY <1>2, ConcatProperties
<1>5. \A j \in 1 .. Len(L \o R) : \E n \in 1 .. Len(outbox) : (L \o R)[j] = outbox[n]
  <2> TAKE j \in 1 .. Len(L \o R)
  <2>1. CASE j <= Len(L)
    <3>1. j \in 1 .. Len(outbox) /\ j \in 1 .. Len(L)
      BY <2>1, <1>1, <1>2, <1>4
    <3> QED BY <3>1, <2>1, <1>2, <1>4
  <2>2. CASE ~ j <= Len(L)
    <3>1. j - Len(L) \in 1 .. Len(R) /\ i + (j - Len(L)) \in 1 .. Len(outbox)
      BY <2>2, <1>1, <1>2, <1>4
    <3> QED BY <3>1, <2>2, <1>2, <1>4
  <2> QED BY <2>1, <2>2
<1> QED BY <1>3, <1>4, <1>5 DEF In

LEMMA AppendIn ==
    ASSUME NEW S, NEW q \in Seq(S), NEW e \in S
    PROVE  Append(q, e) \in Seq(S) /\ In(Append(q, e)) = In(q) \cup {e}
<1>1. /\ Append(q, e) \in Seq(S) /\ Len(Append(q, e)) = Len(q) + 1
      /\ \A i \in 1 .. Len(q) : Append(q, e)[i] = q[i]
      /\ Append(q, e)[Len(q) + 1] = e
  BY AppendProperties
<1>2. 1 .. Len(q) + 1 = (1 .. Len(q)) \cup {Len(q) + 1}
  OBVIOUS
<1> QED BY <1>1, <1>2 DEF In

LEMMA TailIn ==
    ASSUME NEW S, NEW q \in Seq(S), q # <<>>
    PROVE  Head(q) \in In(q) /\ Tail(q) \in Seq(S) /\ In(Tail(q)) \subseteq In(q)
<1>1. /\ Len(q) \in Nat /\ Len(q) >= 1 /\ Tail(q) \in Seq(S)
      /\ Len(Tail(q)) = Len(q) - 1 /\ Head(q) = q[1]
      /\ \A i \in 1 .. Len(Tail(q)) : Tail(q)[i] = q[i + 1]
  BY HeadTailProperties, EmptySeq
<1>2. \A i \in 1 .. Len(q) - 1 : i + 1 \in 1 .. Len(q)
  BY <1>1
<1> QED BY <1>1, <1>2 DEF In

LEMMA EmptyIn == In(<<>>) = {}
BY DEF In

-----------------------------------------------------------------------------
(* Type correctness                                                        *)

LEMMA NoneTyped ==
    /\ NoRequest \in Requests /\ NoDraft \in Drafts /\ ClosedPage \in Pages
    /\ NoReplay \in Walks /\ Opening \in Pages
<1>1. [s \in Seg |-> 0] \in Texts
  BY DEF Texts
<1> DEFINE zero == [s \in Seg |-> 0]
<1> HIDE DEF zero
<1>2. NoRequest \in Requests
  BY <1>1 DEF NoRequest, Requests, zero
<1>3. NoDraft \in Drafts
  BY <1>1 DEF NoDraft, Drafts, zero
<1>4. ClosedPage \in Pages
  BY <1>1, <1>2 DEF ClosedPage, Pages, zero
<1>5. NoReplay \in Walks
  BY DEF NoReplay, Walks
<1>6. Opening \in Pages
  BY <1>4 DEF Opening, Pages
<1> QED BY <1>2, <1>3, <1>4, <1>5, <1>6

LEMMA PersistedTyped ==
    ASSUME TypeInv
    PROVE  Persisted \in Drafts /\ Unconfirmed \in SUBSET Seg
BY DEF TypeInv, Persisted, Unconfirmed, Pages, Drafts, Requests

LEMMA ConfirmTyped ==
    ASSUME TypeInv, NEW r \in Requests, Confirm(r)
    PROVE  draft' \in Drafts /\ outbox' \in Seq(Requests)
<1>1. CASE ~ InOutbox(r.op)
  BY <1>1 DEF Confirm, TypeInv
<1>2. CASE InOutbox(r.op)
  <2>1. outbox' \in Seq(Requests)
    BY <1>2, WithoutIn DEF Confirm, TypeInv
  <2>2. Cleared(r) \in SUBSET Seg /\ NewRevision(r) \in Nat
    BY DEF Cleared, NewRevision, TypeInv, Drafts, Requests
  <2>3. draft' \in Drafts
    BY <1>2, <2>2, NoneTyped DEF Confirm, TypeInv, Drafts
  <2> QED BY <2>1, <2>3
<1> QED BY <1>1, <1>2

LEMMA PutOutboxTyped ==
    ASSUME TypeInv, NEW r \in Requests, PutOutbox(r)
    PROVE  outbox' \in Seq(Requests)
BY AppendIn DEF PutOutbox, TypeInv

LEMMA SendTyped ==
    ASSUME TypeInv, NEW r \in Requests, NEW by \in Sender, Send(r, by)
    PROVE  sent' \subseteq [req : Requests, by : Sender]
BY DEF Send, TypeInv

LEMMA AnswerTyped ==
    ASSUME TypeInv, NEW m \in sent, NEW result \in Result, Answer(m, result)
    PROVE  answers' \subseteq [req : Requests, by : Sender, result : Result]
BY DEF Answer, TypeInv

LEMMA TypeInit == Init => TypeInv
<1> SUFFICES ASSUME Init PROVE TypeInv
  OBVIOUS
<1>1. server \in Servers /\ used \in Uses
  BY DEF Init, Servers, Uses, Texts
<1>2. outbox \in Seq(Requests) /\ sent = {} /\ answers = {} /\ applied = {}
  BY DEF Init
<1> QED BY <1>1, <1>2, NoneTyped DEF Init, TypeInv

LEMMA ServeTyped ==
    ASSUME TypeInv, NEW m \in sent, Serve(m)
    PROVE  TypeInv'
<1>1. m.req \in Requests /\ sent' \subseteq sent
  BY DEF TypeInv, Serve
<1>2. Refusal(m.req) \in Result /\ "ok" \in Result
  BY DEF Refusal, Result
<1>3. answers' \subseteq [req : Requests, by : Sender, result : Result]
  BY <1>2, AnswerTyped DEF Serve
<1>4. server' \in Servers /\ applied' \subseteq Requests
  <2>1. CASE UNCHANGED <<server, applied>>
    BY <2>1 DEF TypeInv
  <2>2. CASE Apply(m.req)
    <3>1. Merged(m.req) \in Texts /\ NewRevision(m.req) \in Nat
      BY <1>1 DEF Merged, NewRevision, TypeInv, Requests, Servers, Texts
    <3> QED BY <2>2, <1>1, <3>1 DEF Apply, TypeInv, Servers
  <2> QED BY <2>1, <2>2 DEF Serve
<1> QED BY <1>1, <1>3, <1>4 DEF Serve, TypeInv

LEMMA FaultsTyped == ASSUME TypeInv, Faults PROVE TypeInv'
<1> USE DEF Fault
<1>1. ASSUME Fault PROVE used' \in Uses
  BY <1>1 DEF TypeInv, Uses
<1>2. ASSUME NEW m \in sent, BreakOff(m) PROVE TypeInv'
  <2>1. answers' \subseteq [req : Requests, by : Sender, result : Result]
    BY <1>2, AnswerTyped DEF BreakOff, Result
  <2>2. [m EXCEPT !.by = "nobody"] \in [req : Requests, by : Sender]
    BY DEF TypeInv, Sender
  <2> QED BY <1>2, <1>1, <2>1, <2>2 DEF BreakOff, TypeInv
<1>3. ASSUME NEW m \in sent, Vanish(m) PROVE TypeInv'
  BY <1>3 DEF Vanish, TypeInv
<1>4. ASSUME NEW m \in sent, ServerError(m) PROVE TypeInv'
  <2>1. answers' \subseteq [req : Requests, by : Sender, result : Result]
    BY <1>4, AnswerTyped DEF ServerError, Result
  <2> QED BY <1>4, <1>1, <2>1 DEF ServerError, TypeInv
<1>5. ASSUME NEW a \in answers, LoseAnswer(a) PROVE TypeInv'
  <2>1. [a EXCEPT !.result = "lost"] \in [req : Requests, by : Sender, result : Result]
    BY DEF TypeInv, Result
  <2> QED BY <1>5, <1>1, <2>1 DEF LoseAnswer, TypeInv
<1> QED BY <1>2, <1>3, <1>4, <1>5 DEF Faults

LEMMA StartSaveTyped == ASSUME TypeInv, StartSave PROVE TypeInv'
<1>1. page' \in Pages /\ used' \in Uses
  <2>1. CASE page.pending # NoRequest
    BY <2>1 DEF StartSave, TypeInv, Pages, Uses
  <2>2. CASE page.pending = NoRequest
    <3>1. Captured \in Requests
      BY DEF Captured, TypeInv, Requests, Pages, Uses
    <3>2. /\ page' = [page EXCEPT !.save = "store", !.due = FALSE,
                                   !.pending = Captured, !.dirty = {}]
          /\ used' = [used EXCEPT !.ops = @ + 1]
      BY <2>2 DEF StartSave
    <3>3. page' \in Pages
      BY <3>1, <3>2 DEF TypeInv, Pages
    <3>4. used' \in Uses
      BY <3>2 DEF TypeInv, Uses
    <3> QED BY <3>3, <3>4
  <2> QED BY <2>1, <2>2
<1> QED BY <1>1 DEF StartSave, TypeInv

LEMMA BlockedTyped == ASSUME TypeInv PROVE Blocked \in Pages /\ Settled \in Pages
BY DEF TypeInv, Blocked, Settled, Pages, SaveNeeded, Working

LEMMA AutosaveTyped == ASSUME TypeInv, Autosave PROVE TypeInv'
<1>1. ASSUME SaveTimer PROVE TypeInv'
  BY <1>1, StartSaveTyped DEF SaveTimer, TypeInv, Pages
<1>2. ASSUME StoreSave PROVE TypeInv'
  BY <1>2, PersistedTyped DEF StoreSave, TypeInv, Pages
<1>3. ASSUME PostSave PROVE TypeInv'
  <2>1. page.pending \in Requests /\ "save" \in Sender
    BY DEF TypeInv, Pages, Sender
  <2>2. page' \in Pages
    BY <1>3 DEF PostSave, TypeInv, Pages
  <2>3. PutOutbox(page.pending) /\ Send(page.pending, "save")
    BY <1>3 DEF PostSave
  <2>4. outbox' \in Seq(Requests) /\ sent' \subseteq [req : Requests, by : Sender]
    BY <2>1, <2>3, PutOutboxTyped, SendTyped
  <2> QED BY <1>3, <2>2, <2>4 DEF PostSave, TypeInv
<1>4. ASSUME ConfirmSave PROVE TypeInv'
  <2>1. page.batch \in Requests /\ page' \in Pages
    BY <1>4, NoneTyped DEF ConfirmSave, TypeInv, Pages
  <2>2. draft' \in Drafts /\ outbox' \in Seq(Requests)
    BY <1>4, <2>1, ConfirmTyped DEF ConfirmSave
  <2> QED BY <1>4, <2>1, <2>2 DEF ConfirmSave, TypeInv
<1>5. ASSUME SettleSave PROVE TypeInv'
  BY <1>5, PersistedTyped, BlockedTyped DEF SettleSave, TypeInv
<1>6. ASSUME NEW a \in answers, SaveAnswered(a) PROVE TypeInv'
  <2>1. a.req \in Requests
    BY DEF TypeInv
  <2>2. Saved(a.req) \in Pages
    <3>1. a.req.rev + 1 \in Nat
      BY <2>1 DEF Requests
    <3> QED BY <2>1, <3>1, NoneTyped DEF TypeInv, Saved, NewRevision, Pages
  <2>3. SaveFailed(a.result) \in Pages
    <3> DEFINE b == page.blocked \/ (page.submit = "drain" /\ a.result = "lost")
    <3>1. [page EXCEPT !.due = TRUE, !.save = "no", !.queued = FALSE, !.submit = "no",
                       !.blocked = b] \in Pages
      <4>1. b \in BOOLEAN
        BY DEF TypeInv, Pages
      <4> HIDE DEF b
      <4> QED BY <4>1 DEF TypeInv, Pages
    <3>2. SaveFailed(a.result) \in {Blocked, [page EXCEPT !.due = TRUE, !.save = "no",
                                     !.queued = FALSE, !.submit = "no", !.blocked = b]}
      BY DEF SaveFailed, TypeInv, Pages
    <3> QED BY <3>1, <3>2, BlockedTyped
  <2> QED BY <1>6, <2>2, <2>3, BlockedTyped, PersistedTyped DEF SaveAnswered, TypeInv
<1> QED BY <1>1, <1>2, <1>3, <1>4, <1>5, <1>6 DEF Autosave

LEMMA HandInTyped == ASSUME TypeInv, HandIn PROVE TypeInv'
<1>0. page.complete \in Requests /\ "submit" \in Sender
  BY DEF TypeInv, Pages, Sender
<1>1. ASSUME Drain PROVE TypeInv'
  BY <1>1, StartSaveTyped DEF Drain
<1>2. ASSUME BuildCompletion PROVE TypeInv'
  <2>1. Completion \in Requests
    BY DEF Completion, TypeInv, Requests, Pages, Uses
  <2>2. page' \in Pages /\ used' \in Uses
    <3> DEFINE P == [page EXCEPT !.submit = "no"]
               Q == [page EXCEPT !.submit = "store"]
               R == [page EXCEPT !.submit = "store", !.complete = Completion]
    <3>1. P \in Pages /\ Q \in Pages /\ R \in Pages
      BY <2>1 DEF TypeInv, Pages
    <3>2. page' \in {P, Q, R} /\ used' \in {used, [used EXCEPT !.ops = @ + 1]}
      BY <1>2 DEF BuildCompletion
    <3> HIDE DEF P, Q, R
    <3> QED BY <3>1, <3>2 DEF TypeInv, Uses
  <2> QED BY <1>2, <2>2 DEF BuildCompletion, TypeInv
<1>3. ASSUME StoreCompletion PROVE TypeInv'
  BY <1>3, PersistedTyped DEF StoreCompletion, TypeInv, Pages
<1>4. ASSUME PostCompletion PROVE TypeInv'
  <2>1. page' \in Pages
    BY <1>4 DEF PostCompletion, TypeInv, Pages
  <2>2. PutOutbox(page.complete) /\ Send(page.complete, "submit")
    BY <1>4 DEF PostCompletion
  <2>3. outbox' \in Seq(Requests) /\ sent' \subseteq [req : Requests, by : Sender]
    BY <1>0, <2>2, PutOutboxTyped, SendTyped
  <2> QED BY <1>4, <2>1, <2>3 DEF PostCompletion, TypeInv
<1>5. ASSUME ConfirmCompletion PROVE TypeInv'
  <2>1. draft' \in Drafts /\ outbox' \in Seq(Requests)
    BY <1>0, <1>5, ConfirmTyped DEF ConfirmCompletion
  <2>2. page' \in Pages
    BY <1>5, NoneTyped DEF ConfirmCompletion, Pages
  <2> QED BY <1>5, <2>1, <2>2 DEF ConfirmCompletion, TypeInv
<1>6. ASSUME NEW a \in answers, CompletionAnswered(a) PROVE TypeInv'
  <2>1. sent' \subseteq [req : Requests, by : Sender]
    BY <1>0, <1>6, SendTyped DEF CompletionAnswered, TypeInv
  <2>2. page' \in Pages
    <3> DEFINE P == [page EXCEPT !.submit = "confirm"]
               Q == [page EXCEPT !.submit = "again"]
               R == [page EXCEPT !.submit = "no", !.blocked = TRUE]
               S == [page EXCEPT !.submit = "no"]
               T == [Blocked EXCEPT !.mode = "idle"]
    <3>1. P \in Pages /\ Q \in Pages /\ R \in Pages /\ S \in Pages
      BY DEF TypeInv, Pages
    <3>2. T \in Pages
      BY BlockedTyped DEF Pages
    <3>3. page' \in {P, Q, R, S, Blocked, T}
      BY <1>6 DEF CompletionAnswered
    <3> HIDE DEF P, Q, R, S, T
    <3> QED BY <3>1, <3>2, <3>3, BlockedTyped
  <2>3. draft' \in Drafts
    BY <1>6, PersistedTyped DEF CompletionAnswered, TypeInv
  <2> QED BY <1>6, <2>1, <2>2, <2>3 DEF CompletionAnswered, TypeInv
<1> QED BY <1>1, <1>2, <1>3, <1>4, <1>5, <1>6 DEF HandIn

LEMMA WalkTyped ==
    ASSUME NEW items \in Seq(Requests)
    PROVE  Walk(items) \in Walks
BY DEF Walk, NoReplay, Walks

LEMMA ForsakenTyped ==
    ASSUME TypeInv
    PROVE  Forsaken \subseteq [req : Requests, by : Sender]
BY DEF Forsaken, TypeInv, Sender

LEMMA LoadedTyped == ASSUME TypeInv PROVE LoadedPage \in Pages /\ RestoredPage \in Pages
<1>1. LoadedPage \in Pages
  BY NoneTyped DEF TypeInv, LoadedPage, Pages, Servers
<1>2. draft.text \in Texts /\ draft.dirty \in SUBSET Seg
  BY DEF TypeInv, Drafts
<1> DEFINE P == [LoadedPage EXCEPT !.text = draft.text, !.dirty = draft.dirty, !.due = TRUE]
           Q == [LoadedPage EXCEPT !.blocked = TRUE, !.conflict = TRUE]
<1>3. P \in Pages /\ Q \in Pages
  BY <1>1, <1>2 DEF Pages
<1>4. RestoredPage \in {LoadedPage, P, Q}
  BY DEF RestoredPage
<1> HIDE DEF P, Q
<1> QED BY <1>1, <1>3, <1>4

LEMMA WalkingTyped == ASSUME TypeInv, Walking PROVE TypeInv'
<1>1. ASSUME ReplaySend PROVE TypeInv'
  <2>1. replay.left \in Seq(Requests) /\ replay.left # <<>> /\ "replay" \in Sender
    BY <1>1 DEF TypeInv, Walks, ReplaySend, Sender
  <2>2. Head(replay.left) \in Requests
    BY <2>1
  <2>3. sent' \subseteq [req : Requests, by : Sender]
    BY <1>1, <2>1, <2>2, SendTyped DEF ReplaySend
  <2> QED BY <1>1, <2>3 DEF ReplaySend, TypeInv, Walks
<1>2. ASSUME Reload PROVE TypeInv'
  BY <1>2, WalkTyped, ForsakenTyped, NoneTyped DEF Reload, TypeInv
<1>3. ASSUME Load PROVE TypeInv'
  <2>1. [ClosedPage EXCEPT !.mode = "idle"] \in Pages
    BY NoneTyped DEF Pages
  <2> QED BY <1>3, <2>1, LoadedTyped, NoneTyped DEF Load, TypeInv
<1>4. ASSUME Recovered PROVE TypeInv'
  <2>1. page' \in Pages
    BY <1>4 DEF Recovered, TypeInv, Pages, SaveNeeded, Working
  <2> QED BY <1>4, <2>1, NoneTyped DEF Recovered, TypeInv
<1>5. ASSUME NEW a \in answers, ReplayAnswered(a) PROVE TypeInv'
  <2>1. a.req \in Requests
    BY DEF TypeInv
  <2>2. CASE a.result = "ok"
    <3>1. draft' \in Drafts /\ outbox' \in Seq(Requests)
      BY <1>5, <2>1, <2>2, ConfirmTyped DEF ReplayAnswered
    <3>2. Tail(replay.left) \in Seq(Requests) \/ replay.left = <<>>
      BY DEF TypeInv, Walks
    <3>3. Tail(<<>>) \in Seq(Requests)
      OBVIOUS
    <3>4. replay' \in Walks
      BY <1>5, <2>2, <3>2, <3>3 DEF ReplayAnswered, TypeInv, Walks, Terminal
    <3>5. page' \in Pages
      <4>1. NewRevision(a.req) \in Nat
        BY <2>1 DEF NewRevision, Requests
      <4>2. [page EXCEPT !.rev = NewRevision(a.req)] \in Pages
        BY <4>1 DEF TypeInv, Pages
      <4> QED BY <1>5, <2>2, <4>2 DEF ReplayAnswered, TypeInv
    <3> QED BY <1>5, <3>1, <3>4, <3>5 DEF ReplayAnswered, TypeInv
  <2>3. CASE a.result # "ok"
    <3>1. [replay EXCEPT !.stage = "next", !.left = <<>>, !.failed = TRUE] \in Walks
      <4>1. <<>> \in Seq(Requests)
        OBVIOUS
      <4> QED BY <4>1 DEF TypeInv, Walks
    <3> QED BY <1>5, <2>3, <3>1 DEF ReplayAnswered, TypeInv
  <2> QED BY <2>2, <2>3
<1> QED BY <1>1, <1>2, <1>3, <1>4, <1>5 DEF Walking

LEMMA UserTyped == ASSUME TypeInv, User PROVE TypeInv'
<1>1. ASSUME NEW s \in Seg, EditSegment(s) PROVE TypeInv'
  <2>1. page' \in Pages
    <3>1. /\ [page.text EXCEPT ![s] = used.edits + 1] \in Texts
          /\ page.dirty \cup {s} \in SUBSET Seg
      BY DEF TypeInv, Pages, Texts, Uses
    <3>2. page' = [page EXCEPT !.text = [page.text EXCEPT ![s] = used.edits + 1],
                               !.dirty = page.dirty \cup {s},
                               !.complete = NoRequest, !.due = TRUE]
      BY <1>1 DEF EditSegment, TypeInv, Pages
    <3> QED BY <3>1, <3>2, NoneTyped DEF TypeInv, Pages
  <2> QED BY <1>1, <2>1 DEF EditSegment, TypeInv, Uses
<1>2. ASSUME NEW s \in Seg, EditElsewhere(s) PROVE TypeInv'
  <2>1. [server.text EXCEPT ![s] = used.edits + 1] \in Texts
    BY DEF TypeInv, Servers, Texts, Uses
  <2>2. server' = [server EXCEPT !.text = [server.text EXCEPT ![s] = used.edits + 1],
                                 !.rev = server.rev + 1]
    BY <1>2 DEF EditElsewhere, TypeInv, Servers
  <2>3. server' \in Servers
    <3>1. server.rev + 1 \in Nat
      BY DEF TypeInv, Servers
    <3> QED BY <2>1, <2>2, <3>1 DEF TypeInv, Servers
  <2> QED BY <1>2, <2>3 DEF EditElsewhere, TypeInv, Uses
<1>3. ASSUME KeepDraft \/ Online PROVE TypeInv'
  BY <1>3, PersistedTyped, WalkTyped DEF KeepDraft, Online, TypeInv, Uses
<1>4. ASSUME Submit PROVE TypeInv'
  BY <1>4 DEF Submit, TypeInv, Pages
<1>5. ASSUME Open PROVE TypeInv'
  BY <1>5, NoneTyped, WalkTyped DEF Open, TypeInv, Uses
<1>6. ASSUME Close PROVE TypeInv'
  BY <1>6, NoneTyped, ForsakenTyped DEF Close, TypeInv
<1>7. ASSUME Discard PROVE TypeInv'
  <2>1. <<>> \in Seq(Requests)
    OBVIOUS
  <2> QED BY <1>7, <2>1, NoneTyped, ForsakenTyped, WalkTyped DEF Discard, TypeInv
<1>8. ASSUME Release PROVE TypeInv'
  BY <1>8 DEF Release, TypeInv, Servers
<1>9. ASSUME ClaimHere \/ ClaimInOtherTab PROVE TypeInv'
  <2>1. server' \in Servers
    <3>1. Reclaim
      BY <1>9 DEF ClaimHere, ClaimInOtherTab
    <3>2. server' = [server EXCEPT !.stage = "held", !.lease = server.lease + 1]
      BY <3>1 DEF Reclaim, TypeInv, Servers
    <3>3. server.lease + 1 \in Nat
      BY DEF TypeInv, Servers
    <3> QED BY <3>2, <3>3 DEF TypeInv, Servers
  <2>2. [LoadedPage EXCEPT !.lease = server.lease + 1] \in Pages
    <3>1. server.lease + 1 \in Nat
      BY DEF TypeInv, Servers
    <3> QED BY <3>1, LoadedTyped DEF Pages
  <2> QED BY <1>9, <2>1, <2>2 DEF ClaimHere, ClaimInOtherTab, TypeInv
<1> QED BY <1>1, <1>2, <1>3, <1>4, <1>5, <1>6, <1>7, <1>8, <1>9 DEF User

LEMMA TypeStep == TypeInv /\ [Next]_vars => TypeInv'
<1> SUFFICES ASSUME TypeInv, [Next]_vars PROVE TypeInv'
  OBVIOUS
<1>1. CASE Next
  BY <1>1, ServeTyped, FaultsTyped, AutosaveTyped, HandInTyped, WalkingTyped, UserTyped
     DEF Next, Serving
<1>2. CASE UNCHANGED vars
  BY <1>2 DEF vars, TypeInv
<1> QED BY <1>1, <1>2

\* Page, IndexedDB, network and server only ever hold what their types say.
THEOREM DraftTypeHolds == Spec => []TypeInv
BY TypeInit, TypeStep, PTL DEF Spec

-----------------------------------------------------------------------------
(* No second opinion                                                       *)

\* Every request that may still reach the server or the page.
Flight == {m.req : m \in sent} \cup {a.req : a \in answers}
Kept == In(outbox) \cup In(replay.left)
Carried == Flight \cup Kept \cup {page.pending, page.complete}

\* Made under a lease and on a revision that the server has, or had.
Known(x) == x.lease <= server.lease /\ x.rev <= server.rev

\* The server will not accept the request any more: revisions and leases only
\* grow, and a task that was given back is next claimed under a new lease.
Dead(r) ==
    \/ server.stage # "held"
    \/ r.lease < server.lease
    \/ r.rev < server.rev

CarriedKnown == \A r \in Carried : Known(r)
AppliedBefore == \A r \in applied : r.lease <= server.lease /\ r.rev < server.rev
OkIsApplied == \A a \in answers : a.result = "ok" => a.req \in applied
RefusedIsDead ==
    \A a \in answers : a.result \in {"revision", "unassigned", "lease"} =>
        a.req \notin applied /\ Dead(a.req)

RequestInv ==
    /\ TypeInv
    /\ CarriedKnown /\ Known(page)
    /\ AppliedBefore /\ OkIsApplied /\ RefusedIsDead

LEMMA RequestInit == Init => RequestInv
<1> SUFFICES ASSUME Init PROVE RequestInv
  OBVIOUS
<1>1. TypeInv
  BY TypeInit
<1>2. /\ sent = {} /\ answers = {} /\ applied = {} /\ outbox = <<>> /\ replay.left = <<>>
      /\ server.lease = 1 /\ server.rev = 0
      /\ page.lease = 0 /\ page.rev = 0
      /\ page.pending = NoRequest /\ page.complete = NoRequest
  BY DEF Init, ClosedPage, NoReplay
<1>3. NoRequest.lease = 0 /\ NoRequest.rev = 0
  BY DEF NoRequest
<1>4. Carried = {NoRequest}
  BY <1>2, EmptyIn DEF Carried, Flight, Kept
<1> QED BY <1>1, <1>2, <1>3, <1>4 DEF RequestInv, CarriedKnown, AppliedBefore,
           OkIsApplied, RefusedIsDead, Known

LEMMA NoneKnown ==
    ASSUME TypeInv
    PROVE  Known(NoRequest) /\ Known(ClosedPage) /\ Known(NoDraft)
BY DEF TypeInv, Servers, Known, NoRequest, ClosedPage, NoDraft

LEMMA CarriedTyped == ASSUME TypeInv PROVE Carried \subseteq Requests
<1>1. outbox \in Seq(Requests) /\ replay.left \in Seq(Requests)
  BY DEF TypeInv, Walks
<1>2. Kept \subseteq Requests
  BY <1>1 DEF Kept, In
<1> QED BY <1>2 DEF Carried, Flight, TypeInv, Pages

\* A step that leaves the server alone: what the page keeps, sends and is
\* answered was known before, or is made of what the page knows.
LEMMA QuietKeeps ==
    ASSUME RequestInv, TypeInv', server' = server, applied' = applied,
           page'.lease <= server.lease, page'.rev <= server.rev,
           \A r \in Carried' : r \in Carried \/ Known(r),
           \A a \in answers' : a \in answers \/ a.result \in {"lost", "error"}
    PROVE  RequestInv'
<1>1. CarriedKnown' /\ Known(page)'
  BY DEF RequestInv, CarriedKnown, Known
<1>2. AppliedBefore'
  BY DEF RequestInv, AppliedBefore
<1>3. OkIsApplied'
  BY DEF RequestInv, OkIsApplied
<1>4. RefusedIsDead'
  BY DEF RequestInv, RefusedIsDead, Dead
<1> QED BY <1>1, <1>2, <1>3, <1>4 DEF RequestInv

\* A step of the server that applies no request: it goes on from lease to lease
\* and from revision to revision.
LEMMA ServerKeeps ==
    ASSUME RequestInv, TypeInv', applied' = applied,
           server'.lease >= server.lease, server'.rev >= server.rev,
           server'.stage = "held" /\ server.stage # "held" =>
                server.stage = "pooled" /\ server'.lease > server.lease,
           page'.lease <= server'.lease, page'.rev <= server'.rev,
           Carried' \subseteq Carried \cup {NoRequest}, answers' = answers
    PROVE  RequestInv'
<1>1. /\ server.lease \in Nat /\ server'.lease \in Nat
      /\ server.rev \in Nat /\ server'.rev \in Nat
  BY DEF RequestInv, TypeInv, Servers
<1>2. \A r \in Carried \cup applied \cup {NoRequest} : r.lease \in Nat /\ r.rev \in Nat
  BY CarriedTyped, NoneTyped DEF RequestInv, TypeInv, Requests
<1>3. CarriedKnown' /\ Known(page)'
  <2>1. \A r \in Carried \cup {NoRequest} : Known(r)
    BY NoneKnown DEF RequestInv, CarriedKnown
  <2>2. \A r \in Carried \cup {NoRequest} : r.lease <= server'.lease /\ r.rev <= server'.rev
    BY <1>1, <1>2, <2>1 DEF Known
  <2> QED BY <2>2 DEF CarriedKnown, Known
<1>4. AppliedBefore'
  BY <1>1, <1>2 DEF RequestInv, AppliedBefore
<1>5. OkIsApplied'
  BY DEF RequestInv, OkIsApplied
<1>6. RefusedIsDead'
  <2> SUFFICES ASSUME NEW a \in answers,
                      a.result \in {"revision", "unassigned", "lease"}
               PROVE  a.req \notin applied /\ Dead(a.req)'
    BY DEF RefusedIsDead
  <2>1. a.req \in Carried /\ a.req \notin applied /\ Dead(a.req)
    BY DEF RequestInv, RefusedIsDead, Carried, Flight
  <2>2. a.req.lease <= server.lease /\ a.req.lease \in Nat /\ a.req.rev \in Nat
    BY <1>2, <2>1 DEF RequestInv, CarriedKnown, Known
  <2>3. CASE server.stage # "held"
    BY <1>1, <2>1, <2>2, <2>3 DEF Dead
  <2>4. CASE a.req.lease < server.lease \/ a.req.rev < server.rev
    BY <1>1, <2>1, <2>2, <2>4 DEF Dead
  <2> QED BY <2>1, <2>3, <2>4 DEF Dead
<1> QED BY <1>3, <1>4, <1>5, <1>6 DEF RequestInv

\* The transaction that answers a request.
LEMMA ServeKeeps ==
    ASSUME RequestInv, NEW m \in sent, Serve(m)
    PROVE  RequestInv'
<1> DEFINE r == m.req
<1>0. TypeInv /\ TypeInv'
  BY ServeTyped DEF RequestInv
<1>1. /\ r \in Requests /\ r \in Carried /\ r.rev \in Nat /\ r.lease \in Nat
      /\ Known(r)
  BY <1>0 DEF TypeInv, Carried, Flight, RequestInv, CarriedKnown, Requests
<1>2. UNCHANGED <<page, replay, outbox>> /\ sent' \subseteq sent
  BY DEF Serve
<1>3. server.lease \in Nat /\ server.rev \in Nat
  BY <1>0 DEF TypeInv, Servers
<1>4. ASSUME NEW a \in answers', a \notin answers
      PROVE  a.req = r /\ \E result \in Result : Answer(m, result) /\ a.result = result
  BY <1>4, <1>0 DEF Serve, Answer, Refusal, Result
<1>5. Carried' \subseteq Carried
  BY <1>1, <1>2, <1>4 DEF Carried, Flight, Kept
<1>6. CASE UNCHANGED <<server, applied>>
  <2>1. CarriedKnown' /\ Known(page)' /\ AppliedBefore'
    BY <1>2, <1>5, <1>6 DEF RequestInv, CarriedKnown, Known, AppliedBefore
  <2>2. CASE Replayed(r) /\ Answer(m, "ok")
    <3>1. \A a \in answers' : a \in answers \/ (a.req = r /\ a.result = "ok")
      BY <2>2 DEF Answer
    <3> QED BY <3>1, <2>1, <2>2, <1>0, <1>6
            DEF RequestInv, OkIsApplied, RefusedIsDead, Dead, Replayed
  <2>3. CASE ~ Replayed(r) /\ ~ Accepted(r) /\ Answer(m, Refusal(r))
    <3>1. \A a \in answers' : a \in answers \/ (a.req = r /\ a.result = Refusal(r))
      BY <2>3 DEF Answer
    <3>2. Refusal(r) # "ok"
      BY DEF Refusal
    <3>3. Dead(r)
      BY <2>3, <1>1, <1>3 DEF Accepted, RevisionMatches, Dead, Known
    <3> QED BY <3>1, <3>2, <3>3, <2>1, <2>3, <1>0, <1>6
            DEF RequestInv, OkIsApplied, RefusedIsDead, Dead, Replayed
  <2>4. CASE Accepted(r) /\ Apply(r)
    <3>1. server'.rev = server.rev + 1
      BY <2>4, <1>0 DEF Apply, Accepted, RevisionMatches, NewRevision, TypeInv, Servers
    <3> QED BY <3>1, <1>3, <1>6
  <2> QED BY <2>2, <2>3, <2>4 DEF Serve
<1>7. CASE ~ Replayed(r) /\ Accepted(r) /\ Answer(m, "ok") /\ Apply(r)
  <2>1. /\ server'.rev = server.rev + 1 /\ server'.lease = server.lease
        /\ applied' = applied \cup {r} /\ server.stage = "held"
        /\ r.rev = server.rev /\ r.lease = server.lease
    BY <1>7, <1>0 DEF Apply, Accepted, RevisionMatches, NewRevision, TypeInv, Servers
  <2>2. \A x \in Carried \cup applied : x.lease \in Nat /\ x.rev \in Nat
    BY <1>0, CarriedTyped DEF TypeInv, Requests
  <2>3. CarriedKnown'
    BY <1>3, <1>5, <2>1, <2>2 DEF RequestInv, CarriedKnown, Known
  <2>4. Known(page)'
    BY <1>0, <1>2, <1>3, <2>1 DEF RequestInv, Known, TypeInv, Pages
  <2>5. AppliedBefore'
    BY <1>3, <2>1, <2>2 DEF RequestInv, AppliedBefore
  <2>6. \A a \in answers' : a \in answers \/ (a.req = r /\ a.result = "ok")
    BY <1>7 DEF Answer
  <2>7. OkIsApplied'
    BY <2>1, <2>6 DEF RequestInv, OkIsApplied
  <2>8. RefusedIsDead'
    <3> SUFFICES ASSUME NEW a \in answers,
                        a.result \in {"revision", "unassigned", "lease"}
                 PROVE  a.req \notin applied' /\ Dead(a.req)'
      BY <2>6 DEF RefusedIsDead
    <3>1. a.req \notin applied /\ Dead(a.req) /\ a.req \in Carried
      BY DEF RequestInv, RefusedIsDead, Carried, Flight
    <3>2. a.req.lease < server.lease \/ a.req.rev < server.rev
      BY <2>1, <3>1 DEF Dead
    <3>3. a.req # r
      BY <2>1, <3>2, <1>3
    <3>4. a.req.lease < server'.lease \/ a.req.rev < server'.rev
      BY <1>3, <2>1, <2>2, <3>1, <3>2
    <3> QED BY <2>1, <3>1, <3>3, <3>4 DEF Dead
  <2> QED BY <1>0, <2>3, <2>4, <2>5, <2>7, <2>8 DEF RequestInv
<1> QED BY <1>6, <1>7 DEF Serve

LEMMA ConfirmIn ==
    ASSUME TypeInv, NEW r \in Requests, Confirm(r)
    PROVE  In(outbox') \subseteq In(outbox)
BY WithoutIn DEF Confirm, TypeInv

LEMMA PutOutboxIn ==
    ASSUME TypeInv, NEW r \in Requests, PutOutbox(r)
    PROVE  In(outbox') \subseteq In(outbox) \cup {r}
BY AppendIn DEF PutOutbox, TypeInv

LEMMA ForsakenReq ==
    ASSUME TypeInv
    PROVE  {m.req : m \in Forsaken} = {m.req : m \in sent}
<1>1. \A m \in sent : [m EXCEPT !.by = "nobody"].req = m.req
  BY DEF TypeInv
<1>2. \A x \in Forsaken : \E m \in sent : x = [m EXCEPT !.by = "nobody"]
  BY DEF Forsaken
<1>3. \A m \in sent : [m EXCEPT !.by = "nobody"] \in Forsaken
  BY DEF Forsaken
<1>4. ASSUME NEW r \in {m.req : m \in Forsaken} PROVE r \in {m.req : m \in sent}
  <2>1. PICK x \in Forsaken : r = x.req
    BY <1>4
  <2>2. PICK m \in sent : x = [m EXCEPT !.by = "nobody"]
    BY <1>2
  <2> QED BY <1>1, <2>1, <2>2
<1>5. ASSUME NEW r \in {m.req : m \in sent} PROVE r \in {m.req : m \in Forsaken}
  BY <1>1, <1>3
<1> QED BY <1>4, <1>5

LEMMA StartSaveKeeps == ASSUME RequestInv, StartSave PROVE RequestInv'
<1>0. TypeInv /\ TypeInv'
  BY StartSaveTyped DEF RequestInv
<1>1. UNCHANGED <<replay, outbox, sent, answers, server, applied>>
  BY DEF StartSave
<1>2. /\ page'.lease = page.lease /\ page'.rev = page.rev
      /\ page'.complete = page.complete
      /\ page'.pending \in {page.pending, Captured}
  BY <1>0 DEF StartSave, TypeInv, Pages
<1>3. Known(Captured)
  BY DEF Captured, RequestInv, Known
<1>4. Carried' \subseteq Carried \cup {Captured}
  BY <1>1, <1>2 DEF Carried, Flight, Kept
<1> QED BY <1>0, <1>1, <1>2, <1>3, <1>4, QuietKeeps DEF RequestInv, Known

LEMMA AutosaveKeeps == ASSUME RequestInv, Autosave PROVE RequestInv'
<1>0. TypeInv /\ TypeInv' /\ Known(page)
  BY AutosaveTyped DEF RequestInv
<1>1. ASSUME SaveTimer PROVE RequestInv'
  <2>1. CASE StartSave
    BY <2>1, StartSaveKeeps
  <2>2. CASE ~ StartSave
    <3>1. UNCHANGED <<replay, outbox, sent, answers, server, applied>>
      BY <1>1, <2>2 DEF SaveTimer
    <3>2. /\ page'.lease = page.lease /\ page'.rev = page.rev
          /\ page'.complete = page.complete /\ page'.pending = page.pending
      BY <1>0, <1>1, <2>2 DEF SaveTimer, TypeInv, Pages
    <3>3. Carried' = Carried
      BY <3>1, <3>2 DEF Carried, Flight, Kept
    <3> QED BY <1>0, <3>1, <3>2, <3>3, QuietKeeps DEF Known
  <2> QED BY <2>1, <2>2
<1>2. ASSUME StoreSave \/ SettleSave PROVE RequestInv'
  <2>1. UNCHANGED <<replay, outbox, sent, answers, server, applied>>
    BY <1>2 DEF StoreSave, SettleSave
  <2>2. /\ page'.lease = page.lease /\ page'.rev = page.rev
        /\ page'.complete = page.complete /\ page'.pending = page.pending
    BY <1>0, <1>2 DEF StoreSave, SettleSave, Settled, TypeInv, Pages
  <2>3. Carried' = Carried
    BY <2>1, <2>2 DEF Carried, Flight, Kept
  <2> QED BY <1>0, <2>1, <2>2, <2>3, QuietKeeps DEF Known
<1>3. ASSUME PostSave PROVE RequestInv'
  <2>1. UNCHANGED <<replay, answers, server, applied>>
    BY <1>3 DEF PostSave
  <2>2. /\ page'.lease = page.lease /\ page'.rev = page.rev
        /\ page'.complete = page.complete /\ page'.pending = page.pending
    BY <1>0, <1>3 DEF PostSave, TypeInv, Pages
  <2>3. page.pending \in Requests
    BY <1>0 DEF TypeInv, Pages
  <2>4. In(outbox') \subseteq In(outbox) \cup {page.pending}
    BY <1>0, <1>3, <2>3, PutOutboxIn DEF PostSave
  <2>5. sent' = sent \cup {[req |-> page.pending, by |-> "save"]}
    BY <1>3 DEF PostSave, Send
  <2>6. Carried' \subseteq Carried
    BY <2>1, <2>2, <2>4, <2>5 DEF Carried, Flight, Kept
  <2> QED BY <1>0, <2>1, <2>2, <2>6, QuietKeeps DEF Known
<1>4. ASSUME ConfirmSave PROVE RequestInv'
  <2>1. UNCHANGED <<replay, sent, answers, server, applied>>
    BY <1>4 DEF ConfirmSave
  <2>2. /\ page'.lease = page.lease /\ page'.rev = page.rev
        /\ page'.complete = page.complete /\ page'.pending = page.pending
    BY <1>0, <1>4 DEF ConfirmSave, TypeInv, Pages
  <2>3. page.batch \in Requests
    BY <1>0 DEF TypeInv, Pages
  <2>4. In(outbox') \subseteq In(outbox)
    BY <1>0, <1>4, <2>3, ConfirmIn DEF ConfirmSave
  <2>5. Carried' \subseteq Carried
    BY <2>1, <2>2, <2>4 DEF Carried, Flight, Kept
  <2> QED BY <1>0, <2>1, <2>2, <2>5, QuietKeeps DEF Known
<1>5. ASSUME NEW a \in answers, SaveAnswered(a) PROVE RequestInv'
  <2>1. UNCHANGED <<replay, outbox, sent, server, applied>> /\ answers' = answers \ {a}
    BY <1>5 DEF SaveAnswered
  <2>2. /\ page'.lease = page.lease /\ page'.complete = page.complete
        /\ page'.pending \in {page.pending, NoRequest}
    BY <1>0, <1>5 DEF SaveAnswered, Saved, Blocked, SaveFailed, TypeInv, Pages
  <2>3. page'.rev = page.rev \/ (a.result = "ok" /\ page'.rev = a.req.rev + 1)
    BY <1>0, <1>5
       DEF SaveAnswered, Saved, Blocked, SaveFailed, NewRevision, TypeInv, Pages
  <2>4. page'.rev <= server.rev
    <3>1. CASE page'.rev = page.rev
      BY <3>1, <1>0 DEF Known
    <3>2. CASE a.result = "ok" /\ page'.rev = a.req.rev + 1
      <4>1. a.req \in applied /\ a.req.rev < server.rev
        BY <3>2 DEF RequestInv, OkIsApplied, AppliedBefore
      <4>2. a.req.rev \in Nat /\ server.rev \in Nat
        BY <1>0 DEF TypeInv, Requests, Servers
      <4> QED BY <3>2, <4>1, <4>2
    <3> QED BY <2>3, <3>1, <3>2
  <2>5. Carried' \subseteq Carried \cup {NoRequest}
    BY <2>1, <2>2 DEF Carried, Flight, Kept
  <2>6. Known(NoRequest)
    BY <1>0, NoneKnown
  <2> QED BY <1>0, <2>1, <2>2, <2>4, <2>5, <2>6, QuietKeeps DEF Known
<1> QED BY <1>1, <1>2, <1>3, <1>4, <1>5 DEF Autosave

LEMMA HandInKeeps == ASSUME RequestInv, HandIn PROVE RequestInv'
<1>0. TypeInv /\ TypeInv' /\ Known(page) /\ Known(NoRequest)
  BY HandInTyped, NoneKnown DEF RequestInv
<1>1. ASSUME Drain PROVE RequestInv'
  BY <1>1, StartSaveKeeps DEF Drain
<1>2. ASSUME BuildCompletion \/ StoreCompletion PROVE RequestInv'
  <2>1. UNCHANGED <<replay, outbox, sent, answers, server, applied>>
    BY <1>2 DEF BuildCompletion, StoreCompletion
  <2>2. /\ page'.lease = page.lease /\ page'.rev = page.rev
        /\ page'.pending = page.pending
        /\ page'.complete \in {page.complete, Completion}
    BY <1>0, <1>2 DEF BuildCompletion, StoreCompletion, TypeInv, Pages
  <2>3. Known(Completion)
    BY <1>0 DEF Completion, Known
  <2>4. Carried' \subseteq Carried \cup {Completion}
    BY <2>1, <2>2 DEF Carried, Flight, Kept
  <2> QED BY <1>0, <2>1, <2>2, <2>3, <2>4, QuietKeeps DEF Known
<1>3. ASSUME PostCompletion PROVE RequestInv'
  <2>1. UNCHANGED <<replay, answers, server, applied>>
    BY <1>3 DEF PostCompletion
  <2>2. /\ page'.lease = page.lease /\ page'.rev = page.rev
        /\ page'.complete = page.complete /\ page'.pending = page.pending
    BY <1>0, <1>3 DEF PostCompletion, TypeInv, Pages
  <2>3. page.complete \in Requests
    BY <1>0 DEF TypeInv, Pages
  <2>4. In(outbox') \subseteq In(outbox) \cup {page.complete}
    BY <1>0, <1>3, <2>3, PutOutboxIn DEF PostCompletion
  <2>5. sent' = sent \cup {[req |-> page.complete, by |-> "submit"]}
    BY <1>3 DEF PostCompletion, Send
  <2>6. Carried' \subseteq Carried
    BY <2>1, <2>2, <2>4, <2>5 DEF Carried, Flight, Kept
  <2> QED BY <1>0, <2>1, <2>2, <2>6, QuietKeeps DEF Known
<1>4. ASSUME ConfirmCompletion PROVE RequestInv'
  <2>1. UNCHANGED <<replay, sent, answers, server, applied>>
    BY <1>4 DEF ConfirmCompletion
  <2>2. /\ page'.lease = 0 /\ page'.rev = 0
        /\ page'.complete = NoRequest /\ page'.pending = NoRequest
    BY <1>4 DEF ConfirmCompletion, ClosedPage
  <2>3. page.complete \in Requests /\ server.lease \in Nat /\ server.rev \in Nat
    BY <1>0 DEF TypeInv, Pages, Servers
  <2>4. In(outbox') \subseteq In(outbox)
    BY <1>0, <1>4, <2>3, ConfirmIn DEF ConfirmCompletion
  <2>5. Carried' \subseteq Carried \cup {NoRequest}
    BY <2>1, <2>2, <2>4 DEF Carried, Flight, Kept
  <2> QED BY <1>0, <2>1, <2>2, <2>3, <2>5, QuietKeeps
<1>5. ASSUME NEW a \in answers, CompletionAnswered(a) PROVE RequestInv'
  <2>1. UNCHANGED <<replay, outbox, server, applied>> /\ answers' = answers \ {a}
    BY <1>5 DEF CompletionAnswered
  <2>2. /\ page'.lease = page.lease /\ page'.rev = page.rev
        /\ page'.complete = page.complete /\ page'.pending = page.pending
    BY <1>0, <1>5 DEF CompletionAnswered, Blocked, TypeInv, Pages
  <2>3. sent' \subseteq sent \cup {[req |-> page.complete, by |-> "submit"]}
    BY <1>5 DEF CompletionAnswered, Send
  <2>4. Carried' \subseteq Carried
    BY <2>1, <2>2, <2>3 DEF Carried, Flight, Kept
  <2> QED BY <1>0, <2>1, <2>2, <2>4, QuietKeeps DEF Known
<1> QED BY <1>1, <1>2, <1>3, <1>4, <1>5 DEF HandIn

LEMMA LoadedKnown ==
    ASSUME TypeInv
    PROVE  \A p \in {LoadedPage, RestoredPage} :
               /\ p.lease = server.lease /\ p.rev = server.rev
               /\ p.pending = NoRequest /\ p.complete = NoRequest
<1>1. /\ LoadedPage.lease = server.lease /\ LoadedPage.rev = server.rev
      /\ LoadedPage.pending = NoRequest /\ LoadedPage.complete = NoRequest
  BY DEF LoadedPage, ClosedPage
<1>2. LoadedPage \in Pages
  BY LoadedTyped
<1> QED BY <1>1, <1>2 DEF RestoredPage, Pages

LEMMA WalkingKeeps == ASSUME RequestInv, Walking PROVE RequestInv'
<1>0. TypeInv /\ TypeInv' /\ Known(page) /\ Known(NoRequest)
  BY WalkingTyped, NoneKnown DEF RequestInv
<1>1. /\ server.lease \in Nat /\ server.rev \in Nat
      /\ replay.left \in Seq(Requests)
      /\ NoReplay.left = <<>>
  BY <1>0 DEF TypeInv, Servers, Walks, NoReplay
<1>2. ASSUME ReplaySend PROVE RequestInv'
  <2>1. UNCHANGED <<page, outbox, answers, server, applied>> /\ replay'.left = replay.left
    BY <1>0, <1>2 DEF ReplaySend, TypeInv, Walks
  <2>2. Head(replay.left) \in In(replay.left)
    BY <1>1, <1>2, TailIn DEF ReplaySend
  <2>3. sent' = sent \cup {[req |-> Head(replay.left), by |-> "replay"]}
    BY <1>2 DEF ReplaySend, Send
  <2>4. Carried' \subseteq Carried
    BY <2>1, <2>2, <2>3 DEF Carried, Flight, Kept
  <2> QED BY <1>0, <2>1, <2>4, QuietKeeps DEF Known
<1>3. ASSUME Reload PROVE RequestInv'
  <2>1. /\ UNCHANGED <<outbox, server, applied>> /\ answers' = {} /\ sent' = Forsaken
        /\ replay'.left = outbox /\ page' = Opening
    BY <1>3 DEF Reload, Walk, NoReplay
  <2>2. /\ page'.lease = 0 /\ page'.rev = 0
        /\ page'.complete = NoRequest /\ page'.pending = NoRequest
    BY <2>1 DEF Opening, ClosedPage
  <2>3. Carried' \subseteq Carried \cup {NoRequest}
    BY <1>0, <2>1, <2>2, ForsakenReq DEF Carried, Flight, Kept
  <2> QED BY <1>0, <1>1, <2>1, <2>2, <2>3, QuietKeeps
<1>4. ASSUME Load PROVE RequestInv'
  <2>1. UNCHANGED <<outbox, sent, answers, server, applied>> /\ replay'.left = <<>>
    BY <1>4 DEF Load, NoReplay
  <2>2. page' \in {LoadedPage, RestoredPage} \/ page' = [ClosedPage EXCEPT !.mode = "idle"]
    BY <1>4 DEF Load
  <2>3. /\ page'.lease <= server.lease /\ page'.rev <= server.rev
        /\ page'.complete = NoRequest /\ page'.pending = NoRequest
    BY <1>0, <1>1, <2>2, LoadedKnown DEF ClosedPage
  <2>4. Carried' \subseteq Carried \cup {NoRequest}
    BY <2>1, <2>3, EmptyIn DEF Carried, Flight, Kept
  <2> QED BY <1>0, <2>1, <2>3, <2>4, QuietKeeps
<1>5. ASSUME Recovered PROVE RequestInv'
  <2>1. UNCHANGED <<outbox, sent, answers, server, applied>> /\ replay'.left = <<>>
    BY <1>5 DEF Recovered, NoReplay
  <2>2. /\ page'.lease = page.lease /\ page'.rev = page.rev
        /\ page'.complete = page.complete /\ page'.pending = page.pending
    BY <1>0, <1>5 DEF Recovered, TypeInv, Pages
  <2>3. Carried' \subseteq Carried
    BY <2>1, <2>2, EmptyIn DEF Carried, Flight, Kept
  <2> QED BY <1>0, <2>1, <2>2, <2>3, QuietKeeps DEF Known
<1>6. ASSUME NEW a \in answers, ReplayAnswered(a) PROVE RequestInv'
  <2>1. UNCHANGED <<sent, server, applied>> /\ answers' = answers \ {a}
    BY <1>6 DEF ReplayAnswered
  <2>2. a.req \in Requests
    BY <1>0 DEF TypeInv
  <2>3. In(outbox') \subseteq In(outbox)
    BY <1>0, <1>6, <2>2, ConfirmIn DEF ReplayAnswered
  <2>4. In(replay'.left) \subseteq In(replay.left)
    <3>1. replay'.left \in {<<>>, Tail(replay.left)}
      BY <1>0, <1>6 DEF ReplayAnswered, TypeInv, Walks
    <3>2. Tail(<<>>) = <<>> \/ replay.left # <<>>
      OBVIOUS
    <3>3. In(Tail(replay.left)) \subseteq In(replay.left) \/ replay.left = <<>>
      BY <1>1, TailIn
    <3>4. In(Tail(<<>>)) = {}
      BY DEF In
    <3> QED BY <3>1, <3>3, <3>4, EmptyIn
  <2>5. /\ page'.lease = page.lease
        /\ page'.complete = page.complete /\ page'.pending = page.pending
    BY <1>0, <1>6 DEF ReplayAnswered, TypeInv, Pages
  <2>6. page'.rev = page.rev \/ (a.result = "ok" /\ page'.rev = a.req.rev + 1)
    BY <1>0, <1>6 DEF ReplayAnswered, NewRevision, TypeInv, Pages
  <2>7. page'.rev <= server.rev
    <3>1. CASE page'.rev = page.rev
      BY <3>1, <1>0 DEF Known
    <3>2. CASE a.result = "ok" /\ page'.rev = a.req.rev + 1
      <4>1. a.req \in applied /\ a.req.rev < server.rev
        BY <3>2 DEF RequestInv, OkIsApplied, AppliedBefore
      <4>2. a.req.rev \in Nat
        BY <2>2 DEF Requests
      <4> QED BY <1>1, <3>2, <4>1, <4>2
    <3> QED BY <2>6, <3>1, <3>2
  <2>8. Carried' \subseteq Carried
    BY <2>1, <2>3, <2>4, <2>5 DEF Carried, Flight, Kept
  <2> QED BY <1>0, <2>1, <2>5, <2>7, <2>8, QuietKeeps DEF Known
<1> QED BY <1>2, <1>3, <1>4, <1>5, <1>6 DEF Walking

LEMMA FaultsKeep == ASSUME RequestInv, Faults PROVE RequestInv'
<1>0. TypeInv /\ TypeInv' /\ Known(page)
  BY FaultsTyped DEF RequestInv
<1>1. UNCHANGED <<page, replay, outbox, server, applied>>
  BY DEF Faults, BreakOff, Vanish, ServerError, LoseAnswer
<1> DEFINE SentBefore == \A m \in sent' : \E n \in sent : n.req = m.req
<1>2. SentBefore
  <2>1. ASSUME NEW m \in sent, BreakOff(m) PROVE SentBefore
    <3>1. [m EXCEPT !.by = "nobody"].req = m.req
      BY <1>0 DEF TypeInv
    <3> QED BY <2>1, <3>1 DEF BreakOff
  <2>2. ASSUME NEW m \in sent, Vanish(m) \/ ServerError(m) PROVE SentBefore
    BY <2>2 DEF Vanish, ServerError
  <2>3. ASSUME NEW a \in answers, LoseAnswer(a) PROVE SentBefore
    BY <2>3 DEF LoseAnswer
  <2> QED BY <2>1, <2>2, <2>3 DEF Faults
<1> DEFINE Late(a) == /\ a.result \in {"lost", "error"}
                      /\ \/ \E b \in answers : b.req = a.req
                         \/ \E m \in sent : m.req = a.req
           AnswersLate == \A a \in answers' : a \in answers \/ Late(a)
<1>3. AnswersLate
  <2>1. ASSUME NEW m \in sent, BreakOff(m) \/ ServerError(m) PROVE AnswersLate
    BY <2>1 DEF BreakOff, ServerError, Answer
  <2>2. ASSUME NEW m \in sent, Vanish(m) PROVE AnswersLate
    BY <2>2 DEF Vanish
  <2>3. ASSUME NEW a \in answers, LoseAnswer(a) PROVE AnswersLate
    <3>1. [a EXCEPT !.result = "lost"].result = "lost" /\ [a EXCEPT !.result = "lost"].req = a.req
      BY <1>0 DEF TypeInv
    <3> QED BY <2>3, <3>1 DEF LoseAnswer
  <2> QED BY <2>1, <2>2, <2>3 DEF Faults
<1>4. Carried' \subseteq Carried
  BY <1>1, <1>2, <1>3 DEF Carried, Flight, Kept
<1> QED BY <1>0, <1>1, <1>3, <1>4, QuietKeeps DEF Known

LEMMA UserKeeps == ASSUME RequestInv, User PROVE RequestInv'
<1>0. TypeInv /\ TypeInv' /\ Known(page) /\ Known(NoRequest)
  BY UserTyped, NoneKnown DEF RequestInv
<1>1. server.lease \in Nat /\ server.rev \in Nat
  BY <1>0 DEF TypeInv, Servers
<1>2. ASSUME (\E s \in Seg : EditSegment(s)) \/ KeepDraft \/ Submit PROVE RequestInv'
  <2>1. UNCHANGED <<replay, outbox, sent, answers, server, applied>>
    BY <1>2 DEF EditSegment, KeepDraft, Submit
  <2>2. /\ page'.lease = page.lease /\ page'.rev = page.rev
        /\ page'.pending = page.pending
        /\ page'.complete \in {page.complete, NoRequest}
    BY <1>0, <1>2 DEF EditSegment, KeepDraft, Submit, TypeInv, Pages
  <2>3. Carried' \subseteq Carried \cup {NoRequest}
    BY <2>1, <2>2 DEF Carried, Flight, Kept
  <2> QED BY <1>0, <2>1, <2>2, <2>3, QuietKeeps DEF Known
<1>3. ASSUME Open \/ Close \/ Online \/ Discard PROVE RequestInv'
  <2>1. /\ UNCHANGED <<server, applied>> /\ answers' \subseteq answers
        /\ sent' \in {sent, Forsaken}
        /\ outbox' \in {outbox, <<>>} /\ replay'.left \in {outbox, <<>>}
    <3>1. CASE Open \/ Online
      BY <1>3, <3>1 DEF Open, Online, Walk, NoReplay
    <3>2. CASE Close
      BY <3>2 DEF Close, NoReplay
    <3>3. CASE Discard
      BY <3>3 DEF Discard, Walk, NoReplay
    <3> QED BY <1>3, <3>1, <3>2, <3>3
  <2>2. /\ page'.lease \in {0, page.lease} /\ page'.rev \in {0, page.rev}
        /\ page'.complete \in {NoRequest, page.complete}
        /\ page'.pending \in {NoRequest, page.pending}
    BY <1>3 DEF Open, Close, Online, Discard, Opening, ClosedPage
  <2>3. Carried' \subseteq Carried \cup {NoRequest}
    BY <1>0, <2>1, <2>2, ForsakenReq, EmptyIn DEF Carried, Flight, Kept
  <2>4. page'.lease <= server.lease /\ page'.rev <= server.rev
    BY <1>0, <1>1, <2>2 DEF Known
  <2> QED BY <1>0, <2>1, <2>3, <2>4, QuietKeeps
<1>4. ASSUME Release PROVE RequestInv'
  <2>1. UNCHANGED <<page, replay, outbox, sent, answers, applied>>
    BY <1>4 DEF Release
  <2>2. /\ server'.lease = server.lease /\ server'.rev = server.rev
        /\ server'.stage = "pooled"
    BY <1>0, <1>4 DEF Release, TypeInv, Servers
  <2>3. Carried' = Carried
    BY <2>1 DEF Carried, Flight, Kept
  <2> QED BY <1>0, <1>1, <2>1, <2>2, <2>3, ServerKeeps DEF Known
<1>5. ASSUME ClaimHere \/ ClaimInOtherTab PROVE RequestInv'
  <2>1. UNCHANGED <<replay, outbox, sent, answers, applied>> /\ Reclaim
    BY <1>5 DEF ClaimHere, ClaimInOtherTab
  <2>2. /\ server'.lease = server.lease + 1 /\ server'.rev = server.rev
        /\ server.stage = "pooled"
    BY <1>0, <2>1 DEF Reclaim, TypeInv, Servers
  <2>3. page' \in {page, [LoadedPage EXCEPT !.lease = server.lease + 1]}
    BY <1>5 DEF ClaimHere, ClaimInOtherTab
  <2>4. [LoadedPage EXCEPT !.lease = server.lease + 1].lease = server.lease + 1
        /\ [LoadedPage EXCEPT !.lease = server.lease + 1].rev = server.rev
        /\ [LoadedPage EXCEPT !.lease = server.lease + 1].pending = NoRequest
        /\ [LoadedPage EXCEPT !.lease = server.lease + 1].complete = NoRequest
    BY DEF LoadedPage, ClosedPage
  <2>5. page.lease \in Nat
    BY <1>0 DEF TypeInv, Pages
  <2>6. page'.lease <= server'.lease /\ page'.rev <= server'.rev
    <3>1. CASE page' = page
      BY <1>0, <1>1, <2>2, <2>5, <3>1 DEF Known
    <3>2. CASE page' = [LoadedPage EXCEPT !.lease = server.lease + 1]
      <4>1. page'.lease = server.lease + 1 /\ page'.rev = server.rev
        BY <2>4, <3>2
      <4> QED BY <1>1, <2>2, <4>1
    <3> QED BY <2>3, <3>1, <3>2
  <2>7. Carried' \subseteq Carried \cup {NoRequest}
    BY <2>1, <2>3, <2>4 DEF Carried, Flight, Kept
  <2> QED BY <1>0, <1>1, <2>1, <2>2, <2>6, <2>7, ServerKeeps
<1>6. ASSUME NEW s \in Seg, EditElsewhere(s) PROVE RequestInv'
  <2>1. UNCHANGED <<page, replay, outbox, answers, applied>> /\ sent' = {}
    BY <1>6 DEF EditElsewhere
  <2>2. /\ server'.lease = server.lease /\ server'.rev = server.rev + 1
        /\ server'.stage = server.stage
    BY <1>0, <1>6 DEF EditElsewhere, TypeInv, Servers
  <2>3. Carried' \subseteq Carried
    BY <2>1 DEF Carried, Flight, Kept
  <2>4. page.rev \in Nat
    BY <1>0 DEF TypeInv, Pages
  <2>5. page'.lease <= server'.lease /\ page'.rev <= server'.rev
    BY <1>0, <1>1, <2>1, <2>2, <2>4 DEF Known
  <2> QED BY <1>0, <1>1, <2>1, <2>2, <2>3, <2>5, ServerKeeps
<1> QED BY <1>2, <1>3, <1>4, <1>5, <1>6 DEF User

LEMMA RequestStep == RequestInv /\ [Next]_vars => RequestInv'
<1> SUFFICES ASSUME RequestInv, [Next]_vars PROVE RequestInv'
  OBVIOUS
<1>1. CASE Next
  BY <1>1, AutosaveKeeps, HandInKeeps, WalkingKeeps, ServeKeeps, FaultsKeep, UserKeeps
     DEF Next, Serving
<1>2. CASE UNCHANGED vars
  <2>1. TypeInv'
    BY <1>2, TypeStep DEF RequestInv
  <2>2. Carried' = Carried
    BY <1>2 DEF vars, Carried, Flight, Kept
  <2> QED BY <1>2, <2>1, <2>2, QuietKeeps DEF vars, RequestInv, Known
<1> QED BY <1>1, <1>2

\* Requests are known to the server, and what it answered of them stays true.
THEOREM RequestInvHolds == Spec => []RequestInv
BY RequestInit, RequestStep, PTL DEF Spec

\* An applied request is never refused, a refused one never applied later: the
\* replay of operations comes before the checks of lease and revision, and what
\* fails those once fails them for ever.
THEOREM NoSecondOpinionHolds == Spec => []NoSecondOpinion
<1>1. RequestInv => NoSecondOpinion
  BY DEF RequestInv, RefusedIsDead, NoSecondOpinion
<1> QED BY <1>1, RequestInvHolds, PTL

-----------------------------------------------------------------------------
(* Nothing is taken for saved that is not: the inductive invariant         *)

\* From here on the outbox is walked through when the page is opened, and not
\* while the user works on it (ASSUME MaxOnline = 0 in the lemmas).

\* Of the lease and the revision that the server has.
Current(x) == x.lease = server.lease /\ x.rev = server.rev

\* d are the segments in which x is ahead of the server; elsewhere it is equal.
Exact(x, d) ==
    \A s \in Seg : /\ s \in d => x.text[s] > server.text[s]
                   /\ s \notin d => x.text[s] = server.text[s]

\* Saves that are, or may come to be, in the outbox: when one is confirmed it
\* is booked in the working draft.
Booked ==
    {r \in Kept \cup {m.req : m \in {n \in sent : n.by \in {"save", "replay"}}}
             \cup {a.req : a \in {b \in answers : b.by \in {"save", "replay"}}}
             \cup (IF page.save = "confirm" THEN {page.batch} ELSE {}) :
        r.kind = "save"}

\* The next save to be applied, or the last that was.
Recent(r) == Current(r) \/ (r \in applied /\ r.rev + 1 = server.rev)

\* x, with the unsaved segments d, holds all that r holds: booking r as saved
\* leaves exactly the newer edits unsaved.
Covers(x, d, r) ==
    \A s \in Seg :
        /\ s \in d => \/ x.text[s] > r.text[s]
                      \/ s \in r.dirty /\ x.text[s] = r.text[s]
        /\ s \notin d => x.text[s] = r.text[s]

TextBound(x) == \A s \in Seg : x.text[s] <= used.edits

CarriedOk ==
    \A r \in Carried :
        /\ TextBound(r)
        /\ Current(r) => IF r.kind = "save" THEN Exact(r, r.dirty)
                         ELSE r.text = server.text

AppliedOk ==
    \A r \in applied :
        /\ \A s \in r.dirty : r.text[s] <= server.text[s]
        /\ r.rev + 1 = server.rev => r.text = server.text
        /\ r.kind = "complete" => server.stage = "done"

\* The page, against the server and against every save that may be booked.
PageOk ==
    /\ TextBound(page)
    /\ Current(page) => Exact(page, Unconfirmed)
    /\ Working => \A r \in Booked : r.lease <= page.lease /\ r.rev <= page.rev
    /\ (Working /\ ~ page.conflict /\ page.lease = server.lease) =>
          \A r \in Booked : Recent(r) => Covers(page, Unconfirmed, r)

\* A working draft d, in the same way; while a save can still take effect, the
\* draft has it as unsaved, and a page that is opened starts from the draft.
DraftOk(d) ==
    /\ Known(d) /\ TextBound(d)
    /\ d.dirty # {} => d.status = "dirty"
    /\ Current(d) => Exact(d, d.dirty)
    /\ d.lease = server.lease =>
          \A r \in Booked : Recent(r) => Covers(d, d.dirty, r)
    /\ server.stage # "done" =>
          \A r \in Booked : Current(r) => d.lease = server.lease /\ r.dirty \subseteq d.dirty

\* The save under way, taken from the page and overtaken by later edits only.
PendingOk ==
    page.pending # NoRequest =>
        /\ page.pending.kind = "save" /\ page.pending.dirty # {}
        /\ page.pending.lease = page.lease /\ page.pending.rev = page.rev
        /\ \A s \in Seg : /\ s \in page.dirty => page.text[s] > page.pending.text[s]
                          /\ s \notin page.dirty => page.text[s] = page.pending.text[s]

\* Between the writing of the draft and that of the outbox.
PostingOk ==
    page.save = "post" =>
        /\ draft.lease = page.lease /\ page.pending.dirty \subseteq draft.dirty
        /\ Covers(draft, draft.dirty, page.pending)

\* What is in the database, on the page and on its way fits together.
ContentInv ==
    /\ TextBound(server)
    /\ CarriedOk /\ AppliedOk /\ PageOk /\ DraftOk(draft)
    /\ PendingOk /\ PostingOk
    /\ \A r \in Booked : r.dirty # {}

\* Where the page's coroutines can be.
ShapeInv ==
    /\ server.lease >= 1
    /\ replay.stage # "no" => page.mode = "opening"
    /\ page.mode # "work" =>
         page.pending = NoRequest /\ page.save = "no" /\ page.submit = "no"
    /\ page.conflict => page.blocked /\ page.save = "no" /\ page.submit = "no"
    /\ page.submit \in {"store", "post", "wait", "again", "confirm"} =>
         /\ page.save = "no" /\ page.pending = NoRequest /\ page.dirty = {}
         /\ page.complete.kind = "complete"
    /\ page.submit = "confirm" => server.stage = "done"
    /\ page.save \in {"store", "post", "wait"} => page.pending # NoRequest
    /\ page.save = "confirm" => page.batch \in applied /\ page.batch.kind = "save"
    /\ page.complete = NoRequest \/ page.complete.kind = "complete"

\* Only the save under way has a request or an answer that the page waits for.
ChannelInv ==
    /\ page.save # "wait" => \A x \in sent \cup answers : x.by # "save"
    /\ \A x \in sent \cup answers :
          /\ x.by = "save" => x.req = page.pending
          /\ x.by = "submit" => x.req.kind = "complete"
    /\ \A x, y \in sent \cup answers : x.by = "save" /\ y.by = "save" => x = y

OpenedInv == RequestInv /\ ShapeInv /\ ChannelInv /\ ContentInv

LEMMA ContentTyped ==
    ASSUME TypeInv
    PROVE  /\ page.text \in Texts /\ draft.text \in Texts /\ server.text \in Texts
           /\ page.dirty \subseteq Seg /\ draft.dirty \subseteq Seg /\ Unconfirmed \subseteq Seg
           /\ page.lease \in Nat /\ page.rev \in Nat /\ draft.lease \in Nat /\ draft.rev \in Nat
           /\ server.lease \in Nat /\ server.rev \in Nat /\ used.edits \in Nat
           /\ page.pending \in Requests /\ page.complete \in Requests /\ page.batch \in Requests
BY PersistedTyped DEF TypeInv, Pages, Drafts, Servers, Uses

LEMMA RequestTyped ==
    ASSUME NEW r \in Requests
    PROVE  /\ r.text \in Texts /\ r.dirty \subseteq Seg
           /\ r.lease \in Nat /\ r.rev \in Nat /\ r.kind \in {"save", "complete"}
BY DEF Requests

LEMMA BookedTyped == ASSUME TypeInv PROVE Booked \subseteq Requests
<1>1. Kept \subseteq Requests
  BY CarriedTyped DEF Carried
<1>2. page.batch \in Requests
  BY DEF TypeInv, Pages
<1> QED BY <1>1, <1>2 DEF Booked, TypeInv

LEMMA BookedKnown ==
    ASSUME RequestInv, ShapeInv, NEW r \in Booked
    PROVE  /\ Known(r) /\ r.kind = "save"
           /\ Current(r) => r \in Carried
<1>1. r \in Carried \/ (r \in applied /\ r.kind = "save")
  BY DEF Booked, Carried, Flight, ShapeInv
<1>2. server.lease \in Nat /\ server.rev \in Nat /\ r.lease \in Nat /\ r.rev \in Nat
  BY ContentTyped, BookedTyped, RequestTyped DEF RequestInv
<1>3. CASE r \in Carried
  BY <1>3 DEF RequestInv, CarriedKnown, Booked
<1>4. CASE r \in applied /\ r.kind = "save"
  BY <1>2, <1>4 DEF RequestInv, AppliedBefore, Known, Current
<1> QED BY <1>1, <1>3, <1>4

\* A save that can still take effect is unsaved on a working page.
LEMMA CurrentUnsaved ==
    ASSUME OpenedInv, Working, ~ page.conflict, NEW r \in Booked, Current(r)
    PROVE  /\ page.lease = server.lease /\ page.rev = server.rev
           /\ r.dirty \subseteq Unconfirmed
<1>0. TypeInv /\ Known(page) /\ r \in Requests /\ r \in Carried /\ r.kind = "save"
  BY BookedTyped, BookedKnown DEF OpenedInv, RequestInv
<1>1. page.lease = server.lease /\ page.rev = server.rev
  <2>1. r.lease <= page.lease /\ r.rev <= page.rev
    BY DEF OpenedInv, ContentInv, PageOk
  <2> QED BY <1>0, <2>1, ContentTyped DEF Known, Current
<1>2. Exact(page, Unconfirmed) /\ Covers(page, Unconfirmed, r) /\ Exact(r, r.dirty)
  BY <1>0, <1>1 DEF OpenedInv, ContentInv, PageOk, CarriedOk, Current, Recent
<1>3. ASSUME NEW s \in r.dirty PROVE s \in Unconfirmed
  <2>1. s \in Seg /\ r.text[s] \in Nat /\ server.text[s] \in Nat
    BY <1>0, RequestTyped, ContentTyped DEF Texts
  <2>2. r.text[s] > server.text[s]
    BY <1>2, <2>1 DEF Exact
  <2>3. s \notin Unconfirmed => page.text[s] = server.text[s] /\ page.text[s] = r.text[s]
    BY <1>2, <2>1 DEF Exact, Covers
  <2> QED BY <2>1, <2>2, <2>3
<1> QED BY <1>1, <1>3

LEMMA PersistedOk ==
    ASSUME OpenedInv, Working, ~ page.conflict
    PROVE  /\ DraftOk(Persisted)
           /\ page.pending # NoRequest =>
                /\ Persisted.lease = page.lease
                /\ page.pending.dirty \subseteq Persisted.dirty
                /\ Covers(Persisted, Persisted.dirty, page.pending)
<1> DEFINE P == Persisted
<1>0. /\ P.lease = page.lease /\ P.rev = page.rev /\ P.text = page.text
      /\ P.dirty = Unconfirmed /\ (P.dirty # {} => P.status = "dirty")
  BY DEF Persisted
<1> HIDE DEF P
<1>1. Known(P) /\ TextBound(P)
  BY <1>0 DEF OpenedInv, RequestInv, ContentInv, PageOk, Known, TextBound
<1>2. Current(P) => Exact(P, P.dirty)
  BY <1>0 DEF OpenedInv, ContentInv, PageOk, Current, Exact
<1>3. P.lease = server.lease => \A r \in Booked : Recent(r) => Covers(P, P.dirty, r)
  BY <1>0 DEF OpenedInv, ContentInv, PageOk, Covers
<1>4. \A r \in Booked : Current(r) => P.lease = server.lease /\ r.dirty \subseteq P.dirty
  BY <1>0, CurrentUnsaved
<1>5. ASSUME page.pending # NoRequest
      PROVE  /\ page.pending.dirty \subseteq P.dirty
             /\ Covers(P, P.dirty, page.pending)
  <2>1. Unconfirmed = page.dirty \cup page.pending.dirty
    BY DEF Unconfirmed
  <2>2. \A s \in Seg : /\ s \in page.dirty => page.text[s] > page.pending.text[s]
                       /\ s \notin page.dirty => page.text[s] = page.pending.text[s]
    BY <1>5 DEF OpenedInv, ContentInv, PendingOk
  <2> QED BY <1>0, <2>1, <2>2 DEF Covers
<1>6. DraftOk(P)
  BY <1>0, <1>1, <1>2, <1>3, <1>4 DEF DraftOk
<1> QED BY <1>0, <1>5, <1>6 DEF P

\* A step that changes neither the server nor what the page shows, but may
\* write it into the draft.
LEMMA StillKeeps ==
    ASSUME OpenedInv, RequestInv',
           server' = server, applied' = applied, used'.edits = used.edits,
           Carried' \subseteq Carried, Booked' \subseteq Booked,
           page'.lease = page.lease, page'.rev = page.rev, page'.text = page.text,
           page'.dirty = page.dirty, page'.pending = page.pending,
           page'.mode = page.mode \/ page'.mode # "work",
           page.conflict => page'.conflict,
           draft' = draft \/ (draft' = Persisted /\ Working /\ ~ page.conflict),
           page'.save = "post" =>
              \/ page.save = "post"
              \/ /\ draft' = Persisted /\ Working /\ ~ page.conflict
                 /\ page.pending # NoRequest
    PROVE  ContentInv'
<1>0. ContentInv /\ RequestInv
  BY DEF OpenedInv
<1>1. Unconfirmed' = Unconfirmed
  BY DEF Unconfirmed
<1>2. TextBound(server)' /\ CarriedOk' /\ AppliedOk' /\ PendingOk'
  <2>1. TextBound(server)' /\ AppliedOk' /\ PendingOk'
    BY <1>0 DEF ContentInv, TextBound, AppliedOk, PendingOk
  <2>2. CarriedOk'
    BY <1>0 DEF ContentInv, CarriedOk, TextBound, Current, Exact
  <2> QED BY <2>1, <2>2
<1>3. \A r \in Booked' : r \in Booked /\ r.dirty # {}
  BY <1>0 DEF ContentInv
<1>4. PageOk'
  BY <1>0, <1>1, <1>3
     DEF ContentInv, PageOk, TextBound, Current, Exact, Working, Recent, Covers
<1>5. DraftOk(draft') /\ (page'.save = "post" =>
        /\ draft'.lease = page.lease /\ page.pending.dirty \subseteq draft'.dirty
        /\ Covers(draft', draft'.dirty, page.pending))
  <2>1. CASE draft' = draft
    <3>1. page'.save = "post" => page.save = "post" \/ (Working /\ ~ page.conflict
                                       /\ draft = Persisted /\ page.pending # NoRequest)
      BY <2>1
    <3> QED BY <2>1, <3>1, <1>0, PersistedOk DEF ContentInv, PostingOk
  <2>2. CASE draft' = Persisted /\ Working /\ ~ page.conflict
    <3>1. page'.save = "post" => page.pending # NoRequest
      BY DEF OpenedInv, ShapeInv
    <3> QED BY <2>2, <3>1, PersistedOk
  <2> QED BY <2>1, <2>2
<1>6. DraftOk(draft)'
  BY <1>3, <1>5 DEF DraftOk, Known, TextBound, Current, Exact, Recent, Covers
<1>7. PostingOk'
  BY <1>5 DEF PostingOk, Covers
<1> QED BY <1>2, <1>3, <1>4, <1>6, <1>7 DEF ContentInv

\* The page is left, or opened: it holds nothing yet.
LEMMA BlankKeeps ==
    ASSUME OpenedInv, RequestInv',
           server' = server, applied' = applied, used'.edits = used.edits,
           Carried' \subseteq Carried \cup {NoRequest}, Booked' \subseteq Booked,
           page'.lease = 0, page'.text = [s \in Seg |-> 0], page'.pending = NoRequest,
           page'.mode # "work", page'.save = "no",
           \/ draft' = draft
           \/ draft' = NoDraft /\ (server.stage = "done" \/ Booked' = {})
    PROVE  ContentInv'
<1>0. ContentInv /\ TypeInv /\ server.lease >= 1
  BY DEF OpenedInv, RequestInv, ShapeInv
<1>1. server.lease \in Nat /\ server.rev \in Nat /\ used.edits \in Nat
  BY <1>0, ContentTyped
<1>2. TextBound(server)' /\ AppliedOk' /\ PendingOk' /\ PostingOk'
  BY <1>0 DEF ContentInv, TextBound, AppliedOk, PendingOk, PostingOk
<1>3. CarriedOk'
  <2>1. /\ \A r \in Carried : TextBound(r)' = TextBound(r) /\ Current(r)' = Current(r)
                                /\ Exact(r, r.dirty)' = Exact(r, r.dirty)
    BY DEF TextBound, Current, Exact
  <2>2. TextBound(NoRequest)' /\ ~ Current(NoRequest)'
    BY <1>0, <1>1 DEF TextBound, Current, NoRequest
  <2> QED BY <1>0, <2>1, <2>2 DEF ContentInv, CarriedOk
<1>4. PageOk'
  BY <1>0, <1>1 DEF PageOk, TextBound, Current, Working
<1>5. DraftOk(draft)'
  <2>1. CASE draft' = draft
    BY <1>0, <2>1 DEF ContentInv, DraftOk, Known, TextBound, Current, Exact, Recent, Covers
  <2>2. CASE draft' = NoDraft /\ (server.stage = "done" \/ Booked' = {})
    <3>1. /\ draft'.lease = 0 /\ draft'.rev = 0 /\ draft'.dirty = {}
          /\ draft'.text = [s \in Seg |-> 0]
      BY <2>2 DEF NoDraft
    <3> QED BY <1>0, <1>1, <2>2, <3>1 DEF DraftOk, Known, TextBound, Current
  <2> QED BY <2>1, <2>2
<1>6. \A r \in Booked' : r.dirty # {}
  BY <1>0 DEF ContentInv
<1> QED BY <1>2, <1>3, <1>4, <1>5, <1>6 DEF ContentInv

\* A save that is booked is behind the server nowhere, if it is a recent one.
LEMMA RecentAhead ==
    ASSUME OpenedInv, NEW r \in Booked, Recent(r), NEW s \in Seg
    PROVE  /\ r.text[s] \in Nat /\ server.text[s] \in Nat
           /\ r.text[s] >= server.text[s]
           /\ Current(r) /\ s \in r.dirty => r.text[s] > server.text[s]
<1>0. TypeInv /\ r \in Requests /\ r.kind = "save" /\ (Current(r) => r \in Carried)
  BY BookedTyped, BookedKnown DEF OpenedInv, RequestInv
<1>1. r.text[s] \in Nat /\ server.text[s] \in Nat
  BY <1>0, RequestTyped, ContentTyped DEF Texts
<1>2. Current(r) => Exact(r, r.dirty)
  BY <1>0 DEF OpenedInv, ContentInv, CarriedOk
<1>3. ~ Current(r) => r.text = server.text
  BY DEF Recent, OpenedInv, ContentInv, AppliedOk
<1> QED BY <1>1, <1>2, <1>3 DEF Exact

\* Booking an applied save in the draft.
LEMMA ConfirmOk ==
    ASSUME OpenedInv, RequestInv', NEW r \in applied,
           r \in Booked \/ r.kind = "complete", Confirm(r),
           server' = server, applied' = applied, used'.edits = used.edits,
           Booked' \subseteq Booked
    PROVE  DraftOk(draft)'
<1>0. /\ TypeInv /\ RequestInv /\ ContentInv /\ server.lease >= 1
      /\ DraftOk(draft)
  BY DEF OpenedInv, RequestInv, ShapeInv, ContentInv
<1>1. /\ server.lease \in Nat /\ server.rev \in Nat /\ used.edits \in Nat
      /\ r \in Requests /\ r.rev \in Nat /\ draft.text \in Texts /\ draft.dirty \subseteq Seg
  BY <1>0, ContentTyped, RequestTyped DEF TypeInv
<1>2. CASE draft' = draft
  BY <1>0, <1>2 DEF DraftOk, Known, TextBound, Current, Exact, Recent, Covers
<1>3. CASE draft' = NoDraft /\ r.kind = "complete"
  <2>1. /\ draft'.lease = 0 /\ draft'.rev = 0 /\ draft'.dirty = {}
        /\ draft'.text = [s \in Seg |-> 0]
    BY <1>3 DEF NoDraft
  <2>2. server.stage = "done"
    BY <1>0, <1>3 DEF ContentInv, AppliedOk
  <2> QED BY <1>0, <1>1, <2>1, <2>2 DEF DraftOk, Known, TextBound, Current
<1>4. CASE /\ r.kind # "complete"
           /\ draft' = [draft EXCEPT !.rev = NewRevision(r), !.dirty = Cleared(r),
                           !.status = IF Cleared(r) = {} THEN "clean" ELSE "dirty"]
  <2>1. /\ draft'.lease = draft.lease /\ draft'.rev = r.rev + 1 /\ draft'.text = draft.text
        /\ draft'.dirty = Cleared(r) /\ (Cleared(r) # {} => draft'.status = "dirty")
    BY <1>0, <1>4 DEF TypeInv, Drafts, NewRevision
  <2>2. r \in Booked /\ r.rev < server.rev /\ r.lease <= server.lease
    BY <1>0, <1>4 DEF RequestInv, AppliedBefore
  <2>3. \A s \in Seg : s \in Cleared(r) <=>
           s \in draft.dirty /\ ~ (s \in r.dirty /\ draft.text[s] = r.text[s])
    BY <1>1 DEF Cleared
  <2>4. Known(draft)' /\ TextBound(draft)'
    BY <1>0, <1>1, <2>1, <2>2 DEF DraftOk, Known, TextBound
  <2>5. ASSUME NEW q \in Booked, Recent(q), draft.lease = server.lease,
               NEW s \in draft.dirty, s \in r.dirty, draft.text[s] = r.text[s]
        PROVE  draft.text[s] = q.text[s] /\ (Current(q) => s \notin q.dirty)
    <3>1. s \in Seg /\ draft.text[s] \in Nat
      BY <1>1 DEF Texts
    <3>2. /\ q.text[s] \in Nat /\ server.text[s] \in Nat /\ q.text[s] >= server.text[s]
          /\ Current(q) /\ s \in q.dirty => q.text[s] > server.text[s]
      BY <2>5, <3>1, RecentAhead
    <3>3. r.text[s] <= server.text[s]
      BY <1>0, <2>5 DEF ContentInv, AppliedOk
    <3>4. draft.text[s] >= q.text[s]
      <4>1. Covers(draft, draft.dirty, q)
        BY <1>0, <2>5 DEF DraftOk
      <4> QED BY <2>5, <3>1, <3>2, <4>1 DEF Covers
    <3> QED BY <2>5, <3>1, <3>2, <3>3, <3>4
  <2>6. Current(draft)' => Exact(draft, draft.dirty)'
    <3> SUFFICES ASSUME draft.lease = server.lease, r.rev + 1 = server.rev, NEW s \in Seg
                 PROVE  /\ s \in Cleared(r) => draft.text[s] > server.text[s]
                        /\ s \notin Cleared(r) => draft.text[s] = server.text[s]
      BY <2>1 DEF Current, Exact
    <3>1. Covers(draft, draft.dirty, r) /\ r.text = server.text
      BY <1>0, <2>2 DEF DraftOk, Recent, ContentInv, AppliedOk
    <3> QED BY <2>3, <3>1 DEF Covers
  <2>7. ASSUME draft.lease = server.lease, NEW q \in Booked, Recent(q)
        PROVE  Covers(draft', Cleared(r), q)
    <3>1. Covers(draft, draft.dirty, q)
      BY <1>0, <2>7 DEF DraftOk
    <3> SUFFICES ASSUME NEW s \in Seg
                 PROVE  /\ s \in Cleared(r) =>
                              \/ draft.text[s] > q.text[s]
                              \/ s \in q.dirty /\ draft.text[s] = q.text[s]
                        /\ s \notin Cleared(r) => draft.text[s] = q.text[s]
      BY <2>1 DEF Covers
    <3>2. CASE s \in Cleared(r)
      BY <2>3, <3>1, <3>2 DEF Covers
    <3>3. CASE s \notin draft.dirty
      BY <2>3, <3>1, <3>3 DEF Covers
    <3>4. CASE s \in draft.dirty /\ s \notin Cleared(r)
      BY <2>3, <2>5, <2>7, <3>4
    <3> QED BY <3>2, <3>3, <3>4
  <2>8. ASSUME server.stage # "done", NEW q \in Booked, Current(q)
        PROVE  draft.lease = server.lease /\ q.dirty \subseteq Cleared(r)
    <3>1. draft.lease = server.lease /\ q.dirty \subseteq draft.dirty
      BY <1>0, <2>8 DEF DraftOk
    <3>2. ASSUME NEW s \in q.dirty PROVE s \in Cleared(r)
      <4>1. s \in draft.dirty /\ s \in Seg
        BY <1>1, <3>1
      <4>2. ~ (s \in r.dirty /\ draft.text[s] = r.text[s])
        BY <2>5, <2>8, <3>1, <4>1 DEF Recent
      <4> QED BY <2>3, <4>1, <4>2
    <3> QED BY <3>1, <3>2
  <2>9. \A q : Recent(q)' = Recent(q) /\ Current(q)' = Current(q)
    BY DEF Recent, Current
  <2> QED BY <2>1, <2>4, <2>6, <2>7, <2>8, <2>9 DEF DraftOk
<1> QED BY <1>2, <1>3, <1>4 DEF Confirm, Terminal

\* ... while the page shows what it showed.
LEMMA ConfirmKeeps ==
    ASSUME OpenedInv, RequestInv', NEW r \in applied,
           r \in Booked \/ r.kind = "complete", Confirm(r),
           server' = server, applied' = applied, used'.edits = used.edits,
           Carried' \subseteq Carried, Booked' \subseteq Booked,
           page'.lease = page.lease, page'.rev = page.rev, page'.text = page.text,
           page'.dirty = page.dirty, page'.pending = page.pending,
           page'.mode = page.mode, page'.conflict = page.conflict, page'.save # "post"
    PROVE  ContentInv'
<1>0. ContentInv
  BY DEF OpenedInv
<1>1. Unconfirmed' = Unconfirmed
  BY DEF Unconfirmed
<1>2. TextBound(server)' /\ CarriedOk' /\ AppliedOk' /\ PendingOk' /\ PostingOk'
  <2>1. TextBound(server)' /\ AppliedOk' /\ PendingOk' /\ PostingOk'
    BY <1>0 DEF ContentInv, TextBound, AppliedOk, PendingOk, PostingOk
  <2>2. CarriedOk'
    BY <1>0 DEF ContentInv, CarriedOk, TextBound, Current, Exact
  <2> QED BY <2>1, <2>2
<1>3. PageOk'
  BY <1>0, <1>1
     DEF ContentInv, PageOk, TextBound, Current, Exact, Working, Recent, Covers
<1>4. DraftOk(draft)'
  BY ConfirmOk
<1> QED BY <1>0, <1>2, <1>3, <1>4 DEF ContentInv

\* The task is loaded, with the working draft or without.
LEMMA LoadKeeps ==
    ASSUME OpenedInv, RequestInv',
           server' = server, applied' = applied, used'.edits = used.edits,
           draft' = draft, server.stage = "held", page' = RestoredPage,
           Carried' \subseteq Carried \cup {NoRequest}, Booked' \subseteq Booked
    PROVE  ContentInv'
<1>0. /\ TypeInv /\ RequestInv /\ ContentInv /\ server.lease >= 1 /\ ShapeInv
      /\ DraftOk(draft)
  BY DEF OpenedInv, RequestInv, ShapeInv, ContentInv
<1>1. /\ server.lease \in Nat /\ server.rev \in Nat /\ used.edits \in Nat
      /\ server.text \in Texts /\ draft.text \in Texts
  BY <1>0, ContentTyped
<1>2. /\ page'.lease = server.lease /\ page'.rev = server.rev
      /\ page'.pending = NoRequest /\ page'.save = "no"
  <2>1. LoadedPage.save = "no" /\ LoadedPage \in Pages
    BY LoadedTyped, <1>0 DEF LoadedPage, ClosedPage
  <2> QED BY <1>0, <2>1, LoadedKnown DEF RestoredPage, Pages
<1>3. Unconfirmed' = page'.dirty
  BY <1>2 DEF Unconfirmed, NoRequest
<1>4. LoadedPage.text = server.text /\ LoadedPage.dirty = {} /\ LoadedPage \in Pages
  BY <1>0, LoadedTyped DEF LoadedPage, ClosedPage
<1>5. \/ page'.text = server.text /\ page'.dirty = {} /\ draft.status = "clean"
      \/ /\ page'.text = draft.text /\ page'.dirty = draft.dirty
         /\ Current(draft)
      \/ page'.text = server.text /\ page'.dirty = {} /\ page'.conflict
  <2>1. CASE draft.status = "clean"
    BY <1>4, <2>1 DEF RestoredPage
  <2>2. CASE draft.status # "clean" /\ draft.lease = server.lease /\ draft.rev = server.rev
    BY <1>4, <2>2 DEF RestoredPage, Pages, Current
  <2>3. CASE draft.status # "clean" /\ ~ (draft.lease = server.lease /\ draft.rev = server.rev)
    BY <1>4, <2>3 DEF RestoredPage, Pages
  <2> QED BY <2>1, <2>2, <2>3
<1>6. TextBound(server)' /\ AppliedOk' /\ PendingOk' /\ PostingOk' /\ DraftOk(draft)'
  <2>1. TextBound(server)' /\ AppliedOk' /\ PendingOk' /\ PostingOk'
    BY <1>0, <1>2 DEF ContentInv, TextBound, AppliedOk, PendingOk, PostingOk
  <2>2. DraftOk(draft)'
    BY <1>0 DEF DraftOk, Known, TextBound, Current, Exact, Recent, Covers
  <2> QED BY <2>1, <2>2
<1>7. CarriedOk'
  <2>1. /\ \A r \in Carried : TextBound(r)' = TextBound(r) /\ Current(r)' = Current(r)
                                /\ Exact(r, r.dirty)' = Exact(r, r.dirty)
    BY DEF TextBound, Current, Exact
  <2>2. TextBound(NoRequest)' /\ ~ Current(NoRequest)'
    BY <1>0, <1>1 DEF TextBound, Current, NoRequest
  <2> QED BY <1>0, <2>1, <2>2 DEF ContentInv, CarriedOk
<1>8. PageOk'
  <2>1. TextBound(page)'
    BY <1>0, <1>5 DEF ContentInv, DraftOk, TextBound
  <2>2. Exact(page', page'.dirty)
    BY <1>0, <1>5 DEF DraftOk, Exact
  <2>3. \A r \in Booked : r.lease <= page'.lease /\ r.rev <= page'.rev
    BY <1>0, <1>2, BookedKnown DEF Known
  <2>4. ASSUME ~ page'.conflict, NEW r \in Booked, Recent(r)
        PROVE  Covers(page', page'.dirty, r)
    <3>1. CASE page'.text = draft.text /\ page'.dirty = draft.dirty /\ Current(draft)
      BY <1>0, <2>4, <3>1 DEF DraftOk, Covers, Current
    <3>2. CASE page'.text = server.text /\ page'.dirty = {} /\ draft.status = "clean"
      <4>1. draft.dirty = {}
        BY <1>0, <3>2 DEF DraftOk
      <4>2. ~ Current(r)
        BY <1>0, <4>1 DEF DraftOk, ContentInv
      <4>3. r.text = server.text
        BY <1>0, <2>4, <4>2 DEF Recent, ContentInv, AppliedOk
      <4> QED BY <3>2, <4>3 DEF Covers
    <3> QED BY <1>5, <2>4, <3>1, <3>2
  <2>5. \A r : Recent(r)' = Recent(r)
    BY DEF Recent, Current
  <2> QED BY <1>3, <2>1, <2>2, <2>3, <2>4, <2>5 DEF PageOk, Exact, Covers
<1> QED BY <1>0, <1>6, <1>7, <1>8 DEF ContentInv

\* An edit gets a number that nothing else has yet.
LEMMA EditKeeps ==
    ASSUME OpenedInv, RequestInv', NEW s \in Seg, EditSegment(s)
    PROVE  ContentInv'
<1>0. TypeInv /\ RequestInv /\ ContentInv /\ ShapeInv /\ DraftOk(draft) /\ PageOk
  BY DEF OpenedInv, RequestInv, ContentInv
<1>1. /\ server.text \in Texts /\ page.text \in Texts /\ draft.text \in Texts
      /\ used.edits \in Nat /\ page.pending \in Requests /\ Unconfirmed \subseteq Seg
  BY <1>0, ContentTyped
<1>2. /\ UNCHANGED <<replay, draft, outbox, sent, answers, server, applied>>
      /\ used'.edits = used.edits + 1
  BY <1>0 DEF EditSegment, TypeInv, Uses
<1>3. /\ page'.lease = page.lease /\ page'.rev = page.rev
      /\ page'.text = [page.text EXCEPT ![s] = used.edits + 1]
      /\ page'.dirty = page.dirty \cup {s} /\ page'.pending = page.pending
      /\ page'.complete = NoRequest /\ page'.mode = page.mode
      /\ page'.conflict = page.conflict /\ page'.save = page.save
      /\ page'.batch = page.batch
  BY <1>0 DEF EditSegment, TypeInv, Pages
<1>4. /\ page'.text[s] = used.edits + 1
      /\ \A t \in Seg \ {s} : page'.text[t] = page.text[t]
  BY <1>1, <1>3 DEF Texts
<1>5. Unconfirmed' = Unconfirmed \cup {s} /\ Booked' = Booked
      /\ Carried' \subseteq Carried \cup {NoRequest}
  BY <1>2, <1>3 DEF Unconfirmed, Booked, Carried, Flight, Kept
<1>6. \A x : /\ Current(x)' = Current(x) /\ Recent(x)' = Recent(x)
             /\ Known(x)' = Known(x)
  BY <1>2 DEF Current, Recent, Known
<1>7. \A x : x.text \in Texts /\ TextBound(x) => TextBound(x)'
  BY <1>1, <1>2 DEF TextBound, Texts
<1>8. TextBound(server)' /\ AppliedOk'
  BY <1>0, <1>1, <1>2, <1>7 DEF ContentInv, AppliedOk
<1>9. CarriedOk'
  <2>1. TextBound(NoRequest)' /\ ~ Current(NoRequest)
    BY <1>1, <1>2, <1>0, ContentTyped DEF TextBound, Current, NoRequest, ShapeInv
  <2>2. \A r \in Carried : TextBound(r)'
    BY <1>0, <1>7, CarriedTyped, RequestTyped DEF ContentInv, CarriedOk
  <2> QED BY <1>0, <1>2, <1>5, <1>6, <2>1, <2>2 DEF ContentInv, CarriedOk, Exact
<1>10. ASSUME NEW r \in Booked, Recent(r) PROVE r.text[s] \in Nat /\ r.text[s] <= used.edits
  <2>1. r \in Requests /\ (Current(r) => r \in Carried)
    BY <1>0, BookedTyped, BookedKnown
  <2>2. r.text[s] \in Nat
    BY <2>1, RequestTyped DEF Texts
  <2>3. CASE Current(r)
    BY <1>0, <2>1, <2>2, <2>3 DEF ContentInv, CarriedOk, TextBound
  <2>4. CASE ~ Current(r)
    BY <1>0, <1>10, <2>2, <2>4 DEF Recent, ContentInv, AppliedOk, TextBound
  <2> QED BY <2>3, <2>4
<1>11. PageOk'
  <2>1. TextBound(page)'
    BY <1>0, <1>1, <1>2, <1>4 DEF PageOk, TextBound, Texts
  <2>2. Current(page) => Exact(page, Unconfirmed)'
    <3> SUFFICES ASSUME Current(page), NEW t \in Seg
                 PROVE  /\ t \in Unconfirmed' => page'.text[t] > server.text[t]
                        /\ t \notin Unconfirmed' => page'.text[t] = server.text[t]
      BY <1>2 DEF Exact
    <3>1. CASE t = s
      <4>1. server.text[s] \in Nat /\ server.text[s] <= used.edits
        BY <1>0, <1>1 DEF ContentInv, TextBound, Texts
      <4> QED BY <1>1, <1>4, <1>5, <3>1, <4>1
    <3>2. CASE t # s
      BY <1>0, <1>4, <1>5, <3>2 DEF PageOk, Exact
    <3> QED BY <3>1, <3>2
  <2>3. ASSUME NEW r \in Booked, Recent(r), Covers(page, Unconfirmed, r)
        PROVE  Covers(page', Unconfirmed', r)
    <3> SUFFICES ASSUME NEW t \in Seg
                 PROVE  /\ t \in Unconfirmed' =>
                             \/ page'.text[t] > r.text[t]
                             \/ t \in r.dirty /\ page'.text[t] = r.text[t]
                        /\ t \notin Unconfirmed' => page'.text[t] = r.text[t]
      BY DEF Covers
    <3>1. CASE t = s
      BY <1>1, <1>4, <1>5, <1>10, <2>3, <3>1
    <3>2. CASE t # s
      BY <1>4, <1>5, <2>3, <3>2 DEF Covers
    <3> QED BY <3>1, <3>2
  <2>4. Current(page)' = Current(page)
    BY <1>2, <1>3 DEF Current
  <2> QED BY <1>0, <1>2, <1>3, <1>5, <1>6, <2>1, <2>2, <2>3, <2>4 DEF PageOk, Working, Covers
<1>12. DraftOk(draft)'
  BY <1>0, <1>1, <1>2, <1>5, <1>6, <1>7 DEF DraftOk, Current, Exact, Covers, Known
<1>13. PendingOk'
  <2> SUFFICES ASSUME page.pending # NoRequest, NEW t \in Seg
               PROVE  /\ t \in page'.dirty => page'.text[t] > page.pending.text[t]
                      /\ t \notin page'.dirty => page'.text[t] = page.pending.text[t]
    BY <1>0, <1>3 DEF ContentInv, PendingOk
  <2>1. page.pending.text[s] \in Nat /\ page.pending.text[s] <= used.edits
    BY <1>0, <1>1, RequestTyped DEF Texts, ContentInv, CarriedOk, Carried, TextBound
  <2>2. CASE t = s
    BY <1>1, <1>3, <1>4, <2>1, <2>2
  <2>3. CASE t # s
    BY <1>0, <1>3, <1>4, <2>3 DEF ContentInv, PendingOk
  <2> QED BY <2>2, <2>3
<1>14. PostingOk'
  BY <1>0, <1>2, <1>3 DEF ContentInv, PostingOk, Covers
<1> QED BY <1>0, <1>5, <1>8, <1>9, <1>11, <1>12, <1>13, <1>14 DEF ContentInv

\* A save takes what is dirty; that stays unconfirmed.
LEMMA CaptureKeeps ==
    ASSUME OpenedInv, RequestInv', StartSave, page.pending = NoRequest
    PROVE  ContentInv'
<1>0. TypeInv /\ RequestInv /\ ContentInv /\ ShapeInv /\ DraftOk(draft) /\ PageOk
  BY DEF OpenedInv, RequestInv, ContentInv
<1>1. /\ UNCHANGED <<replay, draft, outbox, sent, answers, server, applied>>
      /\ used'.edits = used.edits
  BY <1>0 DEF StartSave, TypeInv, Uses
<1>2. /\ page'.lease = page.lease /\ page'.rev = page.rev /\ page'.text = page.text
      /\ page'.dirty = {} /\ page'.pending = Captured /\ page'.mode = page.mode
      /\ page'.conflict = page.conflict /\ page'.complete = page.complete
      /\ page'.save = "store" /\ page.save = "no"
  BY <1>0 DEF StartSave, TypeInv, Pages
<1>3. /\ Captured.lease = page.lease /\ Captured.rev = page.rev /\ Captured.kind = "save"
      /\ Captured.text = page.text /\ Captured.dirty = page.dirty
  BY DEF Captured
<1> HIDE DEF Captured
<1>4. page.dirty # {}
  BY DEF StartSave, SaveNeeded
<1>5. Unconfirmed = page.dirty /\ Unconfirmed' = Unconfirmed
  BY <1>2, <1>3 DEF Unconfirmed, NoRequest
<1>6. Booked' = Booked /\ Carried' \subseteq Carried \cup {Captured}
  BY <1>1, <1>2 DEF Booked, Carried, Flight, Kept
<1>7. CarriedOk'
  <2>1. TextBound(Captured) /\ (Current(Captured) => Exact(Captured, Captured.dirty))
    BY <1>0, <1>3, <1>5 DEF PageOk, TextBound, Current, Exact
  <2> QED BY <1>0, <1>1, <1>3, <1>6, <2>1 DEF ContentInv, CarriedOk, TextBound, Current, Exact
<1>8. PageOk'
  BY <1>0, <1>1, <1>2, <1>5, <1>6
     DEF PageOk, TextBound, Current, Exact, Working, Recent, Covers
<1>9. PendingOk'
  BY <1>2, <1>3, <1>4 DEF PendingOk
<1>10. TextBound(server)' /\ AppliedOk' /\ DraftOk(draft)' /\ PostingOk'
  <2>1. TextBound(server)' /\ AppliedOk' /\ PostingOk'
    BY <1>0, <1>1, <1>2 DEF ContentInv, TextBound, AppliedOk, PostingOk
  <2>2. DraftOk(draft)'
    BY <1>0, <1>1, <1>6 DEF DraftOk, Known, TextBound, Current, Exact, Recent, Covers
  <2> QED BY <2>1, <2>2
<1> QED BY <1>0, <1>6, <1>7, <1>8, <1>9, <1>10 DEF ContentInv

\* What is handed in is what the server has, when nothing is unconfirmed.
LEMMA CompleteKeeps ==
    ASSUME OpenedInv, RequestInv', BuildCompletion,
           page'.complete = Completion, page.complete = NoRequest, ~ page.blocked,
           page' = [page EXCEPT !.submit = "store", !.complete = Completion],
           used' = [used EXCEPT !.ops = @ + 1]
    PROVE  ContentInv'
<1>0. TypeInv /\ RequestInv /\ ContentInv /\ ShapeInv /\ DraftOk(draft) /\ PageOk
  BY DEF OpenedInv, RequestInv, ContentInv
<1>1. /\ UNCHANGED <<replay, draft, outbox, sent, answers, server, applied>>
      /\ used'.edits = used.edits
  BY <1>0 DEF BuildCompletion, TypeInv, Uses
<1>2. /\ page'.lease = page.lease /\ page'.rev = page.rev /\ page'.text = page.text
      /\ page'.dirty = page.dirty /\ page'.pending = page.pending /\ page'.mode = page.mode
      /\ page'.conflict = page.conflict /\ page'.save = page.save
      /\ page'.batch = page.batch
  BY <1>0 DEF TypeInv, Pages
<1>3. page.dirty = {} /\ page.pending = NoRequest /\ Unconfirmed = {}
  <2>1. page.mode = "work"
    BY <1>0 DEF ShapeInv, BuildCompletion
  <2> QED BY <2>1 DEF BuildCompletion, SaveNeeded, Working, Unconfirmed, NoRequest
<1>4. /\ Completion.lease = page.lease /\ Completion.rev = page.rev
      /\ Completion.kind = "complete" /\ Completion.text = page.text
  BY DEF Completion
<1> HIDE DEF Completion
<1>5. Unconfirmed' = Unconfirmed /\ Booked' = Booked
      /\ Carried' \subseteq Carried \cup {Completion}
  BY <1>1, <1>2 DEF Unconfirmed, Booked, Carried, Flight, Kept
<1>6. Current(page) => page.text = server.text
  <2>1. page.text \in Texts /\ server.text \in Texts
    BY <1>0, ContentTyped
  <2> QED BY <1>0, <1>3, <2>1 DEF PageOk, Exact, Texts
<1>7. CarriedOk'
  <2>1. TextBound(Completion) /\ (Current(Completion) => Completion.text = server.text)
    BY <1>0, <1>4, <1>6 DEF PageOk, TextBound, Current
  <2> QED BY <1>0, <1>1, <1>4, <1>5, <2>1 DEF ContentInv, CarriedOk, TextBound, Current, Exact
<1>8. PageOk'
  BY <1>0, <1>1, <1>2, <1>5
     DEF PageOk, TextBound, Current, Exact, Working, Recent, Covers
<1>9. TextBound(server)' /\ AppliedOk' /\ DraftOk(draft)' /\ PendingOk' /\ PostingOk'
  <2>1. TextBound(server)' /\ AppliedOk' /\ PendingOk' /\ PostingOk'
    BY <1>0, <1>1, <1>2 DEF ContentInv, TextBound, AppliedOk, PendingOk, PostingOk, Covers
  <2>2. DraftOk(draft)'
    BY <1>0, <1>1, <1>5 DEF DraftOk, Known, TextBound, Current, Exact, Recent, Covers
  <2> QED BY <2>1, <2>2
<1> QED BY <1>0, <1>5, <1>7, <1>8, <1>9 DEF ContentInv

\* The save under way comes into the outbox: the draft has it already.
LEMMA PostKeeps ==
    ASSUME OpenedInv, RequestInv', PostSave
    PROVE  ContentInv'
<1> DEFINE r == page.pending
<1>0. /\ TypeInv /\ RequestInv /\ ContentInv /\ ShapeInv /\ DraftOk(draft) /\ PageOk
      /\ r \in Requests /\ Known(page)
  BY ContentTyped DEF OpenedInv, RequestInv, ContentInv
<1>1. UNCHANGED <<replay, draft, answers, server, applied, used>>
  BY DEF PostSave
<1>2. /\ page'.lease = page.lease /\ page'.rev = page.rev /\ page'.text = page.text
      /\ page'.dirty = page.dirty /\ page'.pending = page.pending /\ page'.mode = page.mode
      /\ page'.conflict = page.conflict /\ page'.complete = page.complete
      /\ page'.save = "wait" /\ page.save = "post"
  BY <1>0 DEF PostSave, TypeInv, Pages
<1>3. /\ r # NoRequest /\ page.mode = "work" /\ ~ page.conflict
      /\ r.kind = "save" /\ r.dirty # {} /\ r.lease = page.lease /\ r.rev = page.rev
  BY <1>0, <1>2 DEF ShapeInv, ContentInv, PendingOk
<1>4. /\ draft.lease = page.lease /\ r.dirty \subseteq draft.dirty
      /\ Covers(draft, draft.dirty, r)
  BY <1>0, <1>2 DEF ContentInv, PostingOk
<1>5. Covers(page, Unconfirmed, r)
  BY <1>0, <1>3 DEF ContentInv, PendingOk, Unconfirmed, Covers
<1>6. In(outbox') \subseteq In(outbox) \cup {r}
  BY <1>0, PutOutboxIn DEF PostSave
<1>7. sent' = sent \cup {[req |-> r, by |-> "save"]}
  BY DEF PostSave, Send
<1>8. Unconfirmed' = Unconfirmed /\ Carried' \subseteq Carried /\ Booked' \subseteq Booked \cup {r}
  BY <1>1, <1>2, <1>6, <1>7 DEF Unconfirmed, Booked, Carried, Flight, Kept
<1>9. \A x : /\ Current(x)' = Current(x) /\ Recent(x)' = Recent(x)
             /\ Known(x)' = Known(x) /\ TextBound(x)' = TextBound(x)
  BY <1>1 DEF Current, Recent, Known, TextBound
<1>10. TextBound(server)' /\ CarriedOk' /\ AppliedOk' /\ PendingOk' /\ PostingOk'
  <2>1. TextBound(server)' /\ AppliedOk' /\ PendingOk' /\ PostingOk'
    BY <1>0, <1>1, <1>2 DEF ContentInv, TextBound, AppliedOk, PendingOk, PostingOk
  <2>2. CarriedOk'
    BY <1>0, <1>1, <1>8 DEF ContentInv, CarriedOk, TextBound, Current, Exact
  <2> QED BY <2>1, <2>2
<1>11. PageOk'
  <2>1. r.lease <= page.lease /\ r.rev <= page.rev
    BY <1>3, <1>0, ContentTyped
  <2> QED BY <1>0, <1>1, <1>2, <1>5, <1>8, <1>9, <2>1
          DEF PageOk, Working, TextBound, Current, Exact, Covers
<1>12. DraftOk(draft)'
  <2>1. \A q \in Booked' : Current(q) /\ server.stage # "done" =>
            draft.lease = server.lease /\ q.dirty \subseteq draft.dirty
    BY <1>0, <1>3, <1>4, <1>8 DEF DraftOk, Current
  <2>2. draft.lease = server.lease =>
            \A q \in Booked' : Recent(q) => Covers(draft, draft.dirty, q)
    BY <1>0, <1>4, <1>8 DEF DraftOk
  <2> QED BY <1>0, <1>1, <1>9, <2>1, <2>2 DEF DraftOk, Exact, Covers, Known, TextBound, Current
<1> QED BY <1>0, <1>3, <1>8, <1>10, <1>11, <1>12 DEF ContentInv

\* A save is answered: what was captured is the server's, as far as nobody has
\* gone on from there, and what was edited since is not.
LEMMA SavedKeeps ==
    ASSUME OpenedInv, RequestInv', NEW a \in answers, SaveAnswered(a), a.result = "ok"
    PROVE  ContentInv'
<1> DEFINE r == page.pending
<1>0. /\ TypeInv /\ RequestInv /\ ContentInv /\ ShapeInv /\ DraftOk(draft) /\ PageOk
      /\ r \in Requests
  BY ContentTyped DEF OpenedInv, RequestInv, ContentInv
<1>1. /\ UNCHANGED <<replay, outbox, sent, server, applied, used, draft>>
      /\ answers' = answers \ {a} /\ a.by = "save" /\ page.save = "wait"
  BY DEF SaveAnswered, Conflicting
<1>2. a.req = r /\ r \in applied /\ r # NoRequest /\ page.mode = "work" /\ ~ page.conflict
  BY <1>0, <1>1 DEF OpenedInv, ChannelInv, RequestInv, OkIsApplied, ShapeInv
<1>3. /\ page'.lease = page.lease /\ page'.rev = r.rev + 1 /\ page'.text = page.text
      /\ page'.dirty = page.dirty /\ page'.pending = NoRequest /\ page'.mode = page.mode
      /\ page'.conflict = page.conflict /\ page'.complete = page.complete
      /\ page'.save = "confirm" /\ page'.batch = r
  <2>1. page' = Saved(r)
    BY <1>1, <1>2 DEF SaveAnswered, Conflicting
  <2> QED BY <1>0, <2>1 DEF Saved, NewRevision, TypeInv, Pages
<1>4. /\ r.kind = "save" /\ r.lease = page.lease /\ r.rev = page.rev
      /\ \A s \in Seg : /\ s \in page.dirty => page.text[s] > r.text[s]
                        /\ s \notin page.dirty => page.text[s] = r.text[s]
  BY <1>0, <1>2 DEF ContentInv, PendingOk
<1>5. /\ r \in Booked
      /\ Carried' \subseteq Carried \cup {NoRequest} /\ Booked' \subseteq Booked
  <2>1. r \in Booked
    BY <1>1, <1>2, <1>4 DEF Booked
  <2> QED BY <1>1, <1>3, <2>1 DEF Booked, Carried, Flight, Kept
<1>6. Unconfirmed' = page.dirty /\ Unconfirmed = page.dirty \cup r.dirty
  BY <1>3 DEF Unconfirmed, NoRequest
<1>7. \A x : /\ Current(x)' = Current(x) /\ Recent(x)' = Recent(x)
             /\ Known(x)' = Known(x) /\ TextBound(x)' = TextBound(x)
  BY <1>1 DEF Current, Recent, Known, TextBound
<1>8. TextBound(server)' /\ AppliedOk' /\ PendingOk' /\ PostingOk' /\ DraftOk(draft)'
  <2>1. TextBound(server)' /\ AppliedOk' /\ PendingOk' /\ PostingOk'
    BY <1>0, <1>1, <1>3 DEF ContentInv, TextBound, AppliedOk, PendingOk, PostingOk
  <2>2. DraftOk(draft)'
    BY <1>0, <1>1, <1>5 DEF DraftOk, Known, TextBound, Current, Exact, Recent, Covers
  <2> QED BY <2>1, <2>2
<1>9. CarriedOk'
  <2>1. TextBound(NoRequest)' /\ ~ Current(NoRequest)'
    BY <1>0, <1>1, ContentTyped DEF TextBound, Current, NoRequest, ShapeInv
  <2> QED BY <1>0, <1>1, <1>5, <2>1 DEF ContentInv, CarriedOk, TextBound, Current, Exact
<1>10. page'.lease = server.lease /\ r.rev + 1 = server.rev => Exact(page', page.dirty)
  <2>1. r.rev + 1 = server.rev => r.text = server.text
    BY <1>0, <1>2 DEF ContentInv, AppliedOk
  <2> QED BY <1>3, <1>4, <2>1 DEF Exact
<1>11. \A q \in Booked : q.lease <= page'.lease /\ q.rev <= page'.rev
  <2> SUFFICES ASSUME NEW q \in Booked PROVE q.lease <= page.lease /\ q.rev <= r.rev + 1
    BY <1>3
  <2>1. q.lease <= page.lease /\ q.rev <= page.rev
    BY <1>0, <1>2 DEF PageOk, Working
  <2>2. q.rev \in Nat /\ page.rev \in Nat
    BY <1>0, BookedTyped, RequestTyped, ContentTyped
  <2> QED BY <1>4, <2>1, <2>2
<1>12. ASSUME page.lease = server.lease, NEW q \in Booked, Recent(q)
       PROVE  Covers(page', page.dirty, q)
  <2>1. Covers(page, Unconfirmed, q)
    BY <1>0, <1>2, <1>12 DEF PageOk, Working
  <2> SUFFICES ASSUME NEW s \in Seg, s \in r.dirty, s \notin page.dirty
               PROVE  page.text[s] = q.text[s]
    BY <1>3, <1>6, <2>1 DEF Covers
  <2>2. /\ q.text[s] \in Nat /\ server.text[s] \in Nat /\ page.text[s] \in Nat
        /\ q.text[s] >= server.text[s]
    BY <1>0, <1>12, RecentAhead, ContentTyped DEF Texts
  <2>3. page.text[s] >= q.text[s]
    BY <1>6, <2>1, <2>2 DEF Covers
  <2>4. page.text[s] = r.text[s] /\ r.text[s] <= server.text[s]
    BY <1>0, <1>2, <1>4 DEF ContentInv, AppliedOk
  <2> QED BY <2>2, <2>3, <2>4
<1>13. PageOk'
  <2>1. TextBound(page)'
    BY <1>0, <1>1, <1>3 DEF PageOk, TextBound
  <2>2. Current(page)' => Exact(page, Unconfirmed)'
    BY <1>1, <1>3, <1>6, <1>10 DEF Current, Exact
  <2>3. (page'.lease = server'.lease) =>
           \A q \in Booked' : Recent(q)' => Covers(page, Unconfirmed, q)'
    BY <1>1, <1>3, <1>5, <1>6, <1>7, <1>12 DEF Covers
  <2> QED BY <1>5, <1>11, <2>1, <2>2, <2>3 DEF PageOk
<1> QED BY <1>0, <1>5, <1>8, <1>9, <1>13 DEF ContentInv

\* The request that is applied becomes the last that was.
LEMMA ApplyKeeps ==
    ASSUME OpenedInv, RequestInv', NEW m \in sent, Serve(m),
           Accepted(m.req), Apply(m.req)
    PROVE  /\ ContentInv'
           /\ server.stage = "held" /\ server'.lease = server.lease
           /\ server'.text \in Texts /\ \A s \in Seg : server'.text[s] >= server.text[s]
<1> DEFINE r == m.req
<1>0. /\ TypeInv /\ RequestInv /\ ContentInv /\ ShapeInv /\ DraftOk(draft) /\ PageOk
      /\ r \in Requests /\ r \in Carried
  BY DEF OpenedInv, RequestInv, ContentInv, TypeInv, Carried, Flight
<1>1. UNCHANGED <<page, replay, draft, outbox, used>> /\ sent' \subseteq sent
  BY DEF Serve
<1>2. server.stage = "held" /\ Current(r) /\ Recent(r)
  BY DEF Accepted, RevisionMatches, Current, Recent
<1>3. server.lease \in Nat /\ server.rev \in Nat /\ server.text \in Texts /\ r.text \in Texts
  BY <1>0, ContentTyped, RequestTyped
<1>4. TextBound(r) /\ (IF r.kind = "save" THEN Exact(r, r.dirty) ELSE r.text = server.text)
  BY <1>0, <1>2 DEF ContentInv, CarriedOk
<1>5. Merged(r) = r.text /\ \A s \in Seg : r.text[s] >= server.text[s]
  <2>1. \A s \in Seg : /\ r.text[s] >= server.text[s]
                       /\ s \notin r.dirty => r.text[s] = server.text[s]
    BY <1>3, <1>4 DEF Exact, Texts
  <2>2. r.text = [s \in Seg |-> r.text[s]]
    BY <1>3 DEF Texts
  <2>3. Merged(r) = [s \in Seg |-> r.text[s]]
    BY <2>1 DEF Merged
  <2> QED BY <2>1, <2>2, <2>3
<1>6. /\ server'.lease = server.lease /\ server'.rev = server.rev + 1
      /\ server'.text = r.text /\ server'.stage = (IF Terminal(r) THEN "done" ELSE "held")
      /\ applied' = applied \cup {r}
  BY <1>0, <1>2, <1>5 DEF Apply, NewRevision, Current, TypeInv, Servers
<1>7. \A x \in answers' : x \in answers \/ (x.req = r /\ x.by = m.by)
  BY <1>0 DEF Serve, Answer
<1>8. Carried' \subseteq Carried /\ Booked' \subseteq Booked
  <2>1. Carried' \subseteq Carried
    BY <1>0, <1>1, <1>7 DEF Carried, Flight, Kept
  <2>2. Booked' \subseteq Booked
    BY <1>1, <1>7 DEF Booked, Kept
  <2> QED BY <2>1, <2>2
<1>9. \A q \in Carried \cup Booked \cup {page, draft} : q.rev <= server.rev /\ q.rev \in Nat
  BY <1>0, BookedKnown, BookedTyped, CarriedTyped, RequestTyped, ContentTyped
     DEF RequestInv, CarriedKnown, Known, DraftOk
<1>10. \A q \in Carried \cup Booked \cup {page, draft} : ~ (q.rev = server'.rev)
  BY <1>3, <1>6, <1>9
<1>11. ASSUME NEW q \in applied', q.rev + 1 = server'.rev PROVE q = r
  <2>1. q \in applied => q.rev < server.rev /\ q.rev \in Nat
    BY <1>0, RequestTyped DEF RequestInv, AppliedBefore, TypeInv
  <2> QED BY <1>3, <1>6, <1>11, <2>1
<1>12. TextBound(server)'
  BY <1>1, <1>4, <1>6 DEF TextBound
<1>13. CarriedOk'
  <2>1. \A q \in Carried : TextBound(q)' /\ ~ Current(q)'
    BY <1>0, <1>1, <1>10 DEF ContentInv, CarriedOk, TextBound, Current
  <2> QED BY <1>8, <2>1 DEF CarriedOk
<1>14. AppliedOk'
  <2> SUFFICES ASSUME NEW q \in applied'
               PROVE  /\ \A s \in q.dirty : q.text[s] <= server'.text[s]
                      /\ q.rev + 1 = server'.rev => q.text = server'.text
                      /\ q.kind = "complete" => server'.stage = "done"
    BY DEF AppliedOk
  <2>1. q \in Requests /\ q.text \in Texts /\ q.dirty \subseteq Seg
    BY <1>0, <1>6, RequestTyped DEF TypeInv
  <2>2. CASE q = r
    BY <1>3, <1>6, <2>1, <2>2 DEF Texts, Terminal
  <2>3. CASE q \in applied
    <3>1. \A s \in q.dirty : q.text[s] <= server.text[s]
      BY <1>0, <2>3 DEF ContentInv, AppliedOk
    <3>2. \A s \in q.dirty : q.text[s] <= server'.text[s]
      BY <1>3, <1>5, <1>6, <2>1, <3>1 DEF Texts
    <3>3. q.kind # "complete"
      BY <1>0, <1>2, <2>3 DEF ContentInv, AppliedOk
    <3> QED BY <1>6, <1>11, <3>2, <3>3
  <2> QED BY <1>6, <2>2, <2>3
<1>15. ASSUME NEW q \in Booked, Recent(q)' PROVE q = r
  BY <1>10, <1>11, <1>15 DEF Recent, Current
<1>16. Unconfirmed' = Unconfirmed
  BY <1>1 DEF Unconfirmed
<1>17. PageOk'
  <2>1. TextBound(page)' /\ ~ Current(page)'
    BY <1>0, <1>1, <1>10 DEF PageOk, TextBound, Current
  <2> QED BY <1>0, <1>1, <1>2, <1>6, <1>8, <1>15, <1>16, <2>1 DEF PageOk, Working, Covers
<1>18. DraftOk(draft)'
  <2>1. TextBound(draft)' /\ Known(draft)' /\ ~ Current(draft)'
    BY <1>0, <1>1, <1>3, <1>6, <1>9, <1>10 DEF DraftOk, TextBound, Known, Current
  <2>2. \A q \in Booked' : ~ Current(q)'
    BY <1>8, <1>10 DEF Current
  <2> QED BY <1>0, <1>1, <1>2, <1>6, <1>8, <1>15, <2>1, <2>2 DEF DraftOk, Covers
<1>19. PendingOk' /\ PostingOk'
  BY <1>0, <1>1 DEF ContentInv, PendingOk, PostingOk, Covers
<1>20. \A q \in Booked' : q.dirty # {}
  BY <1>0, <1>8 DEF ContentInv
<1>21. ContentInv'
  BY <1>12, <1>13, <1>14, <1>17, <1>18, <1>19, <1>20 DEF ContentInv
<1> QED BY <1>2, <1>3, <1>5, <1>6, <1>21

\* The assignment ends.
LEMMA ReleaseKeeps ==
    ASSUME OpenedInv, RequestInv', Release
    PROVE  ContentInv'
<1>0. TypeInv /\ RequestInv /\ ContentInv /\ DraftOk(draft) /\ PageOk
  BY DEF OpenedInv, RequestInv, ContentInv
<1>1. UNCHANGED <<page, replay, draft, outbox, sent, answers, applied, used>>
  BY DEF Release
<1>2. /\ server'.lease = server.lease /\ server'.rev = server.rev
      /\ server'.text = server.text /\ server'.stage = "pooled" /\ server.stage = "held"
  BY <1>0 DEF Release, TypeInv, Servers
<1>3. Unconfirmed' = Unconfirmed /\ Carried' = Carried /\ Booked' = Booked
  BY <1>1 DEF Unconfirmed, Booked, Carried, Flight, Kept
<1>4. \A x : /\ Current(x)' = Current(x) /\ Recent(x)' = Recent(x)
             /\ Known(x)' = Known(x) /\ TextBound(x)' = TextBound(x)
  BY <1>1, <1>2 DEF Current, Recent, Known, TextBound
<1>5. TextBound(server)' /\ PendingOk' /\ PostingOk'
  BY <1>0, <1>1, <1>2 DEF ContentInv, TextBound, PendingOk, PostingOk, Covers
<1>6. CarriedOk' /\ AppliedOk'
  <2>1. CarriedOk'
    BY <1>0, <1>2, <1>3, <1>4 DEF ContentInv, CarriedOk, Exact
  <2>2. AppliedOk'
    BY <1>0, <1>1, <1>2 DEF ContentInv, AppliedOk
  <2> QED BY <2>1, <2>2
<1>7. PageOk'
  BY <1>0, <1>1, <1>2, <1>3, <1>4 DEF PageOk, TextBound, Current, Exact, Working, Covers
<1>8. DraftOk(draft)'
  BY <1>0, <1>1, <1>2, <1>3, <1>4 DEF DraftOk, TextBound, Current, Exact, Known, Covers
<1> QED BY <1>0, <1>3, <1>5, <1>6, <1>7, <1>8 DEF ContentInv

\* A new lease, which nothing was made under.
LEMMA ClaimKeeps ==
    ASSUME OpenedInv, RequestInv', ClaimHere \/ ClaimInOtherTab
    PROVE  ContentInv'
<1>0. TypeInv /\ RequestInv /\ ContentInv /\ ShapeInv /\ DraftOk(draft) /\ PageOk /\ Known(page)
  BY DEF OpenedInv, RequestInv, ContentInv
<1>1. UNCHANGED <<replay, draft, outbox, sent, answers, applied, used>> /\ Reclaim
  BY DEF ClaimHere, ClaimInOtherTab
<1>2. /\ server'.lease = server.lease + 1 /\ server'.rev = server.rev
      /\ server'.text = server.text /\ server.stage = "pooled"
  BY <1>0, <1>1 DEF Reclaim, TypeInv, Servers
<1>3. /\ server.lease \in Nat /\ server.rev \in Nat /\ used.edits \in Nat
      /\ page.lease \in Nat /\ draft.lease \in Nat
  BY <1>0, ContentTyped
<1>4. \/ page' = page
      \/ /\ page'.lease = server.lease + 1 /\ page'.rev = server.rev
         /\ page'.text = server.text /\ page'.dirty = {} /\ page'.pending = NoRequest
         /\ page'.complete = NoRequest /\ page'.save = "no"
  <2>1. CASE ClaimHere
    BY <1>0, <2>1, LoadedTyped DEF ClaimHere, LoadedPage, ClosedPage, Pages
  <2>2. CASE ClaimInOtherTab
    BY <2>2 DEF ClaimInOtherTab
  <2> QED BY <2>1, <2>2
<1>5. Carried' \subseteq Carried \cup {NoRequest} /\ Booked' \subseteq Booked
  BY <1>1, <1>4 DEF Booked, Carried, Flight, Kept
<1>6. \A q \in Carried \cup Booked \cup {NoRequest} :
          q.lease <= server.lease /\ q.rev <= server.rev /\ q.lease \in Nat
  BY <1>0, BookedKnown, BookedTyped, CarriedTyped, RequestTyped, NoneTyped, NoneKnown
     DEF RequestInv, CarriedKnown, Known
<1>7. \A q \in Carried \cup Booked \cup {NoRequest} : ~ Current(q)'
  BY <1>2, <1>3, <1>6 DEF Current
<1>8. \A q \in Booked : Recent(q)' => Recent(q) /\ q.text = server.text
  BY <1>0, <1>1, <1>2, <1>7 DEF Recent, ContentInv, AppliedOk
<1>9. TextBound(server)' /\ PendingOk' /\ PostingOk'
  <2>1. TextBound(server)'
    BY <1>0, <1>1, <1>2 DEF ContentInv, TextBound
  <2>2. PendingOk' /\ PostingOk'
    BY <1>0, <1>1, <1>4 DEF ContentInv, PendingOk, PostingOk, Covers
  <2> QED BY <2>1, <2>2
<1>10. CarriedOk'
  <2>1. \A q \in Carried \cup {NoRequest} : TextBound(q)'
    BY <1>0, <1>1, <1>3 DEF ContentInv, CarriedOk, TextBound, NoRequest
  <2> QED BY <1>5, <1>7, <2>1 DEF CarriedOk
<1>11. AppliedOk'
  BY <1>0, <1>1, <1>2 DEF ContentInv, AppliedOk
<1>12. DraftOk(draft)'
  <2>1. Known(draft)' /\ TextBound(draft)' /\ draft.lease # server'.lease
    BY <1>0, <1>1, <1>2, <1>3 DEF DraftOk, Known, TextBound
  <2> QED BY <1>0, <1>1, <1>5, <1>7, <2>1 DEF DraftOk, Current
<1>13. PageOk'
  <2>1. CASE page' = page
    <3>1. page.lease # server'.lease
      BY <1>0, <1>2, <1>3 DEF Known
    <3> QED BY <1>0, <1>1, <1>5, <2>1, <3>1 DEF PageOk, TextBound, Current, Working
  <2>2. CASE /\ page'.lease = server.lease + 1 /\ page'.rev = server.rev
             /\ page'.text = server.text /\ page'.dirty = {} /\ page'.pending = NoRequest
    <3>1. Unconfirmed' = {}
      BY <2>2 DEF Unconfirmed, NoRequest
    <3>2. TextBound(page)' /\ Exact(page, Unconfirmed)'
      BY <1>0, <1>1, <1>2, <2>2, <3>1 DEF ContentInv, TextBound, Exact
    <3>3. \A q \in Booked' : q.lease <= page'.lease /\ q.rev <= page'.rev
      BY <1>3, <1>5, <1>6, <2>2
    <3>4. \A q \in Booked' : Recent(q)' => Covers(page, Unconfirmed, q)'
      BY <1>5, <1>8, <2>2, <3>1 DEF Covers
    <3> QED BY <3>2, <3>3, <3>4 DEF PageOk
  <2> QED BY <1>4, <2>1, <2>2
<1>14. \A q \in Booked' : q.dirty # {}
  BY <1>0, <1>5 DEF ContentInv
<1> QED BY <1>9, <1>10, <1>11, <1>12, <1>13, <1>14 DEF ContentInv

\* Work done elsewhere, while this browser's page is closed.
LEMMA ElsewhereKeeps ==
    ASSUME OpenedInv, RequestInv', NEW s \in Seg, EditElsewhere(s)
    PROVE  /\ ContentInv'
           /\ server.stage = "held" /\ server'.stage = "held"
           /\ server'.text \in Texts /\ \A t \in Seg : server'.text[t] >= server.text[t]
<1>0. TypeInv /\ RequestInv /\ ContentInv /\ ShapeInv /\ DraftOk(draft) /\ PageOk /\ Known(page)
  BY DEF OpenedInv, RequestInv, ContentInv
<1>1. /\ UNCHANGED <<page, replay, draft, outbox, answers, applied>> /\ sent' = {}
      /\ page.mode = "closed" /\ used'.edits = used.edits + 1 /\ server.stage = "held"
  BY <1>0 DEF EditElsewhere, TypeInv, Uses
<1>2. /\ server'.lease = server.lease /\ server'.rev = server.rev + 1
      /\ server'.text = [server.text EXCEPT ![s] = used.edits + 1]
      /\ server'.stage = server.stage
  BY <1>0 DEF EditElsewhere, TypeInv, Servers
<1>3. /\ server.lease \in Nat /\ server.rev \in Nat /\ used.edits \in Nat
      /\ server.text \in Texts /\ page.text \in Texts /\ draft.text \in Texts
      /\ page.lease \in Nat /\ draft.lease \in Nat /\ page.rev \in Nat /\ draft.rev \in Nat
  BY <1>0, ContentTyped
<1>4. /\ server'.text \in Texts
      /\ \A t \in Seg : /\ server'.text[t] >= server.text[t]
                        /\ server'.text[t] <= used.edits + 1
  BY <1>0, <1>2, <1>3 DEF ContentInv, TextBound, Texts
<1>5. Carried' \subseteq Carried /\ Booked' \subseteq Booked
  BY <1>1 DEF Booked, Carried, Flight, Kept
<1>6. \A q \in Carried \cup Booked \cup {page, draft} : q.rev <= server.rev /\ q.rev \in Nat
  BY <1>0, <1>3, BookedKnown, BookedTyped, CarriedTyped, RequestTyped
     DEF RequestInv, CarriedKnown, Known, DraftOk
<1>7. \A q \in Carried \cup Booked \cup {page, draft} : ~ (q.rev = server'.rev)
  BY <1>2, <1>3, <1>6
<1>8. \A q \in applied : q.rev + 1 # server'.rev
  <2>1. \A q \in applied : q.rev < server.rev /\ q.rev \in Nat
    BY <1>0, RequestTyped DEF RequestInv, AppliedBefore, TypeInv
  <2> QED BY <1>2, <1>3, <2>1
<1>9. \A x : x.text \in Texts /\ TextBound(x) => TextBound(x)'
  BY <1>1, <1>3 DEF TextBound, Texts
<1>10. TextBound(server)' /\ PendingOk' /\ PostingOk'
  <2>1. TextBound(server)'
    BY <1>1, <1>4 DEF TextBound
  <2>2. PendingOk' /\ PostingOk'
    BY <1>0, <1>1 DEF ContentInv, PendingOk, PostingOk, Covers
  <2> QED BY <2>1, <2>2
<1>11. CarriedOk'
  <2>1. \A q \in Carried : TextBound(q)' /\ ~ Current(q)'
    BY <1>0, <1>7, <1>9, CarriedTyped, RequestTyped DEF ContentInv, CarriedOk, Current
  <2> QED BY <1>5, <2>1 DEF CarriedOk
<1>12. AppliedOk'
  <2> SUFFICES ASSUME NEW q \in applied
               PROVE  /\ \A t \in q.dirty : q.text[t] <= server'.text[t]
                      /\ q.kind = "complete" => server'.stage = "done"
    BY <1>1, <1>8 DEF AppliedOk
  <2>1. q.text \in Texts /\ q.dirty \subseteq Seg
    BY <1>0, RequestTyped DEF TypeInv
  <2>2. \A t \in q.dirty : q.text[t] <= server.text[t]
    BY <1>0 DEF ContentInv, AppliedOk
  <2>3. \A t \in q.dirty : q.text[t] <= server'.text[t]
    BY <1>3, <1>4, <2>1, <2>2 DEF Texts
  <2> QED BY <1>0, <1>2, <2>3 DEF ContentInv, AppliedOk
<1>13. PageOk'
  <2>1. TextBound(page)' /\ ~ Current(page)' /\ ~ Working'
    BY <1>0, <1>1, <1>3, <1>7, <1>9 DEF PageOk, Current, Working
  <2> QED BY <2>1 DEF PageOk
<1>14. DraftOk(draft)'
  <2>1. TextBound(draft)' /\ Known(draft)' /\ ~ Current(draft)'
    <3>1. TextBound(draft)'
      BY <1>0, <1>1, <1>3, <1>9 DEF DraftOk
    <3>2. Known(draft)'
      BY <1>0, <1>1, <1>2, <1>3 DEF DraftOk, Known
    <3> QED BY <1>1, <1>7, <3>1, <3>2 DEF Current
  <2>2. \A q \in Booked' : ~ Current(q)' /\ ~ Recent(q)'
    BY <1>1, <1>5, <1>7, <1>8 DEF Current, Recent
  <2> QED BY <1>0, <1>1, <2>1, <2>2 DEF DraftOk
<1>15. \A q \in Booked' : q.dirty # {}
  BY <1>0, <1>5 DEF ContentInv
<1>16. ContentInv'
  BY <1>10, <1>11, <1>12, <1>13, <1>14, <1>15 DEF ContentInv
<1> QED BY <1>1, <1>2, <1>4, <1>16

-----------------------------------------------------------------------------
(* Requests and answers on their way                                       *)

NoSaves == \A x \in sent \cup answers : x.by # "save"

LEMMA Apart == ASSUME TypeInv PROVE sent \cap answers = {}
<1>1. \A x \in sent : DOMAIN x = {"req", "by"}
  BY DEF TypeInv
<1>2. \A x \in answers : DOMAIN x = {"req", "by", "result"}
  BY DEF TypeInv
<1>3. "result" \notin {"req", "by"}
  OBVIOUS
<1> QED BY <1>1, <1>2, <1>3

\* Nothing new is under way that an autosave waits for.
LEMMA ChannelKeeps ==
    ASSUME ChannelInv,
           \A x \in sent' \cup answers' :
              \/ x \in sent \cup answers
              \/ x.by \notin {"save", "submit"}
              \/ x.by = "submit" /\ x.req.kind = "complete",
           \/ page'.pending = page.pending /\ (page'.save = "wait" \/ page.save # "wait")
           \/ NoSaves \/ NoSaves'
    PROVE  ChannelInv'
BY DEF ChannelInv, NoSaves

\* One message takes the place of another, from and to the same.
LEMMA ChannelReplaces ==
    ASSUME ChannelInv, page' = page, NEW x \in sent \cup answers, NEW y,
           y.by = x.by, y.req = x.req,
           \A z \in sent' \cup answers' :
              (z \in sent \cup answers /\ z # x) \/ z = y \/ z.by = "nobody"
    PROVE  ChannelInv'
BY DEF ChannelInv

-----------------------------------------------------------------------------
(* The invariant holds at first                                            *)

LEMMA OpenedInit == Init => OpenedInv
<1> SUFFICES ASSUME Init PROVE OpenedInv
  OBVIOUS
<1>0. RequestInv /\ TypeInv
  BY RequestInit, TypeInit
<1>1. /\ page = ClosedPage /\ replay = NoReplay /\ draft = NoDraft /\ outbox = <<>>
      /\ sent = {} /\ answers = {} /\ applied = {}
      /\ server.lease = 1 /\ server.rev = 0 /\ server.stage = "held"
      /\ server.text = [s \in Seg |-> 0] /\ used.edits = 0
  BY DEF Init
<1>2. /\ page.lease = 0 /\ page.rev = 0 /\ page.text = [s \in Seg |-> 0]
      /\ page.mode = "closed" /\ page.pending = NoRequest /\ page.complete = NoRequest
      /\ page.save = "no" /\ page.submit = "no" /\ page.conflict = FALSE
  BY <1>1 DEF ClosedPage
<1>3. replay.stage = "no" /\ replay.left = <<>>
  BY <1>1 DEF NoReplay
<1>4. ShapeInv /\ ChannelInv
  BY <1>1, <1>2, <1>3 DEF ShapeInv, ChannelInv
<1>5. Booked = {} /\ Carried = {NoRequest}
  BY <1>1, <1>2, <1>3, EmptyIn DEF Booked, Carried, Flight, Kept
<1>6. TextBound(server) /\ CarriedOk /\ AppliedOk
  BY <1>1, <1>5 DEF TextBound, CarriedOk, AppliedOk, NoRequest, Current
<1>7. PageOk /\ PendingOk /\ PostingOk
  BY <1>1, <1>2, <1>5 DEF PageOk, PendingOk, PostingOk, TextBound, Current, Working
<1>8. DraftOk(draft)
  <2>1. /\ draft.lease = 0 /\ draft.rev = 0 /\ draft.text = [s \in Seg |-> 0]
        /\ draft.dirty = {}
    BY <1>1 DEF NoDraft
  <2> QED BY <1>1, <1>5, <2>1 DEF DraftOk, TextBound, Current, Known
<1> QED BY <1>0, <1>4, <1>5, <1>6, <1>7, <1>8 DEF OpenedInv, ContentInv

-----------------------------------------------------------------------------
(* Every step keeps it: the autosave                                       *)

LEMMA StartSaveOpened == ASSUME OpenedInv, StartSave PROVE OpenedInv'
<1>0. /\ TypeInv /\ TypeInv' /\ RequestInv /\ RequestInv' /\ ShapeInv /\ ChannelInv
  BY StartSaveTyped, StartSaveKeeps DEF OpenedInv, RequestInv
<1>1. /\ UNCHANGED <<replay, draft, outbox, sent, answers, server, applied>>
      /\ page.save = "no" /\ page.mode = "work" /\ ~ page.blocked /\ ~ page.conflict
      /\ page.pending # NoRequest \/ page.dirty # {}
  BY <1>0 DEF StartSave, SaveNeeded, Working, ShapeInv
<1>2. NoSaves /\ used.ops \in Nat
  BY <1>0, <1>1 DEF ChannelInv, NoSaves, TypeInv, Uses
<1>3. /\ page'.save = "store" /\ page'.mode = page.mode /\ page'.submit = page.submit
      /\ page'.complete = page.complete /\ page'.conflict = page.conflict
      /\ page'.lease = page.lease /\ page'.rev = page.rev /\ page'.text = page.text
      /\ page'.blocked = page.blocked
  BY <1>0 DEF StartSave, TypeInv, Pages
<1>4. page'.pending # NoRequest /\ ContentInv'
  <2>1. CASE page.pending # NoRequest
    <3>1. /\ page'.dirty = page.dirty /\ page'.pending = page.pending
          /\ used'.edits = used.edits
      BY <1>0, <2>1 DEF StartSave, TypeInv, Pages
    <3>2. Carried' = Carried /\ Booked' \subseteq Booked
      BY <1>1, <1>3, <3>1 DEF Carried, Flight, Kept, Booked
    <3> QED BY <1>0, <1>1, <1>3, <2>1, <3>1, <3>2, StillKeeps
  <2>2. CASE page.pending = NoRequest
    <3>1. page'.pending = Captured
      BY <1>0, <2>2 DEF StartSave, TypeInv, Pages
    <3>2. Captured.op = used.ops + 1 /\ NoRequest.op = 0
      BY DEF Captured, NoRequest
    <3>3. page'.pending # NoRequest
      BY <1>2, <3>1, <3>2
    <3> QED BY <1>0, <2>2, <3>3, CaptureKeeps
  <2> QED BY <2>1, <2>2
<1>5. ShapeInv'
  BY <1>0, <1>1, <1>3, <1>4 DEF ShapeInv
<1>6. ChannelInv'
  BY <1>0, <1>1, <1>2, ChannelKeeps
<1> QED BY <1>0, <1>4, <1>5, <1>6 DEF OpenedInv

LEMMA SaveTimerOpened == ASSUME OpenedInv, SaveTimer PROVE OpenedInv'
<1>1. CASE StartSave
  BY <1>1, StartSaveOpened
<1>2. CASE ~ StartSave
  <2>0. /\ TypeInv /\ TypeInv' /\ RequestInv /\ RequestInv' /\ ShapeInv /\ ChannelInv
    BY AutosaveTyped, AutosaveKeeps DEF OpenedInv, RequestInv, Autosave
  <2>1. UNCHANGED <<replay, draft, outbox, sent, answers, server, applied, used>>
    BY <1>2 DEF SaveTimer
  <2>2. /\ page'.save = page.save /\ page'.mode = page.mode /\ page'.submit = page.submit
        /\ page'.complete = page.complete /\ page'.conflict = page.conflict
        /\ page'.lease = page.lease /\ page'.rev = page.rev /\ page'.text = page.text
        /\ page'.blocked = page.blocked /\ page'.dirty = page.dirty
        /\ page'.pending = page.pending /\ page'.batch = page.batch
    BY <2>0, <1>2 DEF SaveTimer, TypeInv, Pages
  <2>3. Carried' = Carried /\ Booked' = Booked
    BY <2>1, <2>2 DEF Carried, Flight, Kept, Booked
  <2>4. ContentInv'
    BY <2>0, <2>1, <2>2, <2>3, StillKeeps
  <2>5. ShapeInv'
    BY <2>0, <2>1, <2>2 DEF ShapeInv
  <2>6. ChannelInv'
    BY <2>0, <2>1, <2>2, ChannelKeeps
  <2> QED BY <2>0, <2>4, <2>5, <2>6 DEF OpenedInv
<1> QED BY <1>1, <1>2

LEMMA StoreSaveOpened == ASSUME OpenedInv, StoreSave PROVE OpenedInv'
<1>0. /\ TypeInv /\ TypeInv' /\ RequestInv /\ RequestInv' /\ ShapeInv /\ ChannelInv
  BY AutosaveTyped, AutosaveKeeps DEF OpenedInv, RequestInv, Autosave
<1>1. /\ UNCHANGED <<replay, outbox, sent, answers, server, applied, used>>
      /\ draft' = Persisted /\ page.save = "store"
  BY DEF StoreSave
<1>2. Working /\ ~ page.conflict /\ page.pending # NoRequest
  BY <1>0, <1>1 DEF ShapeInv, TypeInv, Pages, Working
<1>3. /\ page'.save = "post" /\ page'.mode = page.mode /\ page'.submit = page.submit
      /\ page'.complete = page.complete /\ page'.conflict = page.conflict
      /\ page'.lease = page.lease /\ page'.rev = page.rev /\ page'.text = page.text
      /\ page'.blocked = page.blocked /\ page'.dirty = page.dirty
      /\ page'.pending = page.pending
  BY <1>0 DEF StoreSave, TypeInv, Pages
<1>4. Carried' = Carried /\ Booked' \subseteq Booked
  BY <1>1, <1>3 DEF Carried, Flight, Kept, Booked
<1>5. ContentInv'
  BY <1>0, <1>1, <1>2, <1>3, <1>4, StillKeeps
<1>6. ShapeInv'
  BY <1>0, <1>1, <1>2, <1>3 DEF ShapeInv, Working
<1>7. ChannelInv'
  BY <1>0, <1>1, <1>3, ChannelKeeps
<1> QED BY <1>0, <1>5, <1>6, <1>7 DEF OpenedInv

LEMMA PostSaveOpened == ASSUME OpenedInv, PostSave PROVE OpenedInv'
<1>0. /\ TypeInv /\ TypeInv' /\ RequestInv /\ RequestInv' /\ ShapeInv /\ ChannelInv
  BY AutosaveTyped, AutosaveKeeps DEF OpenedInv, RequestInv, Autosave
<1> DEFINE new == [req |-> page.pending, by |-> "save"]
<1>1. /\ UNCHANGED <<replay, draft, answers, server, applied, used>>
      /\ sent' = sent \cup {new} /\ page.save = "post"
  BY DEF PostSave, Send
<1>2. NoSaves
  BY <1>0, <1>1 DEF ChannelInv, NoSaves
<1>3. /\ page'.save = "wait" /\ page'.mode = page.mode /\ page'.submit = page.submit
      /\ page'.complete = page.complete /\ page'.conflict = page.conflict
      /\ page'.blocked = page.blocked /\ page'.dirty = page.dirty
      /\ page'.pending = page.pending
  BY <1>0 DEF PostSave, TypeInv, Pages
<1>4. ShapeInv'
  BY <1>0, <1>1, <1>3 DEF ShapeInv
<1>5. ChannelInv'
  <2>1. \A x \in sent' \cup answers' : x = new \/ (x \in sent \cup answers /\ x.by # "save")
    BY <1>1, <1>2 DEF NoSaves
  <2>2. new.req = page.pending /\ new.by = "save"
    OBVIOUS
  <2> HIDE DEF new
  <2> QED BY <1>0, <1>3, <2>1, <2>2 DEF ChannelInv
<1> QED BY <1>0, <1>4, <1>5, PostKeeps DEF OpenedInv

LEMMA ConfirmSaveOpened == ASSUME OpenedInv, ConfirmSave PROVE OpenedInv'
<1>0. /\ TypeInv /\ TypeInv' /\ RequestInv /\ RequestInv' /\ ShapeInv /\ ChannelInv
  BY AutosaveTyped, AutosaveKeeps DEF OpenedInv, RequestInv, Autosave
<1>1. /\ UNCHANGED <<replay, sent, answers, server, applied, used>>
      /\ Confirm(page.batch) /\ page.save = "confirm"
  BY DEF ConfirmSave
<1>2. /\ page'.save = "settle" /\ page'.mode = page.mode /\ page'.submit = page.submit
      /\ page'.complete = page.complete /\ page'.conflict = page.conflict
      /\ page'.lease = page.lease /\ page'.rev = page.rev /\ page'.text = page.text
      /\ page'.blocked = page.blocked /\ page'.dirty = page.dirty
      /\ page'.pending = page.pending
  BY <1>0 DEF ConfirmSave, TypeInv, Pages
<1>3. page.batch \in applied /\ page.batch \in Booked /\ page.batch \in Requests
  BY <1>0, <1>1, ContentTyped DEF ShapeInv, Booked
<1>4. In(outbox') \subseteq In(outbox)
  BY <1>0, <1>1, <1>3, ConfirmIn
<1>5. Carried' \subseteq Carried /\ Booked' \subseteq Booked
  BY <1>1, <1>2, <1>4 DEF Carried, Flight, Kept, Booked
<1>6. ContentInv'
  BY <1>0, <1>1, <1>2, <1>3, <1>5, ConfirmKeeps
<1>7. ShapeInv'
  BY <1>0, <1>1, <1>2 DEF ShapeInv
<1>8. ChannelInv'
  BY <1>0, <1>1, <1>2, ChannelKeeps
<1> QED BY <1>0, <1>6, <1>7, <1>8 DEF OpenedInv

LEMMA SettleSaveOpened == ASSUME OpenedInv, SettleSave PROVE OpenedInv'
<1>0. /\ TypeInv /\ TypeInv' /\ RequestInv /\ RequestInv' /\ ShapeInv /\ ChannelInv
  BY AutosaveTyped, AutosaveKeeps DEF OpenedInv, RequestInv, Autosave
<1>1. /\ UNCHANGED <<replay, outbox, sent, answers, server, applied, used>>
      /\ draft' = Persisted /\ page.save = "settle"
  BY DEF SettleSave
<1>2. Working /\ ~ page.conflict
  BY <1>0, <1>1 DEF ShapeInv, TypeInv, Pages, Working
<1>3. /\ page'.save = "no" /\ page'.mode = page.mode /\ page'.submit = page.submit
      /\ page'.complete = page.complete /\ page'.conflict = page.conflict
      /\ page'.lease = page.lease /\ page'.rev = page.rev /\ page'.text = page.text
      /\ page'.blocked = page.blocked /\ page'.dirty = page.dirty
      /\ page'.pending = page.pending
  BY <1>0 DEF SettleSave, Settled, TypeInv, Pages
<1>4. Carried' = Carried /\ Booked' \subseteq Booked
  BY <1>1, <1>3 DEF Carried, Flight, Kept, Booked
<1>5. ContentInv'
  BY <1>0, <1>1, <1>2, <1>3, <1>4, StillKeeps
<1>6. ShapeInv'
  BY <1>0, <1>1, <1>2, <1>3 DEF ShapeInv, Working
<1>7. ChannelInv'
  BY <1>0, <1>1, <1>3, ChannelKeeps
<1> QED BY <1>0, <1>5, <1>6, <1>7 DEF OpenedInv

LEMMA SaveAnsweredOpened ==
    ASSUME OpenedInv, NEW a \in answers, SaveAnswered(a)
    PROVE  OpenedInv'
<1>0. /\ TypeInv /\ TypeInv' /\ RequestInv /\ RequestInv' /\ ShapeInv /\ ChannelInv
  BY AutosaveTyped, AutosaveKeeps DEF OpenedInv, RequestInv, Autosave
<1>1. /\ UNCHANGED <<replay, outbox, sent, server, applied, used>>
      /\ answers' = answers \ {a} /\ a.by = "save" /\ page.save = "wait"
  BY DEF SaveAnswered
<1>2. Working /\ ~ page.conflict /\ page.pending # NoRequest
  BY <1>0, <1>1 DEF ShapeInv, TypeInv, Pages, Working
<1>3. NoSaves'
  <2>1. ASSUME NEW x \in sent' \cup answers', x.by = "save" PROVE FALSE
    <3>1. x = a
      BY <1>0, <1>1, <2>1 DEF ChannelInv
    <3> QED BY <1>0, <1>1, <2>1, <3>1, Apart
  <2> QED BY <2>1 DEF NoSaves
<1>4. ChannelInv'
  BY <1>0, <1>1, <1>3, ChannelKeeps
<1>5. CASE a.result = "ok"
  <2>1. /\ page'.save = "confirm" /\ page'.mode = page.mode /\ page'.submit = page.submit
        /\ page'.complete = page.complete /\ page'.conflict = page.conflict
        /\ page'.blocked = page.blocked /\ page'.dirty = page.dirty
        /\ page'.pending = NoRequest /\ page'.batch = a.req
    BY <1>0, <1>5 DEF SaveAnswered, Saved, Conflicting, TypeInv, Pages
  <2>2. a.req \in applied
    BY <1>0, <1>5 DEF RequestInv, OkIsApplied
  <2>3. a.req.kind = "save"
    BY <1>0, <1>1, <1>2 DEF ChannelInv, OpenedInv, ContentInv, PendingOk
  <2>4. ShapeInv'
    BY <1>0, <1>1, <1>2, <2>1, <2>2, <2>3 DEF ShapeInv
  <2>5. ContentInv'
    BY <1>0, <1>5, SavedKeeps
  <2> QED BY <1>0, <1>4, <2>4, <2>5 DEF OpenedInv
<1>6. CASE a.result # "ok"
  <2>1. draft' = draft \/ draft' = Persisted
    BY <1>6 DEF SaveAnswered
  <2>2. page' \in {Blocked, SaveFailed(a.result)}
    BY <1>6 DEF SaveAnswered
  <2>3. /\ page'.save = "no" /\ page'.mode = page.mode /\ page'.submit = "no"
        /\ page'.complete = page.complete
        /\ page'.lease = page.lease /\ page'.rev = page.rev /\ page'.text = page.text
        /\ page'.dirty = page.dirty /\ page'.pending = page.pending
        /\ page'.conflict => page'.blocked
    <3>1. CASE page' = Blocked
      BY <1>0, <3>1 DEF Blocked, TypeInv, Pages
    <3>2. CASE page' # Blocked
      <4>1. page' = [page EXCEPT !.due = TRUE, !.save = "no", !.queued = FALSE, !.submit = "no",
                      !.blocked = @ \/ (page.submit = "drain" /\ a.result = "lost")]
        BY <2>2, <3>2 DEF SaveFailed
      <4> QED BY <1>0, <1>2, <4>1 DEF TypeInv, Pages
    <3> QED BY <3>1, <3>2
  <2>4. Carried' \subseteq Carried /\ Booked' \subseteq Booked
    BY <1>1, <2>3 DEF Carried, Flight, Kept, Booked
  <2>5. ContentInv'
    BY <1>0, <1>1, <1>2, <2>1, <2>3, <2>4, StillKeeps
  <2>6. ShapeInv'
    BY <1>0, <1>1, <2>3 DEF ShapeInv
  <2> QED BY <1>0, <1>4, <2>5, <2>6 DEF OpenedInv
<1> QED BY <1>5, <1>6

LEMMA AutosaveOpened == ASSUME OpenedInv, Autosave PROVE OpenedInv'
BY SaveTimerOpened, StoreSaveOpened, PostSaveOpened, ConfirmSaveOpened,
   SettleSaveOpened, SaveAnsweredOpened DEF Autosave

-----------------------------------------------------------------------------
(* ... handing in                                                          *)

LEMMA BuildCompletionOpened == ASSUME OpenedInv, BuildCompletion PROVE OpenedInv'
<1>0. /\ TypeInv /\ TypeInv' /\ RequestInv /\ RequestInv' /\ ShapeInv /\ ChannelInv
  BY HandInTyped, HandInKeeps DEF OpenedInv, RequestInv, HandIn
<1>1. /\ UNCHANGED <<replay, draft, outbox, sent, answers, server, applied>>
      /\ page.submit = "drain" /\ page.save = "no" /\ ~ SaveNeeded /\ used'.edits = used.edits
  BY <1>0 DEF BuildCompletion, TypeInv, Uses
<1>2. page.mode = "work" /\ ~ page.conflict
  BY <1>0, <1>1 DEF ShapeInv, TypeInv, Pages
<1>3. /\ page'.save = page.save /\ page'.mode = page.mode
      /\ page'.conflict = page.conflict
      /\ page'.lease = page.lease /\ page'.rev = page.rev /\ page'.text = page.text
      /\ page'.blocked = page.blocked /\ page'.dirty = page.dirty
      /\ page'.pending = page.pending /\ page'.batch = page.batch
  BY <1>0 DEF BuildCompletion, TypeInv, Pages
<1>4. ChannelInv'
  BY <1>0, <1>1, <1>3, ChannelKeeps
<1>5. CASE page'.complete = page.complete
  <2>1. Carried' = Carried /\ Booked' = Booked
    BY <1>1, <1>3, <1>5 DEF Carried, Flight, Kept, Booked
  <2>2. ContentInv'
    BY <1>0, <1>1, <1>2, <1>3, <2>1, StillKeeps
  <2>3. \/ page'.submit = "no"
        \/ page'.submit = "store" /\ ~ page.blocked /\ page.complete # NoRequest
        \/ page'.submit = "store" /\ ~ page.blocked /\ page.complete = NoRequest
             /\ page'.complete = Completion
    BY <1>0 DEF BuildCompletion, TypeInv, Pages
  <2>4. ~ page.blocked => page.dirty = {} /\ page.pending = NoRequest
    BY <1>1, <1>2 DEF SaveNeeded, Working
  <2>5. Completion.kind = "complete"
    BY DEF Completion
  <2>6. ShapeInv'
    BY <1>0, <1>1, <1>2, <1>3, <1>5, <2>3, <2>4, <2>5 DEF ShapeInv
  <2> QED BY <1>0, <1>4, <2>2, <2>6 DEF OpenedInv
<1>6. CASE page'.complete # page.complete
  <2>1. /\ page' = [page EXCEPT !.submit = "store", !.complete = Completion]
        /\ used' = [used EXCEPT !.ops = @ + 1]
        /\ page.complete = NoRequest /\ ~ page.blocked
    BY <1>0, <1>6 DEF BuildCompletion, TypeInv, Pages
  <2>2. page'.complete = Completion /\ page'.submit = "store"
    BY <1>0, <2>1 DEF TypeInv, Pages
  <2>3. ContentInv'
    BY <1>0, <2>1, <2>2, CompleteKeeps
  <2>4. page.dirty = {} /\ page.pending = NoRequest
    BY <1>1, <1>2, <2>1 DEF SaveNeeded, Working
  <2>5. Completion.kind = "complete"
    BY DEF Completion
  <2>6. ShapeInv'
    BY <1>0, <1>1, <1>2, <1>3, <2>2, <2>4, <2>5 DEF ShapeInv
  <2> QED BY <1>0, <1>4, <2>3, <2>6 DEF OpenedInv
<1> QED BY <1>5, <1>6

LEMMA StoreCompletionOpened == ASSUME OpenedInv, StoreCompletion PROVE OpenedInv'
<1>0. /\ TypeInv /\ TypeInv' /\ RequestInv /\ RequestInv' /\ ShapeInv /\ ChannelInv
  BY HandInTyped, HandInKeeps DEF OpenedInv, RequestInv, HandIn
<1>1. /\ UNCHANGED <<replay, outbox, sent, answers, server, applied, used>>
      /\ draft' = Persisted /\ page.submit = "store"
  BY DEF StoreCompletion
<1>2. Working /\ ~ page.conflict
  BY <1>0, <1>1 DEF ShapeInv, TypeInv, Pages, Working
<1>3. /\ page'.save = page.save /\ page'.mode = page.mode /\ page'.submit = "post"
      /\ page'.complete = page.complete /\ page'.conflict = page.conflict
      /\ page'.lease = page.lease /\ page'.rev = page.rev /\ page'.text = page.text
      /\ page'.blocked = page.blocked /\ page'.dirty = page.dirty
      /\ page'.pending = page.pending /\ page'.batch = page.batch
  BY <1>0 DEF StoreCompletion, TypeInv, Pages
<1>4. Carried' = Carried /\ Booked' = Booked
  BY <1>1, <1>3 DEF Carried, Flight, Kept, Booked
<1>5. ContentInv'
  BY <1>0, <1>1, <1>2, <1>3, <1>4, StillKeeps
<1>6. ShapeInv'
  BY <1>0, <1>1, <1>2, <1>3 DEF ShapeInv, Working
<1>7. ChannelInv'
  BY <1>0, <1>1, <1>3, ChannelKeeps
<1> QED BY <1>0, <1>5, <1>6, <1>7 DEF OpenedInv

LEMMA PostCompletionOpened == ASSUME OpenedInv, PostCompletion PROVE OpenedInv'
<1>0. /\ TypeInv /\ TypeInv' /\ RequestInv /\ RequestInv' /\ ShapeInv /\ ChannelInv
  BY HandInTyped, HandInKeeps DEF OpenedInv, RequestInv, HandIn
<1> DEFINE new == [req |-> page.complete, by |-> "submit"]
<1>1. /\ UNCHANGED <<replay, draft, answers, server, applied, used>>
      /\ sent' = sent \cup {new} /\ page.submit = "post"
  BY DEF PostCompletion, Send
<1>2. page.mode = "work" /\ ~ page.conflict /\ page.complete.kind = "complete"
  BY <1>0, <1>1 DEF ShapeInv, TypeInv, Pages
<1>3. /\ page'.save = page.save /\ page'.mode = page.mode /\ page'.submit = "wait"
      /\ page'.complete = page.complete /\ page'.conflict = page.conflict
      /\ page'.lease = page.lease /\ page'.rev = page.rev /\ page'.text = page.text
      /\ page'.blocked = page.blocked /\ page'.dirty = page.dirty
      /\ page'.pending = page.pending /\ page'.batch = page.batch
  BY <1>0 DEF PostCompletion, TypeInv, Pages
<1>4. new.req = page.complete /\ new.by = "submit"
  OBVIOUS
<1> HIDE DEF new
<1>5. In(outbox') \subseteq In(outbox) \cup {page.complete}
  BY <1>0, PutOutboxIn, ContentTyped DEF PostCompletion
<1>6. Carried' \subseteq Carried
  BY <1>1, <1>3, <1>4, <1>5 DEF Carried, Flight, Kept
<1>7. Booked' \subseteq Booked
  BY <1>1, <1>2, <1>3, <1>4, <1>5 DEF Booked, Kept
<1>8. ContentInv'
  BY <1>0, <1>1, <1>2, <1>3, <1>6, <1>7, StillKeeps
<1>9. ShapeInv'
  BY <1>0, <1>1, <1>2, <1>3 DEF ShapeInv
<1>10. ChannelInv'
  BY <1>0, <1>1, <1>2, <1>3, <1>4, ChannelKeeps
<1> QED BY <1>0, <1>8, <1>9, <1>10 DEF OpenedInv

LEMMA CompletionAnsweredOpened ==
    ASSUME OpenedInv, NEW a \in answers, CompletionAnswered(a)
    PROVE  OpenedInv'
<1>0. /\ TypeInv /\ TypeInv' /\ RequestInv /\ RequestInv' /\ ShapeInv /\ ChannelInv
  BY HandInTyped, HandInKeeps DEF OpenedInv, RequestInv, HandIn
<1> DEFINE new == [req |-> page.complete, by |-> "submit"]
<1>1. /\ UNCHANGED <<replay, outbox, server, applied, used>>
      /\ answers' = answers \ {a} /\ a.by = "submit" /\ page.submit \in {"wait", "again"}
      /\ sent' \subseteq sent \cup {new} /\ draft' \in {draft, Persisted}
  BY DEF CompletionAnswered, Send
<1>2. /\ Working /\ page.mode = "work" /\ ~ page.conflict /\ page.complete.kind = "complete"
      /\ page.save = "no" /\ page.pending = NoRequest /\ page.dirty = {}
  BY <1>0, <1>1 DEF ShapeInv, TypeInv, Pages, Working
<1>3. new.req = page.complete /\ new.by = "submit"
  OBVIOUS
<1> HIDE DEF new
<1>4. /\ page'.save = "no" /\ page'.mode \in {"work", "idle"}
      /\ page'.complete = page.complete /\ (page'.conflict => page'.blocked)
      /\ page'.lease = page.lease /\ page'.rev = page.rev /\ page'.text = page.text
      /\ page'.dirty = page.dirty
      /\ page'.pending = page.pending /\ page'.batch = page.batch
  <2>1. page' \in {[page EXCEPT !.submit = "confirm"], [page EXCEPT !.submit = "again"],
                   [page EXCEPT !.submit = "no", !.blocked = TRUE],
                   [page EXCEPT !.submit = "no"]}
        \/ page' = Blocked \/ page' = [Blocked EXCEPT !.mode = "idle"]
    BY DEF CompletionAnswered
  <2>2. CASE page' = Blocked \/ page' = [Blocked EXCEPT !.mode = "idle"]
    BY <1>0, <1>2, <2>2 DEF Blocked, TypeInv, Pages
  <2>3. CASE page' \in {[page EXCEPT !.submit = "confirm"], [page EXCEPT !.submit = "again"],
                   [page EXCEPT !.submit = "no", !.blocked = TRUE],
                   [page EXCEPT !.submit = "no"]}
    BY <1>0, <1>2, <2>3 DEF TypeInv, Pages
  <2> QED BY <2>1, <2>2, <2>3
<1>5. /\ \/ page'.submit = "no"
         \/ page'.submit = "again" /\ page'.mode = "work" /\ page'.conflict = page.conflict
         \/ /\ page'.submit = "confirm" /\ a.result = "ok"
            /\ page'.mode = "work" /\ page'.conflict = page.conflict
  <2>1. CASE a.result = "ok"
    BY <1>0, <1>2, <2>1 DEF CompletionAnswered, TypeInv, Pages
  <2>2. CASE a.result = "lost" /\ page.submit = "wait"
    BY <1>0, <1>2, <2>2 DEF CompletionAnswered, TypeInv, Pages
  <2>3. CASE (a.result = "lost" /\ page.submit = "again") \/ a.result = "error"
    BY <1>0, <2>3 DEF CompletionAnswered, TypeInv, Pages
  <2>4. CASE a.result \in {"revision", "lease", "unassigned"}
    <3>1. page' = Blocked \/ page' = [Blocked EXCEPT !.mode = "idle"]
      BY <2>4 DEF CompletionAnswered
    <3> QED BY <1>0, <3>1 DEF Blocked, TypeInv, Pages
  <2> QED BY <1>1, <2>1, <2>2, <2>3, <2>4 DEF CompletionAnswered
<1>6. a.result = "ok" => server.stage = "done"
  BY <1>0, <1>1 DEF RequestInv, OkIsApplied, ChannelInv, OpenedInv, ContentInv, AppliedOk
<1>7. Carried' \subseteq Carried /\ Booked' \subseteq Booked
  <2>1. Carried' \subseteq Carried
    BY <1>1, <1>3, <1>4 DEF Carried, Flight, Kept
  <2>2. Booked' \subseteq Booked
    BY <1>1, <1>3, <1>4 DEF Booked, Kept
  <2> QED BY <2>1, <2>2
<1>8. ContentInv'
  BY <1>0, <1>1, <1>2, <1>4, <1>7, StillKeeps
<1>9. ShapeInv'
  <2>1. replay.stage = "no"
    BY <1>0, <1>2 DEF ShapeInv
  <2> QED BY <1>0, <1>1, <1>2, <1>4, <1>5, <1>6, <2>1 DEF ShapeInv
<1>10. ChannelInv'
  BY <1>0, <1>1, <1>2, <1>3, <1>4, ChannelKeeps
<1> QED BY <1>0, <1>8, <1>9, <1>10 DEF OpenedInv

\* The page that comes after, whatever it is.
LEMMA BlankPages ==
    /\ ClosedPage.mode = "closed" /\ Opening.mode = "opening"
    /\ [ClosedPage EXCEPT !.mode = "idle"].mode = "idle"
    /\ \A p \in {ClosedPage, Opening, [ClosedPage EXCEPT !.mode = "idle"]} :
          /\ p.lease = 0 /\ p.rev = 0 /\ p.text = [s \in Seg |-> 0] /\ p.dirty = {}
          /\ p.pending = NoRequest /\ p.complete = NoRequest /\ p.batch = NoRequest
          /\ p.save = "no" /\ p.submit = "no" /\ ~ p.conflict /\ ~ p.blocked
BY DEF ClosedPage, Opening

LEMMA ConfirmCompletionOpened == ASSUME OpenedInv, ConfirmCompletion PROVE OpenedInv'
<1>0. /\ TypeInv /\ TypeInv' /\ RequestInv /\ RequestInv' /\ ShapeInv /\ ChannelInv
  BY HandInTyped, HandInKeeps DEF OpenedInv, RequestInv, HandIn
<1>1. /\ UNCHANGED <<replay, sent, answers, server, applied, used>>
      /\ Confirm(page.complete) /\ page.submit = "confirm"
      /\ page' = [ClosedPage EXCEPT !.mode = "idle"]
  BY DEF ConfirmCompletion
<1>2. /\ page.mode = "work" /\ server.stage = "done" /\ page.complete.kind = "complete"
      /\ page.save = "no"
  BY <1>0, <1>1 DEF ShapeInv, TypeInv, Pages
<1>3. /\ page'.lease = 0 /\ page'.text = [s \in Seg |-> 0] /\ page'.pending = NoRequest
      /\ page'.mode = "idle" /\ page'.save = "no" /\ page'.submit = "no"
      /\ page'.complete = NoRequest /\ ~ page'.conflict
  BY <1>1, BlankPages
<1>4. In(outbox') \subseteq In(outbox)
  BY <1>0, <1>1, ConfirmIn, ContentTyped
<1>5. draft' = draft \/ draft' = NoDraft
  BY <1>1, <1>2 DEF Confirm, Terminal
<1>6. Carried' \subseteq Carried \cup {NoRequest} /\ Booked' \subseteq Booked
  BY <1>1, <1>3, <1>4 DEF Carried, Flight, Kept, Booked
<1>7. ContentInv'
  BY <1>0, <1>1, <1>2, <1>3, <1>5, <1>6, BlankKeeps
<1>8. ShapeInv'
  BY <1>0, <1>1, <1>2, <1>3 DEF ShapeInv
<1>9. ChannelInv'
  <2>1. NoSaves
    BY <1>0, <1>2 DEF ChannelInv, NoSaves
  <2> QED BY <1>0, <1>1, <2>1, ChannelKeeps
<1> QED BY <1>0, <1>7, <1>8, <1>9 DEF OpenedInv

LEMMA HandInOpened == ASSUME OpenedInv, HandIn PROVE OpenedInv'
BY StartSaveOpened, BuildCompletionOpened, StoreCompletionOpened, PostCompletionOpened,
   ConfirmCompletionOpened, CompletionAnsweredOpened DEF HandIn, Drain

-----------------------------------------------------------------------------
(* ... opening the page                                                    *)

LEMMA ForsakenBy == ASSUME TypeInv PROVE \A x \in Forsaken : x.by = "nobody"
BY DEF Forsaken, TypeInv

LEMMA ReplaySendOpened == ASSUME OpenedInv, ReplaySend PROVE OpenedInv'
<1>0. /\ TypeInv /\ TypeInv' /\ RequestInv /\ RequestInv' /\ ShapeInv /\ ChannelInv
  BY WalkingTyped, WalkingKeeps DEF OpenedInv, RequestInv, Walking
<1> DEFINE r == Head(replay.left)
           new == [req |-> r, by |-> "replay"]
<1>1. /\ UNCHANGED <<page, draft, outbox, answers, server, applied, used>>
      /\ sent' = sent \cup {new} /\ replay.stage # "no"
      /\ replay'.left = replay.left
  BY <1>0 DEF ReplaySend, Send, TypeInv, Walks
<1>2. r \in In(replay.left)
  BY <1>0, TailIn DEF ReplaySend, TypeInv, Walks
<1>3. new.req = r /\ new.by = "replay"
  OBVIOUS
<1> HIDE DEF new, r
<1>4. Carried' \subseteq Carried /\ Booked' \subseteq Booked
  <2>1. Carried' \subseteq Carried
    BY <1>1, <1>2, <1>3 DEF Carried, Flight, Kept
  <2>2. Booked' \subseteq Booked
    BY <1>1, <1>2, <1>3 DEF Booked, Kept
  <2> QED BY <2>1, <2>2
<1>5. ContentInv'
  BY <1>0, <1>1, <1>4, StillKeeps
<1>6. ShapeInv'
  BY <1>0, <1>1 DEF ShapeInv
<1>7. ChannelInv'
  BY <1>0, <1>1, <1>3, ChannelKeeps
<1> QED BY <1>0, <1>5, <1>6, <1>7 DEF OpenedInv

\* The page is left for another, or opened anew.
LEMMA BlankOpened ==
    ASSUME OpenedInv, RequestInv',
           page' \in {ClosedPage, Opening, [ClosedPage EXCEPT !.mode = "idle"]},
           server' = server, applied' = applied, used'.edits = used.edits,
           replay'.left \in {outbox, outbox', <<>>}, In(outbox') \subseteq In(outbox),
           replay'.stage # "no" => page' = Opening,
           \/ sent' = Forsaken /\ answers' = {}
           \/ NoSaves /\ sent' = sent /\ answers' = answers,
           \/ draft' = draft
           \/ draft' = NoDraft /\ Booked' = {}
    PROVE  OpenedInv'
<1>0. TypeInv /\ ShapeInv /\ ChannelInv
  BY DEF OpenedInv, RequestInv
<1>1. /\ page'.lease = 0 /\ page'.text = [s \in Seg |-> 0] /\ page'.pending = NoRequest
      /\ page'.mode # "work" /\ page'.save = "no" /\ page'.submit = "no"
      /\ page'.complete = NoRequest /\ ~ page'.conflict
      /\ page' = Opening => page'.mode = "opening"
  BY BlankPages
<1>2. Kept' \subseteq Kept
  BY EmptyIn DEF Kept
<1>3. /\ {m.req : m \in sent'} = {m.req : m \in sent} /\ answers' \subseteq answers
      /\ {n \in sent' : n.by \in {"save", "replay"}} \subseteq
            {n \in sent : n.by \in {"save", "replay"}}
      /\ \A x \in sent' \cup answers' : x \in sent \cup answers \/ x.by = "nobody"
  BY <1>0, ForsakenReq, ForsakenBy
<1>4. Carried' \subseteq Carried \cup {NoRequest}
  BY <1>1, <1>2, <1>3 DEF Carried, Flight
<1>5. Booked' \subseteq Booked
  BY <1>1, <1>2, <1>3 DEF Booked
<1>6. ContentInv'
  BY <1>1, <1>4, <1>5, BlankKeeps
<1>7. ShapeInv'
  BY <1>0, <1>1 DEF ShapeInv
<1>8. NoSaves \/ NoSaves'
  BY <1>0, ForsakenBy DEF NoSaves
<1>9. ChannelInv'
  BY <1>0, <1>3, <1>8, ChannelKeeps
<1> QED BY <1>6, <1>7, <1>9 DEF OpenedInv

LEMMA LoadOpened == ASSUME OpenedInv, Load PROVE OpenedInv'
<1>0. /\ TypeInv /\ TypeInv' /\ RequestInv /\ RequestInv' /\ ShapeInv /\ ChannelInv
  BY WalkingTyped, WalkingKeeps DEF OpenedInv, RequestInv, Walking
<1>1. /\ UNCHANGED <<draft, outbox, sent, answers, server, applied, used>>
      /\ replay' = NoReplay /\ page.mode = "opening"
      /\ page' = IF server.stage = "held" THEN RestoredPage
                 ELSE [ClosedPage EXCEPT !.mode = "idle"]
  BY DEF Load
<1>2. NoReplay.left = <<>> /\ NoReplay.stage = "no"
  BY DEF NoReplay
<1>3. NoSaves
  BY <1>0, <1>1 DEF ShapeInv, ChannelInv, NoSaves
<1>4. CASE server.stage # "held"
  <2>1. page' = [ClosedPage EXCEPT !.mode = "idle"]
    BY <1>1, <1>4
  <2> QED BY <1>0, <1>1, <1>2, <1>3, <2>1, BlankOpened
<1>5. CASE server.stage = "held"
  <2>1. page' = RestoredPage
    BY <1>1, <1>5
  <2>2. /\ LoadedPage.mode = "work" /\ LoadedPage.save = "no" /\ LoadedPage.submit = "no"
        /\ LoadedPage.pending = NoRequest /\ LoadedPage.complete = NoRequest
        /\ ~ LoadedPage.conflict /\ LoadedPage \in Pages
    BY <1>0, LoadedTyped DEF LoadedPage, ClosedPage
  <2>3. /\ page'.mode = "work" /\ page'.save = "no" /\ page'.submit = "no"
        /\ page'.pending = NoRequest /\ page'.complete = NoRequest
        /\ page'.conflict => page'.blocked
    <3>1. CASE page' = LoadedPage
      BY <2>2, <3>1
    <3>2. CASE page' = [LoadedPage EXCEPT !.text = draft.text, !.dirty = draft.dirty, !.due = TRUE]
      BY <2>2, <3>2 DEF Pages
    <3>3. CASE page' = [LoadedPage EXCEPT !.blocked = TRUE, !.conflict = TRUE]
      BY <2>2, <3>3 DEF Pages
    <3> QED BY <2>1, <3>1, <3>2, <3>3 DEF RestoredPage
  <2>4. Carried' \subseteq Carried \cup {NoRequest}
    BY <1>1, <1>2, <2>3, EmptyIn DEF Carried, Flight, Kept
  <2>5. Booked' \subseteq Booked
    BY <1>1, <1>2, <2>3, EmptyIn DEF Booked, Kept
  <2>6. ContentInv'
    BY <1>0, <1>1, <1>5, <2>1, <2>4, <2>5, LoadKeeps
  <2>7. ShapeInv'
    BY <1>0, <1>1, <1>2, <2>3 DEF ShapeInv
  <2>8. ChannelInv'
    BY <1>0, <1>1, <1>3, ChannelKeeps
  <2> QED BY <1>0, <2>6, <2>7, <2>8 DEF OpenedInv
<1> QED BY <1>4, <1>5

LEMMA ReplayAnsweredOpened ==
    ASSUME OpenedInv, NEW a \in answers, ReplayAnswered(a)
    PROVE  OpenedInv'
<1>0. /\ TypeInv /\ TypeInv' /\ RequestInv /\ RequestInv' /\ ShapeInv /\ ChannelInv
      /\ a.req \in Requests
  BY WalkingTyped, WalkingKeeps DEF OpenedInv, RequestInv, Walking, TypeInv
<1>1. /\ UNCHANGED <<sent, server, applied, used>> /\ replay.stage = "wait"
      /\ answers' = answers \ {a} /\ a.by = "replay"
  BY DEF ReplayAnswered
<1>2. page.mode = "opening" /\ page.save = "no" /\ ~ Working
  BY <1>0, <1>1 DEF ShapeInv, Working
<1>3. page' = page
  BY <1>2 DEF ReplayAnswered
<1>4. ShapeInv'
  BY <1>0, <1>1, <1>2, <1>3 DEF ShapeInv
<1>5. ChannelInv'
  BY <1>0, <1>1, <1>3, ChannelKeeps
<1>6. In(outbox') \subseteq In(outbox)
  BY <1>0, ConfirmIn DEF ReplayAnswered
<1>7. In(replay'.left) \subseteq In(replay.left)
  <2>1. replay'.left \in {<<>>, Tail(replay.left)} /\ replay.left \in Seq(Requests)
    BY <1>0 DEF ReplayAnswered, TypeInv, Walks
  <2>2. In(Tail(replay.left)) \subseteq In(replay.left) \/ replay.left = <<>>
    BY <2>1, TailIn
  <2>3. In(Tail(<<>>)) = {}
    BY DEF In
  <2> QED BY <2>1, <2>2, <2>3, EmptyIn
<1>8. Carried' \subseteq Carried
  BY <1>1, <1>3, <1>6, <1>7 DEF Carried, Flight, Kept
<1>9. Booked' \subseteq Booked
  BY <1>1, <1>3, <1>6, <1>7 DEF Booked, Kept
<1>10. CASE a.result = "ok"
  <2>1. a.req \in applied
    BY <1>0, <1>10 DEF RequestInv, OkIsApplied
  <2>2. a.req \in Booked \/ a.req.kind = "complete"
    BY <1>0, <1>1 DEF Booked, Requests
  <2>3. Confirm(a.req)
    BY <1>10 DEF ReplayAnswered
  <2>4. ContentInv'
    BY <1>0, <1>1, <1>2, <1>3, <1>8, <1>9, <2>1, <2>2, <2>3, ConfirmKeeps
  <2> QED BY <1>0, <1>4, <1>5, <2>4 DEF OpenedInv
<1>11. CASE a.result # "ok"
  <2>1. draft' = draft
    BY <1>11 DEF ReplayAnswered
  <2>2. ContentInv'
    BY <1>0, <1>1, <1>2, <1>3, <1>8, <1>9, <2>1, StillKeeps
  <2> QED BY <1>0, <1>4, <1>5, <2>2 DEF OpenedInv
<1> QED BY <1>10, <1>11

LEMMA WalkingOpened == ASSUME OpenedInv, Walking PROVE OpenedInv'
<1>0. /\ TypeInv /\ RequestInv' /\ ShapeInv
  BY WalkingKeeps DEF OpenedInv, RequestInv
<1>1. ASSUME Reload PROVE OpenedInv'
  BY <1>0, <1>1, BlankOpened DEF Reload, Walk, NoReplay
<1>2. ASSUME Recovered PROVE FALSE
  BY <1>0, <1>2 DEF Recovered, Walked, ShapeInv
<1> QED BY <1>1, <1>2, ReplaySendOpened, LoadOpened, ReplayAnsweredOpened DEF Walking

-----------------------------------------------------------------------------
(* ... the server and the network                                          *)

LEMMA ServeOpened == ASSUME OpenedInv, NEW m \in sent, Serve(m) PROVE OpenedInv'
<1>0. /\ TypeInv /\ TypeInv' /\ RequestInv /\ RequestInv' /\ ShapeInv /\ ChannelInv
  BY ServeTyped, ServeKeeps DEF OpenedInv, RequestInv
<1>1. UNCHANGED <<page, replay, draft, outbox, used>> /\ sent' = sent \ {m}
  BY DEF Serve
<1>2. PICK result \in Result : Answer(m, result)
  BY DEF Serve, Refusal, Result
<1> DEFINE new == [req |-> m.req, by |-> m.by, result |-> result]
<1>3. (m.by = "nobody" /\ answers' = answers) \/ answers' = answers \cup {new}
  BY <1>2 DEF Answer
<1>4. new.req = m.req /\ new.by = m.by
  OBVIOUS
<1> HIDE DEF new
<1>5. ChannelInv'
  BY <1>0, <1>1, <1>3, <1>4, Apart, ChannelReplaces
<1>6. CASE UNCHANGED <<server, applied>>
  <2>1. Carried' \subseteq Carried
    BY <1>1, <1>3, <1>4 DEF Carried, Flight, Kept
  <2>2. Booked' \subseteq Booked
    BY <1>1, <1>3, <1>4 DEF Booked, Kept
  <2>3. ContentInv'
    BY <1>0, <1>1, <1>6, <2>1, <2>2, StillKeeps
  <2>4. ShapeInv'
    BY <1>0, <1>1, <1>6 DEF ShapeInv
  <2> QED BY <1>0, <1>5, <2>3, <2>4 DEF OpenedInv
<1>7. CASE Accepted(m.req) /\ Apply(m.req)
  <2>1. ContentInv' /\ server.stage = "held" /\ server'.lease = server.lease
    BY <1>0, <1>7, ApplyKeeps
  <2>2. applied \subseteq applied'
    BY <1>7 DEF Apply
  <2>3. ShapeInv'
    BY <1>0, <1>1, <2>1, <2>2 DEF ShapeInv
  <2> QED BY <1>0, <1>5, <2>1, <2>3 DEF OpenedInv
<1> QED BY <1>6, <1>7 DEF Serve

LEMMA FaultsOpened == ASSUME OpenedInv, Faults PROVE OpenedInv'
<1>0. /\ TypeInv /\ TypeInv' /\ RequestInv /\ RequestInv' /\ ShapeInv /\ ChannelInv
  BY FaultsTyped, FaultsKeep DEF OpenedInv, RequestInv
<1>1. UNCHANGED <<page, replay, draft, outbox, server, applied>> /\ used'.edits = used.edits
  BY <1>0 DEF Faults, BreakOff, Vanish, ServerError, LoseAnswer, Fault, TypeInv, Uses
<1> DEFINE Swap(x, y) ==
          /\ y.by = x.by /\ y.req = x.req
          /\ \A z \in sent' : (z \in sent /\ z # x) \/ (z.by = "nobody" /\ z.req = x.req)
          /\ \A z \in answers' : (z \in answers /\ z # x) \/ z = y
<1>2. \E x \in sent \cup answers : \E y : Swap(x, y)
  <2>1. ASSUME NEW m \in sent, BreakOff(m) \/ ServerError(m)
        PROVE  \E y : Swap(m, y)
    <3>1. PICK result \in {"lost", "error"} : Answer(m, result)
      BY <2>1 DEF BreakOff, ServerError
    <3> DEFINE new == [req |-> m.req, by |-> m.by, result |-> result]
    <3>2. answers' = answers \/ answers' = answers \cup {new}
      BY <3>1 DEF Answer
    <3>3. new.req = m.req /\ new.by = m.by
      OBVIOUS
    <3> HIDE DEF new
    <3>4. [m EXCEPT !.by = "nobody"].by = "nobody" /\ [m EXCEPT !.by = "nobody"].req = m.req
      BY <1>0 DEF TypeInv
    <3>5. sent' \subseteq (sent \ {m}) \cup {[m EXCEPT !.by = "nobody"]}
      BY <2>1 DEF BreakOff, ServerError
    <3>6. m \notin answers
      BY <1>0, Apart
    <3>7. Swap(m, new)
      BY <3>2, <3>3, <3>4, <3>5, <3>6
    <3> QED BY <3>7
  <2>2. ASSUME NEW m \in sent, Vanish(m) PROVE Swap(m, m)
    BY <1>0, <2>2, Apart DEF Vanish
  <2>3. ASSUME NEW a \in answers, LoseAnswer(a) PROVE \E y : Swap(a, y)
    <3> DEFINE new == [a EXCEPT !.result = "lost"]
    <3>1. new.by = a.by /\ new.req = a.req
      BY <1>0 DEF TypeInv
    <3>2. answers' = (answers \ {a}) \cup {new} /\ sent' = sent
      BY <2>3 DEF LoseAnswer
    <3> HIDE DEF new
    <3>3. a \notin sent
      BY <1>0, Apart
    <3>4. Swap(a, new)
      BY <3>1, <3>2, <3>3
    <3> QED BY <3>4
  <2> QED BY <2>1, <2>2, <2>3 DEF Faults
<1>3. PICK x \in sent \cup answers : \E y : Swap(x, y)
  BY <1>2
<1>4. PICK y : Swap(x, y)
  BY <1>3
<1>5. Carried' \subseteq Carried
  BY <1>1, <1>4 DEF Carried, Flight, Kept
<1>6. Booked' \subseteq Booked
  BY <1>1, <1>4 DEF Booked, Kept
<1>7. ContentInv'
  BY <1>0, <1>1, <1>5, <1>6, StillKeeps
<1>8. ShapeInv'
  BY <1>0, <1>1 DEF ShapeInv
<1>9. ChannelInv'
  BY <1>0, <1>1, <1>4, Apart, ChannelReplaces
<1> QED BY <1>0, <1>7, <1>8, <1>9 DEF OpenedInv

-----------------------------------------------------------------------------
(* ... the user                                                            *)

LEMMA TypingOpened ==
    ASSUME OpenedInv, (\E s \in Seg : EditSegment(s)) \/ KeepDraft \/ Submit
    PROVE  OpenedInv'
<1>0. /\ TypeInv /\ TypeInv' /\ RequestInv /\ RequestInv' /\ ShapeInv /\ ChannelInv
  BY UserTyped, UserKeeps DEF OpenedInv, RequestInv, User
<1>1. UNCHANGED <<replay, outbox, sent, answers, server, applied>> /\ page.mode = "work"
  BY DEF EditSegment, KeepDraft, Submit, Working
<1>2. /\ page'.mode = page.mode /\ page'.save = page.save /\ page'.pending = page.pending
      /\ page'.conflict = page.conflict /\ page'.blocked = page.blocked
      /\ page'.batch = page.batch /\ page'.lease = page.lease /\ page'.rev = page.rev
  BY <1>0 DEF EditSegment, KeepDraft, Submit, TypeInv, Pages
<1>3. ChannelInv'
  BY <1>0, <1>1, <1>2, ChannelKeeps
<1>4. ASSUME NEW s \in Seg, EditSegment(s) PROVE OpenedInv'
  <2>1. page'.submit = "no" /\ page'.complete = NoRequest
    BY <1>0, <1>4 DEF EditSegment, TypeInv, Pages
  <2>2. ShapeInv'
    BY <1>0, <1>1, <1>2, <2>1 DEF ShapeInv
  <2> QED BY <1>0, <1>3, <1>4, <2>2, EditKeeps DEF OpenedInv
<1>5. ASSUME KeepDraft PROVE OpenedInv'
  <2>1. page' = page /\ used' = used /\ draft' = Persisted /\ Working /\ ~ page.conflict
    BY <1>5 DEF KeepDraft
  <2>2. Carried' = Carried /\ Booked' = Booked
    BY <1>1, <2>1 DEF Carried, Flight, Kept, Booked
  <2>3. ContentInv'
    BY <1>0, <1>1, <2>1, <2>2, StillKeeps
  <2>4. ShapeInv'
    BY <1>0, <1>1, <2>1 DEF ShapeInv
  <2> QED BY <1>0, <1>3, <2>3, <2>4 DEF OpenedInv
<1>6. ASSUME Submit PROVE OpenedInv'
  <2>1. /\ used' = used /\ draft' = draft /\ ~ page.blocked /\ page'.submit = "drain"
        /\ page'.dirty = page.dirty /\ page'.text = page.text
        /\ page'.complete = page.complete
    BY <1>0, <1>6 DEF Submit, TypeInv, Pages
  <2>2. Carried' = Carried /\ Booked' = Booked
    BY <1>1, <1>2, <2>1 DEF Carried, Flight, Kept, Booked
  <2>3. ContentInv'
    BY <1>0, <1>1, <1>2, <2>1, <2>2, StillKeeps
  <2>4. ShapeInv'
    BY <1>0, <1>1, <1>2, <2>1 DEF ShapeInv
  <2> QED BY <1>0, <1>3, <2>3, <2>4 DEF OpenedInv
<1> QED BY <1>4, <1>5, <1>6

LEMMA OpeningOpened == ASSUME OpenedInv, Open \/ Close \/ Discard PROVE OpenedInv'
<1>0. /\ TypeInv /\ RequestInv' /\ ShapeInv /\ ChannelInv
  BY UserKeeps DEF OpenedInv, RequestInv, User
<1>1. CASE Open
  <2>1. NoSaves
    BY <1>0, <1>1 DEF Open, ShapeInv, ChannelInv, NoSaves
  <2>2. used'.edits = used.edits
    BY <1>0, <1>1 DEF Open, TypeInv, Uses
  <2> QED BY <1>0, <1>1, <2>1, <2>2, BlankOpened DEF Open, Walk, NoReplay
<1>2. CASE Close
  BY <1>0, <1>2, BlankOpened DEF Close, NoReplay
<1>3. CASE Discard
  <2>1. /\ outbox' = <<>> /\ replay'.left = <<>> /\ sent' = Forsaken /\ answers' = {}
        /\ page' = Opening /\ draft' = NoDraft
        /\ UNCHANGED <<server, applied, used>>
    BY <1>3 DEF Discard, Walk, NoReplay
  <2>2. Booked' = {}
    BY <1>0, <2>1, BlankPages, EmptyIn, ForsakenBy DEF Booked, Kept
  <2>3. In(outbox') \subseteq In(outbox)
    BY <2>1, EmptyIn
  <2> QED BY <1>0, <2>1, <2>2, <2>3, BlankOpened
<1> QED BY <1>1, <1>2, <1>3

LEMMA AssignmentOpened ==
    ASSUME OpenedInv,
           Release \/ ClaimHere \/ ClaimInOtherTab \/ \E s \in Seg : EditElsewhere(s)
    PROVE  OpenedInv'
<1>0. /\ TypeInv /\ TypeInv' /\ RequestInv /\ RequestInv' /\ ShapeInv /\ ChannelInv
  BY UserTyped, UserKeeps DEF OpenedInv, RequestInv, User
<1>1. /\ UNCHANGED <<replay, draft, outbox, answers, applied>> /\ sent' \subseteq sent
  BY DEF Release, ClaimHere, ClaimInOtherTab, EditElsewhere
<1>2. server.lease \in Nat /\ server.lease >= 1
  BY <1>0, ContentTyped DEF ShapeInv
<1>3. ContentInv'
  BY <1>0, ReleaseKeeps, ClaimKeeps, ElsewhereKeeps
<1>4. /\ server'.lease >= 1
      /\ server.stage # "done"
  <2>1. CASE Release \/ \E s \in Seg : EditElsewhere(s)
    <3>1. server'.lease = server.lease /\ server.stage = "held"
      BY <1>0, <2>1 DEF Release, EditElsewhere, TypeInv, Servers
    <3> QED BY <1>2, <3>1
  <2>2. CASE ClaimHere \/ ClaimInOtherTab
    <3>1. Reclaim
      BY <2>2 DEF ClaimHere, ClaimInOtherTab
    <3>2. server'.lease = server.lease + 1 /\ server.stage = "pooled"
      BY <1>0, <3>1 DEF Reclaim, TypeInv, Servers
    <3> QED BY <1>2, <3>2
  <2> QED BY <2>1, <2>2
<1>5. CASE page' = page
  <2>1. ShapeInv'
    BY <1>0, <1>1, <1>4, <1>5 DEF ShapeInv
  <2>2. ChannelInv'
    BY <1>0, <1>1, <1>5, ChannelKeeps
  <2> QED BY <1>0, <1>3, <2>1, <2>2 DEF OpenedInv
<1>6. CASE ClaimHere
  <2>1. page.mode = "idle" /\ page' = [LoadedPage EXCEPT !.lease = server.lease + 1]
    BY <1>6 DEF ClaimHere
  <2>2. /\ page'.mode = "work" /\ page'.save = "no" /\ page'.submit = "no"
        /\ page'.pending = NoRequest /\ page'.complete = NoRequest /\ ~ page'.conflict
    BY <2>1 DEF LoadedPage, ClosedPage
  <2>3. replay.stage = "no" /\ NoSaves
    BY <1>0, <2>1 DEF ShapeInv, ChannelInv, NoSaves
  <2>4. ShapeInv'
    BY <1>0, <1>1, <1>4, <2>2, <2>3 DEF ShapeInv
  <2>5. ChannelInv'
    BY <1>0, <1>1, <2>3, ChannelKeeps
  <2> QED BY <1>0, <1>3, <2>4, <2>5 DEF OpenedInv
<1> QED BY <1>5, <1>6 DEF Release, ClaimInOtherTab, EditElsewhere

LEMMA UserOpened == ASSUME MaxOnline = 0, OpenedInv, User PROVE OpenedInv'
<1>1. ASSUME Online PROVE FALSE
  <2>1. used.online \in Nat
    BY DEF OpenedInv, RequestInv, TypeInv, Uses
  <2> QED BY <1>1, <2>1 DEF Online
<1> QED BY <1>1, TypingOpened, OpeningOpened, AssignmentOpened DEF User

LEMMA OpenedStep ==
    ASSUME MaxOnline = 0, OpenedInv, [Next]_vars
    PROVE  OpenedInv'
<1>1. CASE Next
  BY <1>1, AutosaveOpened, HandInOpened, WalkingOpened, ServeOpened, FaultsOpened,
     UserOpened DEF Next, Serving
<1>2. CASE UNCHANGED vars
  <2>1. RequestInv' /\ ShapeInv /\ ChannelInv /\ TypeInv
    BY <1>2, RequestStep DEF OpenedInv, RequestInv
  <2>2. UNCHANGED <<page, replay, draft, outbox, sent, answers, server, applied, used>>
    BY <1>2 DEF vars
  <2>3. Carried' = Carried /\ Booked' = Booked
    BY <2>2 DEF Carried, Flight, Kept, Booked
  <2>4. ContentInv'
    BY <2>1, <2>2, <2>3, StillKeeps
  <2>5. ShapeInv'
    BY <2>1, <2>2 DEF ShapeInv
  <2>6. ChannelInv'
    BY <2>1, <2>2 DEF ChannelInv
  <2> QED BY <2>1, <2>4, <2>5, <2>6 DEF OpenedInv
<1> QED BY <1>1, <1>2

-----------------------------------------------------------------------------
(* What it gives                                                           *)

\* With the outbox walked through on opening only, the invariant holds.
THEOREM OpenedInvHolds == ASSUME MaxOnline = 0 PROVE Spec => []OpenedInv
<1>1. OpenedInv /\ [Next]_vars => OpenedInv'
  BY OpenedStep
<1> QED BY <1>1, OpenedInit, PTL DEF Spec

\* Then nothing is shown on the page, or kept in IndexedDB, as saved that the
\* server does not have: not after edits during a save, lost answers, crashes,
\* releases, new leases or work elsewhere.
THEOREM SavedMeansSavedHolds == ASSUME MaxOnline = 0 PROVE Spec => []SavedMeansSaved
<1>1. OpenedInv => SavedMeansSaved
  BY DEF OpenedInv, ContentInv, PageOk, DraftOk, Current, Exact,
         SavedMeansSaved, PageIsHonest, DraftIsHonest
<1> QED BY <1>1, OpenedInvHolds, PTL

\* Edits carry numbers up to their bound.
EditsBounded == used.edits <= MaxEdits

LEMMA EditsStep ==
    ASSUME TypeInv, EditsBounded, [Next]_vars
    PROVE  EditsBounded'
<1>0. used.edits \in Nat /\ MaxEdits \in Nat
  BY ContentTyped, BoundsAssumption
<1> DEFINE Goal == \/ used'.edits = used.edits
                   \/ used.edits < MaxEdits /\ used'.edits = used.edits + 1
<1>1. ASSUME Autosave \/ HandIn PROVE Goal
  <2>1. used' = used \/ used' = [used EXCEPT !.ops = @ + 1]
    BY <1>1 DEF Autosave, SaveTimer, StartSave, StoreSave, PostSave,
       ConfirmSave, SettleSave, SaveAnswered, HandIn, Drain, BuildCompletion,
       StoreCompletion, PostCompletion, ConfirmCompletion, CompletionAnswered
  <2> QED BY <2>1 DEF TypeInv, Uses
<1>2. ASSUME Walking \/ Serving PROVE Goal
  BY <1>2 DEF Walking, ReplaySend, Reload, Load, Recovered, ReplayAnswered, Serving, Serve
<1>3. ASSUME Faults PROVE Goal
  BY <1>3 DEF TypeInv, Uses, Faults, BreakOff, Vanish, ServerError, LoseAnswer, Fault
<1>4. ASSUME NEW s \in Seg, EditSegment(s) \/ EditElsewhere(s) PROVE Goal
  BY <1>4 DEF EditSegment, EditElsewhere, TypeInv, Uses
<1>5. ASSUME User, ~ \E s \in Seg : EditSegment(s) \/ EditElsewhere(s) PROVE Goal
  BY <1>5 DEF User, KeepDraft, Submit, Open, Close, Online, Discard, Release,
     ClaimHere, ClaimInOtherTab, TypeInv, Uses
<1>6. Goal
  BY <1>1, <1>2, <1>3, <1>4, <1>5 DEF Next, User, vars
<1> QED BY <1>0, <1>6 DEF EditsBounded

\* What the server does to a task, seen as saving promises it.
LEMMA WorkStep ==
    ASSUME OpenedInv, OpenedInv', EditsBounded', [Next]_vars
    PROVE  [Work!Next]_<<server.text, server.stage>>
<1>0. TypeInv /\ TypeInv' /\ RequestInv' /\ ContentInv'
  BY DEF OpenedInv, RequestInv
<1> DEFINE Forward == /\ server'.text \in Texts
                      /\ \A s \in Seg : server'.text[s] >= server.text[s]
<1>1. ASSUME Forward, server.stage = "held", server'.stage \in {"held", "done"}
      PROVE  Work!Save \/ Work!HandIn
  <2>1. \A s \in Seg : server'.text[s] \in Edit
    <3> SUFFICES ASSUME NEW s \in Seg PROVE server'.text[s] \in 0 .. MaxEdits
      BY DEF Edit
    <3>1. server'.text[s] <= used'.edits /\ used'.edits <= MaxEdits
      BY <1>0 DEF ContentInv, TextBound, EditsBounded
    <3>2. server'.text[s] \in Nat /\ used'.edits \in Nat /\ MaxEdits \in Nat
      BY <1>0, <1>1, BoundsAssumption DEF Texts, TypeInv, Uses
    <3> QED BY <3>1, <3>2
  <2>2. server'.text \in [Seg -> Edit]
    BY <1>1, <2>1 DEF Texts
  <2> QED BY <1>1, <2>2 DEF Work!Save, Work!HandIn, Work!Text, Work!NotBehind
<1>2. ASSUME NEW m \in sent, Serve(m), server' # server PROVE Work!Next
  <2>1. Accepted(m.req) /\ Apply(m.req)
    BY <1>2 DEF Serve
  <2>2. server.stage = "held" /\ Forward
    BY <1>0, <1>2, <2>1, ApplyKeeps
  <2>3. server'.stage \in {"held", "done"}
    BY <1>0, <2>1, <2>2 DEF Apply, TypeInv, Servers
  <2> QED BY <1>1, <2>2, <2>3 DEF Work!Next
<1>3. ASSUME NEW s \in Seg, EditElsewhere(s) PROVE Work!Next
  BY <1>0, <1>1, <1>3, ElsewhereKeeps DEF Work!Next
<1>4. ASSUME Release PROVE Work!Next
  BY <1>0, <1>4 DEF Release, TypeInv, Servers, Work!Next, Work!Release
<1>5. ASSUME ClaimHere \/ ClaimInOtherTab PROVE Work!Next
  <2>1. Reclaim
    BY <1>5 DEF ClaimHere, ClaimInOtherTab
  <2> QED BY <1>0, <2>1 DEF Reclaim, TypeInv, Servers, Work!Next, Work!Claim
<1>6. ASSUME Autosave \/ HandIn \/ Walking \/ Faults PROVE server' = server
  BY <1>6 DEF Autosave, SaveTimer, StartSave, StoreSave, PostSave,
       ConfirmSave, SettleSave, SaveAnswered, HandIn, Drain, BuildCompletion,
       StoreCompletion, PostCompletion, ConfirmCompletion, CompletionAnswered,
       Walking, ReplaySend, Reload, Load, Recovered, ReplayAnswered,
       Faults, BreakOff, Vanish, ServerError, LoseAnswer
<1>7. ASSUME (\E s \in Seg : EditSegment(s)) \/ KeepDraft \/ Submit \/ Open \/ Close
                \/ Online \/ Discard
      PROVE  server' = server
  BY <1>7 DEF EditSegment, KeepDraft, Submit, Open, Close, Online, Discard
<1>8. UNCHANGED vars => server' = server
  BY DEF vars
<1> QED BY <1>2, <1>3, <1>4, <1>5, <1>6, <1>7, <1>8 DEF Next, Serving, User

\* Then, too, the server's work on a task is what saving promises: it only
\* moves forward, while somebody holds the task, and is final once handed in.
THEOREM WorkOnlyAdvancesHolds == ASSUME MaxOnline = 0 PROVE Spec => WorkOnlyAdvances
<1> DEFINE Inv == OpenedInv /\ EditsBounded
<1>1. Init => Inv /\ Work!Init
  <2>1. Init => EditsBounded
    BY BoundsAssumption DEF Init, EditsBounded
  <2>2. Init => Work!Init
    BY DEF Init, Work!Init
  <2> QED BY <2>1, <2>2, OpenedInit
<1>2. Inv /\ [Next]_vars => Inv' /\ [Work!Next]_<<server.text, server.stage>>
  BY OpenedStep, EditsStep, WorkStep DEF OpenedInv, RequestInv
<1> QED BY <1>1, <1>2, PTL DEF Spec, WorkOnlyAdvances, Work!Spec
=============================================================================
