---------------------------- MODULE DraftProperties ----------------------------
(***************************************************************************)
(* What the autosave, the outbox and the operations table promise          *)
(* together.                                                               *)
(***************************************************************************)
EXTENDS DraftSync

-----------------------------------------------------------------------------
(* Nothing is shown, or kept, as saved that is not                         *)

\* On the revision the server has, every segment the page does not count as
\* unsaved is the server's: an edit made while a save was under way is not
\* taken for saved with it (capturePendingSave, flushDirty).
PageIsHonest ==
    (Working /\ server.stage = "held"
       /\ page.lease = server.lease /\ page.rev = server.rev) =>
        \A s \in Seg \ Unconfirmed : page.text[s] = server.text[s]

\* The same of the copy in IndexedDB, which may be restored after a crash: it
\* is dirty wherever it differs from the revision it names, although answers
\* are booked in it that overtook edits (confirmOutbox).
DraftIsHonest ==
    (draft # NoDraft /\ server.stage = "held"
       /\ draft.lease = server.lease /\ draft.rev = server.rev) =>
        \A s \in Seg \ draft.dirty : draft.text[s] = server.text[s]

\* What is not counted as unsaved is saved: on the page, and in the copy that a
\* crash leaves behind. DraftProofs has it for every page that replays its outbox
\* on opening only; with three "online" events the code breaks it (index.html:389),
\* which is beyond the one event of DraftSync.cfg.
SavedMeansSaved == PageIsHonest /\ DraftIsHonest

\* A request that took effect is never refused afterwards, however often it is
\* sent again after its answer got lost, and one that was refused never takes
\* effect late (_operation_replay before the checks of lease and revision).
NoSecondOpinion ==
    \A a \in answers : a.result \in {"revision", "unassigned", "lease"} => a.req \notin applied

-----------------------------------------------------------------------------
(* Refinement                                                              *)

Work == INSTANCE SavedWork WITH text <- server.text, stage <- server.stage

\* Behind all resending, the work on the server only moves forward, only while
\* somebody holds the task, and is final once handed in: a request that was
\* delayed past newer saves, a release or the completion changes nothing. The
\* same restriction applies as to SavedMeansSaved.
WorkOnlyAdvances == Work!Spec

-----------------------------------------------------------------------------
(* Liveness                                                                *)

\* A page that stays open comes to rest with nothing unsaved, through losses and saves
\* under way (SavedMeansSaved says that the server has it then), unless it asks the user
\* what to do.  A page whose lease is gone never comes to rest: it is turned away with a
\* 403, which flushDirty takes for a network that failed, and tries again for ever.
LeaseGone == server.stage # "held" \/ page.lease # server.lease
EditsArrive ==
    Unconfirmed # {} ~>
        (Unconfirmed = {} \/ ~ Working \/ page.blocked \/ LeaseGone \/ used.ops = MaxOps)

-----------------------------------------------------------------------------
(* What the documents say and the code does not do                         *)

\* While the conflict is on display, with the words "The local copy has not
\* been applied or overwritten", the local copy stays (showLocalConflict).
ConflictCopyKept ==
    [][page.conflict /\ page'.conflict => draft' = draft]_vars

\* Local edits that the server does not have stay in IndexedDB until the user
\* discards them, so that they can be restored or exported.
LocalWorkKept ==
    [][~ Discard => \A s \in draft.dirty :
            \/ draft'.text[s] >= draft.text[s]
            \/ server'.text[s] >= draft.text[s]]_vars

=============================================================================
