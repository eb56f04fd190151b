------------------------------ MODULE LockOrder ------------------------------
(***************************************************************************)
(* The row locks of the server's transactions, in the order in which they   *)
(* are asked for.  Every annotator has published the result of one task,    *)
(* which is called by its author's name; the same annotator may be at work  *)
(* on a correction of it, and the others on a cross-check of it.  A         *)
(* transaction is a list of stages: what the rows say at the beginning of a *)
(* stage decides whether the transaction raises and which rows the          *)
(* statements of the stage lock; its writes are seen when it commits.       *)
(* Lock modes are PostgreSQL's, those a foreign key takes on the row it     *)
(* refers to included.                                                      *)
(***************************************************************************)
EXTENDS Naturals, Sequences, FiniteSets

CONSTANTS Annotators,     \* ids, in the "stable order" users are locked in
          Admins,         \* administrator sessions
          Transactions,   \* connections of the pool
          Operations,     \* what may be asked of the server
          None

ASSUME AnnotatorsAreIds == Annotators \subseteq Nat
ASSUME NoneIsNothing ==
    /\ None \notin Annotators
    /\ None \notin {"in_progress", "awaiting_review", "closed"}
ASSUME PoolIsFinite == IsFiniteSet(Transactions)

VARIABLES active,      \* annotators that may sign in
          published,   \* authors whose result is published
          assigned,    \* for an annotator, the author of the task at hand
          rounds,      \* cross-check of an author's result
          doing,       \* request each transaction serves
          stage, todo, \* how far it got, and locks still to take
          held         \* locks of each transaction

rows == <<active, published, assigned, rounds>>
lockVars == <<rows, doing, stage, todo, held>>

-----------------------------------------------------------------------------
NoRound == [state |-> None, by |-> None]
Open(t) == rounds[t].state \in {"in_progress", "awaiting_review"}
WorkersOn(t) == {u \in Annotators : assigned[u] = t}
CrossChecks(u) == assigned[u] \notin {None, u}

Requests ==
    [does : Operations \cap {"claim"}, by : {None}, of : Annotators,
     task : Annotators]
    \cup {r \in [does : Operations \ {"claim"}, by : Admins \cup {None},
                 of : Annotators, task : Annotators] :
             /\ r.task = r.of
             /\ (r.by # None) <=> (r.does \in {"release", "deactivate",
                      "scope", "revoke", "decide", "cancel", "correct"})}

(* Lock requests.                                                           *)
Ask(kind, of, mode) == [row |-> <<kind, of>>, mode |-> mode, skip |-> FALSE]
ForUpdate(kind, of) == Ask(kind, of, "update")
Updated(kind, of)   == Ask(kind, of, "no_key_update")
Shared(kind, of)    == Ask(kind, of, "share")
Referred(kind, of)  == Ask(kind, of, "key_share")
Skipping(ask)       == [ask EXCEPT !.skip = TRUE]

Conflicting(m, n) ==
    \/ "update" \in {m, n}
    \/ {m, n} \in {{"no_key_update"}, {"no_key_update", "share"}}

RowsOf(kind, ids) == [i \in 1..Cardinality(ids) |->
    ForUpdate(kind, CHOOSE u \in ids : Cardinality({v \in ids : v < u}) = i - 1)]

(* Statements that many transactions share.                                 *)
Fenced(u)      == <<Updated("annotator", u), Shared("session", u)>>
Assignment(us) == RowsOf("assignment", us)
OwnAssignment(u) == Assignment(IF assigned[u] = None THEN {} ELSE {u})
RoundIfOpen(t) == IF Open(t) THEN <<ForUpdate("round", t)>> ELSE <<>>
DraftIfAny(t)  == IF WorkersOn(t) # {} THEN <<ForUpdate("draft", t)>> ELSE <<>>
RoundVersions(t) ==
    <<ForUpdate("published", t)>>
    \o (IF Open(t) THEN <<ForUpdate("draft", t)>> ELSE <<>>)
CancelledRound(t) == <<ForUpdate("round", t), ForUpdate("draft", t)>>
Event(t)       == <<Referred("task", t)>>
TouchedSession(u) == <<Updated("session", u)>> \o OwnAssignment(u)
Concerned(t)   == {t} \cup WorkersOn(t) \cup (IF Open(t) THEN {rounds[t].by} ELSE {})

-----------------------------------------------------------------------------
(* One operator per operation: stage n of it, as the condition under which   *)
(* it goes on and the locks its statements take then.                       *)
Stage(holds, locks) == [holds |-> holds, locks |-> locks]
Enough == Stage(TRUE, <<>>)

Claimable(u, t) ==
    /\ t # u /\ t \in published /\ rounds[t] = NoRound /\ WorkersOn(t) = {}
    /\ assigned[u] = None

Claim(u, t, n) ==
    CASE n = 1 -> Stage(TRUE, Fenced(u))
      [] n = 2 -> Stage(u \in active /\ Claimable(u, t),
                        <<Skipping(ForUpdate("task", t)),
                          Skipping(Referred("annotator", t))>>)
      [] n = 3 -> Stage(Claimable(u, t),
                        <<Referred("published", t), Updated("session", u)>>)

AbandonedWork(u) ==
    IF CrossChecks(u) THEN CancelledRound(assigned[u]) \o Event(assigned[u])
                      ELSE <<Updated("draft", u)>> \o Event(u)

Abandon(u, n) ==
    CASE n = 1 -> Stage(TRUE, Fenced(u))
      [] n = 2 -> Stage(u \in active /\ assigned[u] # None, OwnAssignment(u))
      [] n = 3 -> Stage(assigned[u] # None,
                        IF assigned[u] = None THEN <<>>
                        ELSE AbandonedWork(u) \o <<Updated("session", u)>>)

SaveDraft(u, n) ==
    CASE n = 1 -> Stage(TRUE, Fenced(u))
      [] n = 2 -> Stage(u \in active /\ assigned[u] # None, OwnAssignment(u))
      [] n = 3 -> Stage(assigned[u] # None,
                        IF assigned[u] = None THEN <<>>
                        ELSE (IF CrossChecks(u) THEN CancelledRound(assigned[u])
                              ELSE <<ForUpdate("draft", u)>>) \o TouchedSession(u))

PublishedWork(u) ==
    IF CrossChecks(u)
    THEN <<ForUpdate("task", assigned[u]), ForUpdate("round", assigned[u])>>
         \o RoundVersions(assigned[u])
    ELSE <<ForUpdate("task", u), ForUpdate("draft", u), Updated("published", u)>>

Complete(u, n) ==
    CASE n = 1 -> Stage(TRUE, Fenced(u))
      [] n = 2 -> Stage(u \in active /\ assigned[u] # None, OwnAssignment(u))
      [] n = 3 -> Stage(assigned[u] # None,
                        IF assigned[u] = None THEN <<>>
                        ELSE PublishedWork(u) \o <<Updated("session", u)>>)

Reopen(u, n) ==
    CASE n = 1 -> Stage(TRUE, Fenced(u))
      [] n = 2 -> Stage(u \in active /\ assigned[u] = None,
                        <<ForUpdate("task", u)>>)
      [] n = 3 -> Stage(u \in published, RoundIfOpen(u))
      [] n = 4 -> Stage(~Open(u), DraftIfAny(u))
      [] n = 5 -> Stage(WorkersOn(u) = {} /\ assigned[u] = None,
                        <<Updated("session", u)>>)

Heartbeat(u, n) ==
    CASE n = 1 -> Stage(u \in active, <<Updated("session", u)>>)
      [] n = 2 -> Stage(TRUE, OwnAssignment(u))

Login(u, n) ==
    CASE n = 1 -> Stage(TRUE, <<Updated("annotator", u)>>)
      [] n = 2 -> Stage(u \in active, <<ForUpdate("session", u)>>)

(* What a release of somebody else's assignment does to the work.           *)
ReleasedWork(u) ==
    IF CrossChecks(u) THEN CancelledRound(assigned[u])
                      ELSE <<ForUpdate("draft", u)>>

TaskFirst(x, u, n) ==
    CASE n = 1 -> Stage(TRUE, <<ForUpdate("admin", x)>>)
      [] n = 2 -> Stage(assigned[u] # None,
                        IF assigned[u] = None THEN <<>>
                        ELSE <<ForUpdate("task", assigned[u])>>)
      [] n = 3 -> Stage(TRUE, <<ForUpdate("annotator", u)>> \o OwnAssignment(u))
      [] n = 4 -> Stage(assigned[u] # None,
                        IF assigned[u] = None THEN <<>> ELSE ReleasedWork(u))

Release(x, u, n) ==
    CASE n = 1 -> Stage(TRUE, <<ForUpdate("admin", x)>>)
      [] n = 2 -> Stage(assigned[u] # None, <<ForUpdate("annotator", u)>>)
      [] n = 3 -> Stage(TRUE, OwnAssignment(u))
      [] n = 4 -> Stage(assigned[u] # None,
                        IF assigned[u] = None THEN <<>>
                        ELSE <<ForUpdate("task", assigned[u])>> \o ReleasedWork(u))

CliRelease(u, n) ==
    CASE n = 1 -> Stage(TRUE, <<ForUpdate("annotator", u)>>)
      [] n = 2 -> Stage(assigned[u] # None, OwnAssignment(u))
      [] n = 3 -> Stage(assigned[u] # None,
                        IF assigned[u] = None THEN <<>>
                        ELSE <<ForUpdate("task", assigned[u])>> \o ReleasedWork(u))

Scope(x, u, n) ==
    CASE n = 1 -> Stage(TRUE, <<ForUpdate("admin", x)>>)
      [] n = 2 -> Stage(TRUE, <<ForUpdate("annotator", u)>>)

(* A result that is withdrawn takes its open cross-check with it; the event  *)
(* about it refers to the second annotator.                                 *)
Withdrawn(t) ==
    RoundIfOpen(t) \o RoundVersions(t)
    \o (IF Open(t) THEN <<Referred("annotator", rounds[t].by)>> ELSE <<>>)

DeactivateUser(x, u, n) ==
    CASE n = 1 -> Stage(TRUE, <<ForUpdate("admin", x)>>)
      [] n = 2 -> Stage(TRUE, <<ForUpdate("annotator", u)>>)
      [] n = 3 -> Stage(u \in active,
                        <<ForUpdate("session", u)>> \o OwnAssignment(u)
                        \o (IF assigned[u] = None THEN <<>>
                            ELSE <<ForUpdate("task", assigned[u])>>))
      [] n = 4 -> Stage(TRUE, IF assigned[u] = None THEN <<>> ELSE ReleasedWork(u))
      [] n = 5 -> Stage(TRUE, IF u \in published THEN <<ForUpdate("task", u)>>
                              ELSE <<>>)
      [] n = 6 -> Stage(WorkersOn(u) \subseteq {u},
                        IF u \in published THEN Withdrawn(u) ELSE <<>>)

Revoke(x, t, n) ==
    CASE n = 1 -> Stage(TRUE, <<ForUpdate("admin", x)>>)
      [] n = 2 -> Stage(TRUE, RowsOf("annotator", Concerned(t)))
      [] n = 3 -> Stage(TRUE, Assignment(WorkersOn(t)))
      [] n = 4 -> Stage(TRUE, <<ForUpdate("task", t)>>)
      [] n = 5 -> Stage(t \in published, Withdrawn(t) \o DraftIfAny(t))

Decide(x, t, n) ==
    CASE n = 1 -> Stage(TRUE, <<ForUpdate("admin", x)>>)
      [] n = 2 -> Stage(rounds[t].state = "awaiting_review",
                        RowsOf("annotator", Concerned(t)))
      [] n = 3 -> Stage(TRUE, Assignment(WorkersOn(t)))
      [] n = 4 -> Stage(WorkersOn(t) = {}, <<ForUpdate("task", t)>>)
      [] n = 5 -> Stage(TRUE, RoundIfOpen(t))
      [] n = 6 -> Stage(rounds[t].state = "awaiting_review", RoundVersions(t))

Cancel(x, t, n) ==
    CASE n = 1 -> Stage(TRUE, <<ForUpdate("admin", x)>>)
      [] n = 2 -> Stage(rounds[t].state = "in_progress",
                        RowsOf("annotator", Concerned(t)))
      [] n = 3 -> Stage(TRUE, Assignment(WorkersOn(t)))
      [] n = 4 -> Stage(WorkersOn(t) \subseteq {rounds[t].by},
                        <<ForUpdate("task", t)>>)
      [] n = 5 -> Stage(TRUE, RoundIfOpen(t))
      [] n = 6 -> Stage(rounds[t].state = "in_progress", <<ForUpdate("draft", t)>>)

Correct(x, t, n) ==
    CASE n = 1 -> Stage(TRUE, <<ForUpdate("admin", x)>>)
      [] n = 2 -> Stage(TRUE, <<ForUpdate("task", t)>>)
      [] n = 3 -> Stage(t \in published, RoundIfOpen(t))
      [] n = 4 -> Stage(~Open(t) /\ WorkersOn(t) = {}, <<>>)

(* A late result of the preprocessing finds human work and leaves it alone,  *)
(* after it locked the draft.                                               *)
StorePreprocessed(t, n) ==
    CASE n = 1 -> Stage(TRUE, <<ForUpdate("task", t)>>)
      [] n = 2 -> Stage(TRUE, DraftIfAny(t))

Stages == [claim |-> 3, abandon |-> 3, save_draft |-> 3, complete |-> 3,
           reopen |-> 5, heartbeat |-> 2, login |-> 2, release |-> 4,
           cli_release |-> 3, scope |-> 2, deactivate |-> 6, revoke |-> 5,
           decide |-> 6, cancel |-> 6, correct |-> 4, store |-> 2]

ASSUME OperationsAreKnown == Operations \subseteq DOMAIN Stages

StageOf(r, n) ==
    CASE r.does = "claim"       -> Claim(r.of, r.task, n)
      [] r.does = "abandon"     -> Abandon(r.of, n)
      [] r.does = "save_draft"  -> SaveDraft(r.of, n)
      [] r.does = "complete"    -> Complete(r.of, n)
      [] r.does = "reopen"      -> Reopen(r.of, n)
      [] r.does = "heartbeat"   -> Heartbeat(r.of, n)
      [] r.does = "login"       -> Login(r.of, n)
      [] r.does = "release"     -> Release(r.by, r.of, n)
      [] r.does = "cli_release" -> CliRelease(r.of, n)
      [] r.does = "scope"       -> Scope(r.by, r.of, n)
      [] r.does = "deactivate"  -> DeactivateUser(r.by, r.of, n)
      [] r.does = "revoke"      -> Revoke(r.by, r.task, n)
      [] r.does = "decide"      -> Decide(r.by, r.task, n)
      [] r.does = "cancel"      -> Cancel(r.by, r.task, n)
      [] r.does = "correct"     -> Correct(r.by, r.task, n)
      [] r.does = "store"       -> StorePreprocessed(r.task, n)

-----------------------------------------------------------------------------
(* What a request writes, seen by the others when its transaction commits.   *)
Freed(r) ==
    CASE r.does \in {"abandon", "complete", "release", "cli_release",
                     "deactivate"} -> {r.of}
      [] r.does \in {"revoke", "cancel"} -> WorkersOn(r.task)
      [] OTHER -> {}

ClosedRounds(r) ==
    (IF r.does \in {"abandon", "release", "cli_release", "deactivate"}
        /\ CrossChecks(r.of) THEN {assigned[r.of]} ELSE {})
    \cup (IF r.does \in {"deactivate", "revoke", "decide", "cancel"}
          THEN {r.task} ELSE {})

Taken(r) == CASE r.does = "claim" -> r.task [] r.does = "reopen" -> r.of
              [] OTHER -> None

Round(state, by) == [state |-> state, by |-> by]

Written(r) ==
    /\ active' = IF r.does = "deactivate" THEN active \ {r.of} ELSE active
    /\ published' = IF r.does \in {"deactivate", "revoke"}
                    THEN published \ {r.task} ELSE published
    /\ assigned' = [u \in Annotators |->
            IF u \in Freed(r) THEN None
            ELSE IF u = r.of /\ Taken(r) # None THEN Taken(r) ELSE assigned[u]]
    /\ rounds' = [t \in Annotators |->
            IF t \in ClosedRounds(r) /\ Open(t) THEN Round("closed", None)
            ELSE IF r.does = "claim" /\ t = r.task
                 THEN Round("in_progress", r.of)
            ELSE IF r.does = "complete" /\ CrossChecks(r.of)
                    /\ t = assigned[r.of]
                 THEN Round("awaiting_review", r.of)
            ELSE rounds[t]]

-----------------------------------------------------------------------------
Blockers(c) ==
    IF todo[c] = <<>> THEN {}
    ELSE {d \in Transactions \ {c} : \E lock \in held[d] :
            /\ lock.row = Head(todo[c]).row
            /\ Conflicting(lock.mode, Head(todo[c]).mode)}

(* Everybody in the circle waits for somebody in it.                        *)
Circle(circle) ==
    /\ circle # {}
    /\ \A c \in circle : /\ todo[c] # <<>> /\ ~Head(todo[c]).skip
                         /\ Blockers(c) \cap circle # {}

Unused(c) == doing[c] = None

Ended(c) ==
    /\ doing' = [doing EXCEPT ![c] = None]
    /\ stage' = [stage EXCEPT ![c] = 0]
    /\ todo'  = [todo EXCEPT ![c] = <<>>]
    /\ held'  = [held EXCEPT ![c] = {}]

Begin(c) ==
    /\ Unused(c)
    /\ \E r \in Requests : doing' = [doing EXCEPT ![c] = r]
    /\ UNCHANGED <<rows, stage, todo, held>>

NextStage(c) == StageOf(doing[c], stage[c] + 1)
Ready(c) == ~Unused(c) /\ todo[c] = <<>>
Remaining(c) == stage[c] < Stages[doing[c].does]

Proceed(c) ==
    /\ Ready(c) /\ Remaining(c) /\ NextStage(c).holds
    /\ stage' = [stage EXCEPT ![c] = @ + 1]
    /\ todo'  = [todo EXCEPT ![c] = NextStage(c).locks]
    /\ UNCHANGED <<rows, doing, held>>

Raise(c) ==
    /\ Ready(c) /\ Remaining(c) /\ ~NextStage(c).holds
    /\ Ended(c) /\ UNCHANGED rows

Acquire(c) ==
    /\ todo[c] # <<>> /\ Blockers(c) = {}
    /\ held' = [held EXCEPT ![c] = @ \cup
                 {[row |-> Head(todo[c]).row, mode |-> Head(todo[c]).mode]}]
    /\ todo' = [todo EXCEPT ![c] = Tail(@)]
    /\ UNCHANGED <<rows, doing, stage>>

(* SKIP LOCKED: a claim leaves the candidate to whoever holds it.           *)
SkipLocked(c) ==
    /\ todo[c] # <<>> /\ Head(todo[c]).skip /\ Blockers(c) # {}
    /\ Ended(c) /\ UNCHANGED rows

CommitRows(c) ==
    /\ Ready(c) /\ ~Remaining(c)
    /\ Written(doing[c])
    /\ Ended(c)

(* The database ends one transaction of a circle; the request fails.        *)
DeadlockDetected(c) ==
    /\ \E circle \in SUBSET Transactions : c \in circle /\ Circle(circle)
    /\ Ended(c) /\ UNCHANGED rows

Step(c) == \/ Begin(c) \/ Proceed(c) \/ Raise(c) \/ Acquire(c)
           \/ SkipLocked(c) \/ CommitRows(c) \/ DeadlockDetected(c)

LockNext == \E c \in Transactions : Step(c)

-----------------------------------------------------------------------------
(* Annotators at work on what they may be at work on.                       *)
Consistent ==
    /\ \A u \in Annotators : assigned[u] # None =>
          /\ WorkersOn(assigned[u]) = {u}
          /\ CrossChecks(u) => rounds[assigned[u]] = Round("in_progress", u)
    /\ \A t \in Annotators :
          rounds[t].state = "in_progress" => WorkersOn(t) = {rounds[t].by}
    /\ \A t \in Annotators : rounds[t].by # t

LockInit ==
    /\ active = Annotators /\ published = Annotators
    /\ assigned \in [Annotators -> Annotators \cup {None}]
    /\ rounds \in [Annotators -> {NoRound}
                      \cup {Round(s, u) : s \in {"in_progress", "awaiting_review"},
                                          u \in Annotators}]
    /\ Consistent
    /\ \A u \in Annotators : assigned[u] = u => ~Open(u)
    /\ doing = [c \in Transactions |-> None]
    /\ stage = [c \in Transactions |-> 0]
    /\ todo = [c \in Transactions |-> <<>>]
    /\ held = [c \in Transactions |-> {}]

LockSpec == LockInit /\ [][LockNext]_lockVars

(* A transaction whose lock is free gets it in its turn, and the database    *)
(* breaks a circle.                                                         *)
FairLockSpec ==
    LockSpec /\ \A c \in Transactions :
        /\ WF_lockVars(Proceed(c) \/ Raise(c) \/ CommitRows(c) \/ SkipLocked(c))
        /\ SF_lockVars(Acquire(c)) /\ SF_lockVars(DeadlockDetected(c))
=============================================================================
