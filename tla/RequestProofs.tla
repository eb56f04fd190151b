---------------------------- MODULE RequestProofs ----------------------------
(***************************************************************************)
(* The safety of requests.  First the locks of the server's transactions,  *)
(* for every number of annotators, administrators and connections: circles *)
(* of waiting go through the statements that are known to ask late, and    *)
(* what is decided under the locks stays true until it is written.  Then   *)
(* the safety properties of the annotator session, for every number of     *)
(* browsers and logins, every policy and every lag.                        *)
(*                                                                         *)
(* The locks: every lock a transaction holds is backed by one that whoever *)
(* wants the same row has to take first, and what it asks for is above all *)
(* it holds, but for some requests that nobody waits for in turn.  Who     *)
(* waits in a circle would then stand lower than whom it waits for, all    *)
(* the way round.                                                          *)
(***************************************************************************)
EXTENDS SessionProperties, LockProperties, FiniteSetTheorems, TLAPS

-----------------------------------------------------------------------------
(* Types *)

Kinds == {"admin", "annotator", "session", "assignment", "task", "round", "draft",
          "published"}

\* The order in which the kinds of rows are locked; a round is locked before its
\* draft, and what is below the task before it.
Level(kind) ==
    CASE kind = "admin" -> 0
      [] kind = "annotator" -> 1
      [] kind = "session" -> 2
      [] kind = "assignment" -> 3
      [] kind = "task" -> 4
      [] kind = "round" -> 5
      [] OTHER -> 6

Modes == {"update", "no_key_update", "share", "key_share"}

\* What may be locked, how, and how it is asked for.
LockedRows == ({"admin"} \X (Admins \cup {None})) \cup ((Kinds \ {"admin"}) \X Annotators)
LockSet == [row : LockedRows, mode : Modes]
Asks == [row : LockedRows, mode : Modes, skip : BOOLEAN]
States == {None, "in_progress", "awaiting_review", "closed"}

-----------------------------------------------------------------------------
(* What a lock rests on *)
LockOn(kind, of, mode) == [row |-> <<kind, of>>, mode |-> mode]
Holds(B, kind, of, mode) == LockOn(kind, of, mode) \in B
Updates(B, kind, of) == Holds(B, kind, of, "update")

\* The requests that save the work at hand lock its round before any task.
Savers == {"abandon", "save_draft"}

\* Who holds the lock l among the locks B, to serve request r, holds another
\* one that whoever wants that row has to hold as well.
Backed(r, B, l) ==
    LET of == l.row[2]
    IN  /\ l.row[1] = "published" => Updates(B, "task", of)
        /\ l.row[1] = "round" => Updates(B, "task", of) \/ r.does \in Savers
        /\ l.row[1] = "draft" => \/ Updates(B, "task", of) \/ Updates(B, "round", of)
                                 \/ Holds(B, "annotator", of, "no_key_update")
        /\ l.row[1] = "draft" /\ r.does = "deactivate" /\ of # r.of =>
               Updates(B, "round", of)
        /\ l.row[1] = "session" /\ l.mode = "share" =>
               Holds(B, "annotator", of, "no_key_update")

\* Row p is locked before row q: by kind, and by id where several are locked.
Lower(p, q) ==
    \/ Level(p[1]) < Level(q[1])
    \/ p[1] = q[1] /\ p[1] \in {"annotator", "assignment"} /\ p[2] < q[2]

\* Request a is for a row above every lock held, but for published results,
\* which are asked for under their task only.
Above(B, a) == \A l \in B : l.row[1] = "published" \/ Lower(l.row, a.row)

\* What AsksLate allows to be asked for out of order.
Late(r, kind) == \/ r.does = "abandon"    /\ kind = "task"
                 \/ r.does = "deactivate" /\ kind \in {"task", "annotator"}
                 \/ r.does = "revoke"     /\ kind = "annotator"

\* a deactivation comes to the cross-check of the annotator's own result
OwnRound(r, a) == r.does = "deactivate" /\ a.row = <<"round", r.of>>
OwnDraft(r, B, a) ==
    r.does = "deactivate" /\ a.row = <<"draft", r.of>> /\ Updates(B, "round", r.of)

\* The session row that was read with a share lock is written at the end.
Upgrade(B, a) == /\ a.row[1] = "session" /\ a.mode = "no_key_update"
                 /\ [row |-> a.row, mode |-> "share"] \in B

\* What may be asked for at any time: it does not wait, or for nobody who waits
\* for this transaction, or it is one of the three statements of AsksLate.
Exempt(r, B, a) ==
    \/ a.skip
    \/ a.row[1] = "published"
    \/ [row |-> a.row, mode |-> "update"] \in B
    \/ Upgrade(B, a)
    \/ Late(r, a.row[1])
    \/ OwnRound(r, a)
    \/ OwnDraft(r, B, a)

\* The lock that a request gets.
LockOf(a) == [row |-> a.row, mode |-> a.mode]

\* Request a may follow the locks B.
Fit(r, B, a) ==
    /\ Backed(r, B, LockOf(a))
    /\ Exempt(r, B, a) \/ Above(B, a)
    /\ OwnRound(r, a) => \A l \in B : l.row # <<"draft", r.of>>
    /\ r.does = "deactivate" /\ a.row[1] = "draft" => Updates(B, "annotator", r.of)
    /\ r.does \in Savers /\ a.row[1] = "draft" /\ (\E l \in B : l.row[1] = "round") =>
          Updates(B, "round", a.row[2])

\* The locks of the requests before the i-th, and of all of them.
Earlier(s, i) == {LockOf(s[j]) : j \in 1..(i - 1)}
Locks(s) == {LockOf(s[j]) : j \in 1..Len(s)}

\* The requests s, one after the other, may follow the locks B.
InOrder(r, B, s) == \A i \in 1..Len(s) : Fit(r, B \cup Earlier(s, i), s[i])

\* No lock is above level k.
Under(B, k) == \A l \in B : l.row[1] = "published" \/ Level(l.row[1]) <= k

\* The level that the locks of a transaction do not pass, stage by stage.
Tops == [claim |-> <<2, 6, 6>>, abandon |-> <<2, 3, 6>>, save_draft |-> <<2, 3, 6>>,
         complete |-> <<2, 3, 6>>, reopen |-> <<2, 4, 5, 6, 6>>,
         heartbeat |-> <<2, 6>>, login |-> <<1, 6>>, release |-> <<0, 1, 3, 6>>,
         cli_release |-> <<1, 3, 6>>, scope |-> <<0, 6>>,
         deactivate |-> <<0, 1, 4, 6, 6, 6>>, revoke |-> <<0, 1, 3, 4, 6>>,
         decide |-> <<0, 1, 3, 4, 5, 6>>, cancel |-> <<0, 1, 3, 4, 5, 6>>,
         correct |-> <<0, 4, 6, 6>>, store |-> <<4, 6>>]

-----------------------------------------------------------------------------
\* since stage m, of a transaction in stage n
TakenFrom(m, n, B, S, l) == (n >= m => l \in S) /\ (n > m => l \in B)

\* The requests that begin with the fence of a session.
Fencing == {"claim", "abandon", "save_draft", "complete", "reopen"}

\* The locks that the stages of a request are known to have taken: B are held,
\* and S are held or asked for.
HasLocks(r, n, B, S) ==
    LET Has(m, kind, of, mode) == TakenFrom(m, n, B, S, LockOn(kind, of, mode))
    IN  /\ r.does \in Fencing => Has(1, "annotator", r.of, "no_key_update")
                                 /\ Has(1, "session", r.of, "share")
        /\ r.does = "claim" => Has(2, "task", r.task, "update")
        /\ r.does = "save_draft" => Has(2, "assignment", r.of, "update")
        /\ r.does = "reopen" => Has(2, "task", r.of, "update")
        /\ r.does \in {"release", "deactivate"} => Has(2, "annotator", r.of, "update")
        /\ r.does = "cli_release" => Has(1, "annotator", r.of, "update")
        /\ r.does \in {"revoke", "decide", "cancel"} => Has(4, "task", r.task, "update")
        /\ r.does = "correct" => Has(2, "task", r.task, "update")
        /\ r.does = "store" => Has(1, "task", r.task, "update")
        /\ r.does = "deactivate" /\ r.of \in published => Has(5, "task", r.of, "update")

\* What a stage saw and a later one rests on; it stays true because of the
\* locks that are held in between.
Relies(r, n, B, S) ==
    LET u == r.of t == r.task
    IN  /\ r.does = "claim" /\ n = 3 => Claimable(u, t)
        /\ r.does = "reopen" /\ n >= 4 => ~Open(u)
        /\ r.does = "reopen" /\ n = 5 => WorkersOn(u) = {} /\ assigned[u] = None
        /\ r.does = "decide" /\ n >= 2 => rounds[t].state \in {"awaiting_review", "closed"}
        /\ r.does = "deactivate" /\ n = 3 /\ assigned[u] # None =>
              Updates(S, "task", assigned[u])
        /\ r.does = "deactivate" /\ n \in 4..5 /\ (\E l \in S : l.row = <<"draft", u>>) =>
              ~Open(u) /\ Updates(B, "task", u)
        /\ r.does = "deactivate" /\ n = 6 /\ u \in published => WorkersOn(u) \subseteq {u}

\* A transaction in stage n holds the locks B and still asks for s.
Steady(r, n, B, s) ==
    /\ \A l \in B : Backed(r, B, l)
    /\ InOrder(r, B, s)
    /\ n > 0 => Under(B \cup Locks(s), Tops[r.does][n])
    /\ HasLocks(r, n, B, B \cup Locks(s))
    /\ Relies(r, n, B, B \cup Locks(s))

\* Nobody holds a lock that conflicts with a lock of another.
Exclusive ==
    \A c, d \in Transactions : c # d =>
        \A l \in held[c], m \in held[d] : l.row = m.row => ~Conflicting(l.mode, m.mode)

\* The rows are what they should be.
RowsTyped ==
    /\ assigned \in [Annotators -> Annotators \cup {None}]
    /\ rounds \in [Annotators -> [state : States, by : Annotators \cup {None}]]

\* Work and rounds agree, also where Consistent says nothing: who corrects an
\* own result does not do so during a cross-check, and a cross-check is of a
\* published result and has its annotator.
RowsAgree ==
    /\ Consistent
    /\ \A u \in Annotators : assigned[u] = u => ~Open(u)
    /\ \A t \in Annotators : Open(t) => t \in published /\ rounds[t].by \in Annotators

\* The transactions are what they should be; one that is not begun has nothing.
TransactionsTyped ==
    /\ doing \in [Transactions -> Requests \cup {None}]
    /\ stage \in [Transactions -> Nat]
    /\ todo \in [Transactions -> Seq(Asks)]
    /\ held \in [Transactions -> SUBSET LockSet]
    /\ \A c \in Transactions :
          /\ Unused(c) => stage[c] = 0
          /\ stage[c] = 0 => todo[c] = <<>> /\ held[c] = {}
          /\ ~Unused(c) => stage[c] <= Stages[doing[c].does]

\* The inductive invariant.
LockInv ==
    /\ RowsTyped /\ RowsAgree
    /\ TransactionsTyped
    /\ Exclusive
    /\ \A c \in Transactions :
          Unused(c) \/ Steady(doing[c], stage[c], held[c], todo[c])

\* What the statements of a stage add: requests in order, up to level k.
Orderly(r, B, s, k) == /\ s \in Seq(Asks)
                       /\ InOrder(r, B, s)
                       /\ Under(B \cup Locks(s), k)

-----------------------------------------------------------------------------
(* Lists of requests *)

\* No requests take no locks.
LEMMA Nothing ==
    /\ Locks(<<>>) = {}
    /\ \A r, B, k : Under(B, k) => Orderly(r, B, <<>>, k)
BY DEF Orderly, InOrder, Locks, Under

\* A list of one request that fits is in order.
LEMMA Single ==
    ASSUME NEW r, NEW B, NEW a \in Asks, NEW k \in Nat, Fit(r, B, a), Under(B, k),
           a.row[1] = "published" \/ Level(a.row[1]) <= k
    PROVE  Orderly(r, B, <<a>>, k) /\ Locks(<<a>>) = {LockOf(a)}
<1>1. Len(<<a>>) = 1 /\ <<a>>[1] = a /\ <<a>> \in Seq(Asks)
  OBVIOUS
<1>2. Locks(<<a>>) = {LockOf(a)}
  BY <1>1 DEF Locks
<1>3. Earlier(<<a>>, 1) = {}
  BY DEF Earlier
<1>4. InOrder(r, B, <<a>>)
  <2>1. B \cup Earlier(<<a>>, 1) = B
    BY <1>3
  <2>2. 1..Len(<<a>>) = {1}
    BY <1>1
  <2>3. ASSUME NEW i \in 1..Len(<<a>>)
        PROVE  Fit(r, B \cup Earlier(<<a>>, i), <<a>>[i])
    <3>1. i = 1
      BY <2>2
    <3> QED BY <1>1, <2>1, <3>1
  <2> QED BY <2>3 DEF InOrder
<1>5. Under(B \cup {LockOf(a)}, k)
  BY DEF Under, LockOf
<1> QED BY <1>1, <1>2, <1>4, <1>5 DEF Orderly

\* Two lists of requests take the locks of both.
LEMMA LocksJoined ==
    ASSUME NEW s \in Seq(Asks), NEW z \in Seq(Asks)
    PROVE  Locks(s \o z) = Locks(s) \cup Locks(z)
<1> DEFINE w == s \o z
<1>2. /\ w \in Seq(Asks) /\ Len(w) = Len(s) + Len(z)
      /\ Len(s) \in Nat /\ Len(z) \in Nat
      /\ \A i \in 1..Len(s) : w[i] = s[i]
      /\ \A i \in 1..Len(z) : w[Len(s) + i] = z[i]
  OBVIOUS
<1> HIDE DEF w
<1>1. ASSUME NEW j \in 1..Len(w) PROVE LockOf(w[j]) \in Locks(s) \cup Locks(z)
  <2>1. CASE j <= Len(s)  BY <2>1, <1>2 DEF Locks
  <2>2. CASE j > Len(s)
    <3>1. j - Len(s) \in 1..Len(z)  BY <2>2, <1>2
    <3>2. w[Len(s) + (j - Len(s))] = z[j - Len(s)]  BY <3>1, <1>2
    <3>3. Len(s) + (j - Len(s)) = j  BY <1>2
    <3> QED BY <3>1, <3>2, <3>3 DEF Locks
  <2> QED BY <2>1, <2>2, <1>2
<1>3. ASSUME NEW j \in 1..Len(s) PROVE LockOf(s[j]) \in Locks(w)
  <2>1. j \in 1..Len(w) /\ w[j] = s[j]  BY <1>2
  <2> QED BY <2>1 DEF Locks
<1>4. ASSUME NEW j \in 1..Len(z) PROVE LockOf(z[j]) \in Locks(w)
  <2>1. Len(s) + j \in 1..Len(w) /\ w[Len(s) + j] = z[j]  BY <1>2
  <2> QED BY <2>1 DEF Locks
<1>5. Locks(w) = Locks(s) \cup Locks(z)
  BY <1>1, <1>3, <1>4 DEF Locks
<1> QED BY <1>5 DEF w

\* What is in order after what is in order is in order.
LEMMA Joined ==
    ASSUME NEW r, NEW B, NEW C, NEW s, NEW z, NEW k, NEW m,
           Orderly(r, B, s, k), C = B \cup Locks(s), Orderly(r, C, z, m)
    PROVE  Orderly(r, B, s \o z, m)
<1> DEFINE w == s \o z
<1>1. s \in Seq(Asks) /\ z \in Seq(Asks)
  BY DEF Orderly
<1>2. /\ w \in Seq(Asks) /\ Len(w) = Len(s) + Len(z)
      /\ Len(s) \in Nat /\ Len(z) \in Nat
      /\ \A i \in 1..Len(s) : w[i] = s[i]
      /\ \A i \in 1..Len(z) : w[Len(s) + i] = z[i]
  BY <1>1
<1> HIDE DEF w
<1>3. ASSUME NEW i \in 1..Len(w), i > Len(s)
      PROVE  i - Len(s) \in 1..Len(z) /\ w[i] = z[i - Len(s)]
  BY <1>2, <1>3
<1>4. Locks(w) = Locks(s) \cup Locks(z)
  BY <1>1, LocksJoined DEF w
<1>5. ASSUME NEW i \in 1..Len(s) PROVE Earlier(w, i) = Earlier(s, i)
  <2>1. \A j \in 1..(i - 1) : w[j] = s[j]  BY <1>2
  <2> QED BY <2>1 DEF Earlier
<1>6. ASSUME NEW i \in 1..Len(z)
      PROVE  Earlier(w, Len(s) + i) = Locks(s) \cup Earlier(z, i)
  <2>1. ASSUME NEW j \in 1..(Len(s) + i - 1)
        PROVE  LockOf(w[j]) \in Locks(s) \cup Earlier(z, i)
    <3>1. CASE j <= Len(s)  BY <3>1, <1>2 DEF Locks
    <3>2. CASE j > Len(s)
      <4>1. j - Len(s) \in 1..(i - 1) /\ j \in 1..Len(w)  BY <3>2, <1>2
      <4>2. w[j] = z[j - Len(s)]  BY <4>1, <3>2, <1>3
      <4> QED BY <4>1, <4>2 DEF Earlier
    <3> QED BY <3>1, <3>2, <1>2
  <2>2. ASSUME NEW j \in 1..Len(s) PROVE LockOf(s[j]) \in Earlier(w, Len(s) + i)
    <3>1. j \in 1..(Len(s) + i - 1) /\ w[j] = s[j]  BY <1>2
    <3> QED BY <3>1 DEF Earlier
  <2>3. ASSUME NEW j \in 1..(i - 1) PROVE LockOf(z[j]) \in Earlier(w, Len(s) + i)
    <3>1. Len(s) + j \in 1..(Len(s) + i - 1) /\ w[Len(s) + j] = z[j]  BY <1>2
    <3> QED BY <3>1 DEF Earlier
  <2> QED BY <2>1, <2>2, <2>3 DEF Earlier, Locks
<1>7. ASSUME NEW i \in 1..Len(w) PROVE Fit(r, B \cup Earlier(w, i), w[i])
  <2>1. CASE i <= Len(s)
    <3>1. i \in 1..Len(s)  BY <2>1, <1>2
    <3>2. Fit(r, B \cup Earlier(s, i), s[i])  BY <3>1 DEF Orderly, InOrder
    <3> QED BY <3>1, <3>2, <1>2, <1>5
  <2>2. CASE i > Len(s)
    <3>1. i - Len(s) \in 1..Len(z) /\ w[i] = z[i - Len(s)]  BY <2>2, <1>3
    <3>2. Fit(r, (B \cup Locks(s)) \cup Earlier(z, i - Len(s)), z[i - Len(s)])
      BY <3>1 DEF Orderly, InOrder
    <3>3. Earlier(w, i) = Locks(s) \cup Earlier(z, i - Len(s))
      <4>1. Len(s) + (i - Len(s)) = i  BY <1>2
      <4> QED BY <4>1, <3>1, <1>6
    <3>4. (B \cup Locks(s)) \cup Earlier(z, i - Len(s)) = B \cup Earlier(w, i)
      BY <3>3
    <3> QED BY <3>1, <3>2, <3>4
  <2> QED BY <2>1, <2>2, <1>2
<1>8. Under(B \cup Locks(w), m)
  <2>1. (B \cup Locks(s)) \cup Locks(z) = B \cup Locks(w)  BY <1>4
  <2> QED BY <2>1 DEF Orderly
<1> QED BY <1>2, <1>7, <1>8 DEF Orderly, InOrder, w

\* Lists are equal when their elements are.
LEMMA SeqEqual ==
    ASSUME NEW s \in Seq(Asks), NEW z \in Seq(Asks), Len(s) = Len(z),
           \A i \in 1..Len(s) : s[i] = z[i]
    PROVE  s = z
OBVIOUS

\* The lock a list of one takes.
LEMMA LocksOfOne == \A a \in Asks : Locks(<<a>>) = {LockOf(a)}
<1> SUFFICES ASSUME NEW a \in Asks PROVE Locks(<<a>>) = {LockOf(a)}
  OBVIOUS
<1>1. Len(<<a>>) = 1 /\ <<a>>[1] = a
  OBVIOUS
<1> QED BY <1>1 DEF Locks

\* A list of two requests, each in order after what comes before it.
LEMMA Two ==
    ASSUME NEW r, NEW B, NEW a \in Asks, NEW b \in Asks, NEW k, NEW m,
           Orderly(r, B, <<a>>, k), Orderly(r, B \cup {LockOf(a)}, <<b>>, m)
    PROVE  Orderly(r, B, <<a, b>>, m) /\ Locks(<<a, b>>) = {LockOf(a), LockOf(b)}
<1> DEFINE w == <<a>> \o <<b>>
<1>1. <<a, b>> = <<a>> \o <<b>>
  <2>1. <<a>> \in Seq(Asks) /\ <<b>> \in Seq(Asks) /\ <<a, b>> \in Seq(Asks)
    OBVIOUS
  <2>2. w \in Seq(Asks) /\ Len(w) = 2 /\ w[1] = a /\ w[2] = b
    BY <2>1
  <2> HIDE DEF w
  <2>3. w = <<a, b>>
    <3>1. Len(<<a, b>>) = 2 /\ <<a, b>>[1] = a /\ <<a, b>>[2] = b  OBVIOUS
    <3>2. \A i \in 1..2 : w[i] = <<a, b>>[i]  BY <2>2, <3>1
    <3> QED BY <2>1, <2>2, <3>1, <3>2, SeqEqual
  <2> QED BY <2>3 DEF w
<1>2. Locks(<<a>>) = {LockOf(a)} /\ Locks(<<b>>) = {LockOf(b)}
  BY LocksOfOne
<1>3. Orderly(r, B \cup Locks(<<a>>), <<b>>, m)
  BY <1>2
<1>4. Orderly(r, B, <<a>> \o <<b>>, m) /\ Locks(<<a>> \o <<b>>) = Locks(<<a>>) \cup Locks(<<b>>)
  <2> DEFINE s == <<a>> z == <<b>> C == B \cup Locks(s)
  <2>1. Orderly(r, B, s, k) /\ Orderly(r, C, z, m) /\ C = B \cup Locks(s)
    BY <1>3
  <2> HIDE DEF s, z, C
  <2>2. Orderly(r, B, s \o z, m)
    BY <2>1, Joined
  <2>3. Locks(s \o z) = Locks(s) \cup Locks(z)
    BY <2>1, LocksJoined DEF Orderly
  <2> QED BY <2>2, <2>3 DEF s, z
<1> QED BY <1>1, <1>2, <1>4

\* A bound on the levels may be raised.
LEMMA UnderMore ==
    ASSUME NEW B, NEW k \in Nat, NEW m \in Nat, Under(B, k), k <= m
    PROVE  Under(B, m)
<1> SUFFICES ASSUME NEW l \in B, l.row[1] # "published" PROVE Level(l.row[1]) <= m
  BY DEF Under
<1>1. Level(l.row[1]) <= k /\ Level(l.row[1]) \in Nat
  BY DEF Under, Level
<1> QED BY <1>1

\* A request is a request, and takes the lock it names.
LEMMA AskTyped ==
    ASSUME NEW kind \in Kinds \ {"admin"}, NEW u \in Annotators, NEW mode \in Modes
    PROVE  /\ Ask(kind, u, mode) \in Asks
           /\ Skipping(Ask(kind, u, mode)) \in Asks
           /\ LockOf(Ask(kind, u, mode)) = LockOn(kind, u, mode)
           /\ LockOf(Skipping(Ask(kind, u, mode))) = LockOn(kind, u, mode)
BY DEF Ask, Asks, LockedRows, LockOf, LockOn, Skipping

\* A request above the bound is above every lock.
LEMMA AboveAll ==
    ASSUME NEW B, NEW k \in Nat, NEW a, Under(B, k), Level(a.row[1]) > k
    PROVE  Above(B, a)
<1> SUFFICES ASSUME NEW l \in B, l.row[1] # "published" PROVE Lower(l.row, a.row)
  BY DEF Above
<1>1. Level(l.row[1]) <= k /\ Level(l.row[1]) \in Nat /\ Level(a.row[1]) \in Nat
  BY DEF Under, Level
<1> QED BY <1>1 DEF Lower

-----------------------------------------------------------------------------
(* What a transaction may ask for, by kind of row *)

\* One lemma for all of them: what fits is in order, and raises the level.
LEMMA Asked ==
    ASSUME NEW r, NEW B, NEW k \in Nat, NEW m \in Nat, Under(B, k), k <= m,
           NEW kind \in Kinds \ {"admin"}, NEW u \in Annotators, NEW mode \in Modes,
           kind = "published" \/ Level(kind) <= m,
           Fit(r, B, Ask(kind, u, mode))
    PROVE  /\ Orderly(r, B, <<Ask(kind, u, mode)>>, m)
           /\ Locks(<<Ask(kind, u, mode)>>) = {LockOn(kind, u, mode)}
<1> DEFINE a == Ask(kind, u, mode)
<1>1. a \in Asks /\ LockOf(a) = LockOn(kind, u, mode)
  BY AskTyped
<1>2. a.row[1] = kind
  BY DEF Ask
<1>3. Under(B, m)
  BY UnderMore
<1> QED BY <1>1, <1>2, <1>3, Single

\* A task is asked for after annotators, sessions and assignments.
LEMMA AskTask ==
    ASSUME NEW r, NEW B, NEW t \in Annotators, Under(B, 3)
    PROVE  /\ Orderly(r, B, <<ForUpdate("task", t)>>, 4)
           /\ Locks(<<ForUpdate("task", t)>>) = {LockOn("task", t, "update")}
<1>1. Level("task") = 4
  BY DEF Level
<1>2. Above(B, Ask("task", t, "update"))
  BY <1>1, AboveAll DEF Ask
<1>3. Fit(r, B, Ask("task", t, "update"))
  BY <1>2 DEF Fit, Backed, Ask, LockOf, OwnRound
<1>9. "task" \in Kinds \ {"admin"} /\ "update" \in Modes /\ Level("task") <= 4
  BY DEF Kinds, Modes, Level
<1> QED BY <1>3, <1>9, Asked DEF ForUpdate

\* A round is asked for after its task, or to save or abandon it.
LEMMA AskRound ==
    ASSUME NEW r, NEW B, NEW t \in Annotators, Under(B, 4),
           Updates(B, "task", t) \/ r.does \in Savers,
           r.does = "deactivate" => t # r.of
    PROVE  /\ Orderly(r, B, <<ForUpdate("round", t)>>, 5)
           /\ Locks(<<ForUpdate("round", t)>>) = {LockOn("round", t, "update")}
<1>1. Level("round") = 5
  BY DEF Level
<1>2. Above(B, Ask("round", t, "update"))
  BY <1>1, AboveAll DEF Ask
<1>3. Fit(r, B, Ask("round", t, "update"))
  BY <1>2 DEF Fit, Backed, Ask, LockOf, OwnRound
<1>9. "round" \in Kinds \ {"admin"} /\ "update" \in Modes /\ Level("round") <= 5
  BY DEF Kinds, Modes, Level
<1> QED BY <1>3, <1>9, Asked DEF ForUpdate

\* A draft is asked for last, by who has the task, the round or the annotator.
LEMMA AskDraft ==
    ASSUME NEW r, NEW B, NEW t \in Annotators, NEW mode \in {"update", "no_key_update"},
           Under(B, 5),
           Backed(r, B, LockOn("draft", t, mode)),
           r.does = "deactivate" => Updates(B, "annotator", r.of),
           r.does \in Savers /\ (\E l \in B : l.row[1] = "round") => Updates(B, "round", t)
    PROVE  /\ Orderly(r, B, <<Ask("draft", t, mode)>>, 6)
           /\ Locks(<<Ask("draft", t, mode)>>) = {LockOn("draft", t, mode)}
<1>1. Level("draft") = 6
  BY DEF Level
<1>2. Above(B, Ask("draft", t, mode))
  <2>1. Ask("draft", t, mode).row[1] = "draft"
    BY DEF Ask
  <2> QED BY <1>1, <2>1, AboveAll
<1>3. LockOf(Ask("draft", t, mode)) = LockOn("draft", t, mode)
  BY DEF LockOf, Ask, LockOn
<1>4. Fit(r, B, Ask("draft", t, mode))
  BY <1>2, <1>3 DEF Fit, Ask, OwnRound
<1>9. "draft" \in Kinds \ {"admin"} /\ mode \in Modes /\ Level("draft") <= 6
  BY <1>1 DEF Kinds, Modes
<1> QED BY <1>4, <1>9, Asked

\* The published result of a task is asked for by who has the task.
LEMMA AskPublished ==
    ASSUME NEW r, NEW B, NEW t \in Annotators, NEW mode \in Modes, NEW k \in Nat,
           Under(B, k), Updates(B, "task", t)
    PROVE  /\ Orderly(r, B, <<Ask("published", t, mode)>>, k)
           /\ Locks(<<Ask("published", t, mode)>>) = {LockOn("published", t, mode)}
<1>1. Fit(r, B, Ask("published", t, mode))
  BY DEF Fit, Exempt, Backed, Ask, LockOf, OwnRound
<1>9. "published" \in Kinds \ {"admin"}
  BY DEF Kinds, Modes, Level
<1> QED BY <1>1, <1>9, Asked

\* The session row that was only read is written at the end.
LEMMA AskUpgrade ==
    ASSUME NEW r, NEW B, NEW u \in Annotators, NEW k \in Nat, k >= 2, Under(B, k),
           LockOn("session", u, "share") \in B
    PROVE  /\ Orderly(r, B, <<Updated("session", u)>>, k)
           /\ Locks(<<Updated("session", u)>>) = {LockOn("session", u, "no_key_update")}
<1>1. Fit(r, B, Ask("session", u, "no_key_update"))
  BY DEF Fit, Exempt, Upgrade, Backed, Ask, LockOf, LockOn, OwnRound
<1>2. Level("session") = 2
  BY DEF Level
<1>9. "session" \in Kinds \ {"admin"} /\ "no_key_update" \in Modes /\ Level("session") <= k
  BY <1>2 DEF Kinds, Modes
<1> QED BY <1>1, <1>9, Asked DEF Updated

\* The requests the known circles go through are taken as they come.
LEMMA AskLate ==
    ASSUME NEW r, NEW B, NEW kind \in {"task", "annotator"}, NEW u \in Annotators,
           NEW mode \in Modes, NEW k \in Nat,
           Under(B, k), k >= Level(kind), Late(r, kind)
    PROVE  /\ Orderly(r, B, <<Ask(kind, u, mode)>>, k)
           /\ Locks(<<Ask(kind, u, mode)>>) = {LockOn(kind, u, mode)}
<1>1. Fit(r, B, Ask(kind, u, mode))
  BY DEF Fit, Exempt, Backed, Ask, LockOf, OwnRound
<1>9. kind \in Kinds \ {"admin"} /\ Level(kind) <= k
  BY DEF Kinds, Modes, Level
<1> QED BY <1>1, <1>9, Asked

\* A row is asked for again.
LEMMA AskAgain ==
    ASSUME NEW r, NEW B, NEW kind \in {"assignment", "draft"}, NEW u \in Annotators,
           NEW k \in Nat, Under(B, k), k >= Level(kind), Updates(B, kind, u),
           Backed(r, B, LockOn(kind, u, "update")),
           r.does \notin Savers \cup {"deactivate"} \/ kind = "assignment"
    PROVE  /\ Orderly(r, B, <<ForUpdate(kind, u)>>, k)
           /\ Locks(<<ForUpdate(kind, u)>>) = {LockOn(kind, u, "update")}
<1>1. LockOf(Ask(kind, u, "update")) = LockOn(kind, u, "update")
  BY DEF LockOf, Ask, LockOn
<1>2. Exempt(r, B, Ask(kind, u, "update"))
  BY DEF Exempt, Updates, Holds, LockOn, Ask
<1>3. Fit(r, B, Ask(kind, u, "update"))
  BY <1>1, <1>2 DEF Fit, OwnRound, Ask
<1>9. kind \in Kinds \ {"admin"} /\ "update" \in Modes /\ Level(kind) <= k
  BY DEF Kinds, Modes, Level
<1> QED BY <1>3, <1>9, Asked DEF ForUpdate

\* A session is asked for after the annotator.
LEMMA AskSession ==
    ASSUME NEW r, NEW B, NEW u \in Annotators, NEW mode \in Modes, Under(B, 1),
           mode = "share" => LockOn("annotator", u, "no_key_update") \in B
    PROVE  /\ Orderly(r, B, <<Ask("session", u, mode)>>, 2)
           /\ Locks(<<Ask("session", u, mode)>>) = {LockOn("session", u, mode)}
<1>1. Level("session") = 2
  BY DEF Level
<1>2. Above(B, Ask("session", u, mode))
  <2>1. Ask("session", u, mode).row[1] = "session"
    BY DEF Ask
  <2> QED BY <1>1, <2>1, AboveAll
<1>3. Fit(r, B, Ask("session", u, mode))
  BY <1>2 DEF Fit, Backed, Ask, LockOf, LockOn, OwnRound, Holds
<1>9. "session" \in Kinds \ {"admin"} /\ Level("session") <= 2
  BY <1>1 DEF Kinds
<1> QED BY <1>3, <1>9, Asked

\* An annotator is asked for after the administrator.
LEMMA AskAnnotator ==
    ASSUME NEW r, NEW B, NEW u \in Annotators, NEW mode \in Modes, Under(B, 0)
    PROVE  /\ Orderly(r, B, <<Ask("annotator", u, mode)>>, 1)
           /\ Locks(<<Ask("annotator", u, mode)>>) = {LockOn("annotator", u, mode)}
<1>1. Level("annotator") = 1
  BY DEF Level
<1>2. Above(B, Ask("annotator", u, mode))
  BY <1>1, AboveAll DEF Ask
<1>3. Fit(r, B, Ask("annotator", u, mode))
  BY <1>2 DEF Fit, Backed, Ask, LockOf, OwnRound
<1>9. "annotator" \in Kinds \ {"admin"} /\ Level("annotator") <= 1
  BY <1>1 DEF Kinds
<1> QED BY <1>3, <1>9, Asked

\* An administrator is asked for first.
LEMMA AskAdmin ==
    ASSUME NEW r, NEW x \in Admins \cup {None}
    PROVE  /\ Orderly(r, {}, <<ForUpdate("admin", x)>>, 0)
           /\ Locks(<<ForUpdate("admin", x)>>) = {LockOn("admin", x, "update")}
<1> DEFINE a == ForUpdate("admin", x)
<1>1. a \in Asks /\ LockOf(a) = LockOn("admin", x, "update") /\ a.row[1] = "admin"
  BY DEF ForUpdate, Ask, Asks, LockedRows, LockOf, LockOn, Modes
<1>2. Fit(r, {}, a)
  BY DEF Fit, Above, Backed, ForUpdate, Ask, LockOf, OwnRound
<1>3. Level("admin") = 0 /\ Under({}, 0)
  BY DEF Level, Under
<1> QED BY <1>1, <1>2, <1>3, Single

-----------------------------------------------------------------------------
(* Rows in the order of their ids *)

\* The ids locked before u.
LowerIds(ids, u) == {v \in ids : v < u}

\* In a finite set of numbers, each has as many below it as its rank says.
LEMMA IdsAreRanked ==
    ASSUME NEW ids \in SUBSET Nat, IsFiniteSet(ids)
    PROVE  /\ Cardinality(ids) \in Nat
           /\ \A i \in 1..Cardinality(ids) :
                 \E u \in ids : Cardinality(LowerIds(ids, u)) = i - 1
<1> DEFINE n == Cardinality(ids)
           rank == [u \in ids |-> Cardinality(LowerIds(ids, u))]
<1>1. n \in Nat
  BY FS_CardinalityType
<1>2. ASSUME NEW u \in ids
      PROVE  /\ IsFiniteSet(LowerIds(ids, u)) /\ Cardinality(LowerIds(ids, u)) \in Nat
             /\ Cardinality(LowerIds(ids, u)) \in 0..(n - 1)
  <2>1. LowerIds(ids, u) \in SUBSET ids /\ LowerIds(ids, u) # ids
    BY DEF LowerIds
  <2>2. /\ IsFiniteSet(LowerIds(ids, u))
        /\ Cardinality(LowerIds(ids, u)) <= n /\ Cardinality(LowerIds(ids, u)) # n
    BY <2>1, FS_Subset
  <2>3. Cardinality(LowerIds(ids, u)) \in Nat
    BY <2>2, FS_CardinalityType
  <2> QED BY <1>1, <2>2, <2>3
<1>3. ASSUME NEW u \in ids, NEW v \in ids, u < v
      PROVE  Cardinality(LowerIds(ids, u)) # Cardinality(LowerIds(ids, v))
  <2>1. LowerIds(ids, u) \in SUBSET LowerIds(ids, v)
    <3> SUFFICES ASSUME NEW x \in ids, x < u PROVE x < v
      BY DEF LowerIds
    <3>1. x \in Nat /\ u \in Nat /\ v \in Nat
      OBVIOUS
    <3> QED BY <1>3, <3>1
  <2>2. LowerIds(ids, u) # LowerIds(ids, v)
    <3>1. u \in LowerIds(ids, v) /\ u \notin LowerIds(ids, u)
      BY <1>3 DEF LowerIds
    <3> QED BY <3>1
  <2> QED BY <1>2, <2>1, <2>2, FS_Subset
<1>4. rank \in Injection(ids, 0..(n - 1))
  <2>1. rank \in [ids -> 0..(n - 1)]
    <3>1. \A u \in ids : Cardinality(LowerIds(ids, u)) \in 0..(n - 1)
      BY <1>2
    <3> QED BY <3>1
  <2>2. \A u, v \in ids : rank[u] = rank[v] => u = v
    <3> SUFFICES ASSUME NEW u \in ids, NEW v \in ids, u # v PROVE rank[u] # rank[v]
      OBVIOUS
    <3>1. u < v \/ v < u
      OBVIOUS
    <3> QED BY <1>3, <3>1
  <2> HIDE DEF rank
  <2> QED BY <2>1, <2>2 DEF Injection, IsInjective
<1>5. IsFiniteSet(0..(n - 1)) /\ Cardinality(0..(n - 1)) = n
  <2>1. 0 \in Int /\ n - 1 \in Int /\ (n - 1) - 0 + 1 = n
    BY <1>1
  <2>2. Cardinality(0..(n - 1)) = IF 0 > n - 1 THEN 0 ELSE (n - 1) - 0 + 1
    BY <2>1, FS_Interval
  <2> QED BY <1>1, <2>1, <2>2, FS_Interval
<1>6. rank \in Surjection(ids, 0..(n - 1))
  BY <1>4, <1>5, FS_Injection
<1>7. ASSUME NEW i \in 1..n PROVE \E u \in ids : Cardinality(LowerIds(ids, u)) = i - 1
  <2>1. i - 1 \in 0..(n - 1)
    BY <1>1
  <2> QED BY <1>6, <2>1 DEF Surjection
<1> QED BY <1>1, <1>7

\* A finite set of numbers has a greatest one.
LEMMA GreatestOf ==
    ASSUME NEW ids \in SUBSET Nat, IsFiniteSet(ids), ids # {}
    PROVE  \E u \in ids : \A v \in ids : v <= u
<1> DEFINE n == Cardinality(ids)
<1>1. n \in Nat /\ n # 0
  BY FS_CardinalityType, FS_EmptySet
<1>2. PICK u \in ids : Cardinality(LowerIds(ids, u)) = n - 1
  BY <1>1, IdsAreRanked
<1>3. IsFiniteSet(ids \ {u}) /\ Cardinality(ids \ {u}) = n - 1
  BY <1>1, FS_RemoveElement
<1>4. LowerIds(ids, u) \in SUBSET (ids \ {u})
  BY DEF LowerIds
<1>5. LowerIds(ids, u) = ids \ {u}
  BY <1>2, <1>3, <1>4, FS_Subset
<1> QED BY <1>5 DEF LowerIds

\* RowsOf asks for rows of one kind in the order of their ids.
LEMMA RowsAreInOrder ==
    ASSUME NEW r, NEW B, NEW kind \in {"annotator", "assignment"}, NEW k \in Nat,
           Level(kind) = k + 1, Under(B, k),
           NEW ids \in SUBSET Annotators, IsFiniteSet(ids)
    PROVE  /\ Orderly(r, B, RowsOf(kind, ids), k + 1)
           /\ RowsOf(kind, ids) \in Seq(Asks)
           /\ Locks(RowsOf(kind, ids)) \subseteq [row : {kind} \X Annotators, mode : {"update"}]
<1> DEFINE n == Cardinality(ids)
           id(i) == CHOOSE u \in ids : Cardinality({v \in ids : v < u}) = i - 1
           s == RowsOf(kind, ids)
<1>1. ids \in SUBSET Nat /\ n \in Nat
  BY AnnotatorsAreIds, FS_CardinalityType
<1>2. ASSUME NEW i \in 1..n PROVE id(i) \in ids /\ Cardinality(LowerIds(ids, id(i))) = i - 1
  <2>1. \E u \in ids : Cardinality({v \in ids : v < u}) = i - 1
    BY <1>1, IdsAreRanked DEF LowerIds
  <2>2. id(i) \in ids /\ Cardinality({v \in ids : v < id(i)}) = i - 1
    BY <2>1
  <2> QED BY <2>2 DEF LowerIds
<1>3. s = [i \in 1..n |-> Ask(kind, id(i), "update")]
  BY DEF RowsOf, ForUpdate
<1> HIDE DEF id, s
<1>4. ASSUME NEW i \in 1..n PROVE Ask(kind, id(i), "update") \in Asks
  <2>1. id(i) \in Annotators
    BY <1>2
  <2> QED BY <2>1, AskTyped DEF Kinds, Modes
<1>5. s \in Seq(Asks) /\ Len(s) = n /\ \A i \in 1..n : s[i] = Ask(kind, id(i), "update")
  <2>1. s \in [1..n -> Asks]
    BY <1>3, <1>4
  <2> QED BY <1>1, <1>3, <2>1
<1>6. \A i \in 1..n : LockOf(s[i]) = LockOn(kind, id(i), "update")
  BY <1>5 DEF LockOf, LockOn, Ask
<1>7. ASSUME NEW i \in 1..n, NEW j \in 1..n, j < i PROVE id(j) < id(i)
  <2> SUFFICES ASSUME ~ (id(j) < id(i)) PROVE FALSE
    OBVIOUS
  <2> DEFINE x == id(i) y == id(j)
  <2>1. x \in ids /\ y \in ids
    BY <1>2
  <2>9. x \in Nat /\ y \in Nat /\ ~ (y < x)
    BY <1>1, <2>1
  <2> HIDE DEF x, y
  <2>2. LowerIds(ids, id(i)) \in SUBSET LowerIds(ids, id(j))
    <3>1. LowerIds(ids, x) \in SUBSET LowerIds(ids, y)
      <4> SUFFICES ASSUME NEW v \in ids, v < x PROVE v < y
        BY DEF LowerIds
      <4>1. v \in Nat
        BY <1>1
      <4> QED BY <2>9, <4>1
    <3> QED BY <3>1 DEF x, y
  <2>3. IsFiniteSet(LowerIds(ids, id(j)))
    <3>1. LowerIds(ids, id(j)) \in SUBSET ids  BY DEF LowerIds
    <3> QED BY <3>1, FS_Subset
  <2>4. Cardinality(LowerIds(ids, id(i))) <= Cardinality(LowerIds(ids, id(j)))
    BY <2>2, <2>3, FS_Subset
  <2> QED BY <1>2, <1>7, <2>4
<1>8. ASSUME NEW i \in 1..n PROVE Fit(r, B \cup Earlier(s, i), s[i])
  <2>1. s[i].row = <<kind, id(i)>> /\ LockOf(s[i]) = LockOn(kind, id(i), "update")
    BY <1>5, <1>6 DEF Ask
  <2>2. Above(B \cup Earlier(s, i), s[i])
    <3>1. ASSUME NEW l \in B, l.row[1] # "published" PROVE Lower(l.row, s[i].row)
      <4>1. Level(l.row[1]) <= k /\ Level(l.row[1]) \in Nat
        BY <3>1 DEF Under, Level
      <4>2. Level(l.row[1]) < Level(kind)
        BY <4>1
      <4> QED BY <4>2, <2>1 DEF Lower
    <3>2. ASSUME NEW j \in 1..(i - 1) PROVE Lower(LockOf(s[j]).row, s[i].row)
      <4>1. j \in 1..n /\ j < i
        BY <1>1
      <4>2. LockOf(s[j]).row = <<kind, id(j)>>
        <5>1. LockOf(s[j]) = LockOn(kind, id(j), "update")
          BY <4>1, <1>6
        <5> QED BY <5>1 DEF LockOn
      <4>3. id(j) < id(i)
        BY <4>1, <1>7
      <4> QED BY <2>1, <4>2, <4>3 DEF Lower
    <3> QED BY <3>1, <3>2 DEF Above, Earlier
  <2> QED BY <2>1, <2>2 DEF Fit, Backed, LockOn, OwnRound
<1>9. Locks(s) \subseteq [row : {kind} \X Annotators, mode : {"update"}]
  BY <1>2, <1>5, <1>6 DEF Locks, LockOn
<1>10. Under(B \cup Locks(s), k + 1)
  <2>1. Under(B, k + 1)
    BY UnderMore
  <2>2. \A l \in Locks(s) : l.row[1] = kind
    BY <1>9
  <2> QED BY <2>1, <2>2 DEF Under
<1> QED BY <1>5, <1>8, <1>9, <1>10 DEF Orderly, InOrder, s

\* No rows are asked for when there are none.
LEMMA RowsOfNobody == \A kind : RowsOf(kind, {}) = <<>>
<1>1. Cardinality({}) = 0
  BY FS_EmptySet
<1> QED BY <1>1 DEF RowsOf

\* One row is asked for as such.
LEMMA RowsOfOne ==
    ASSUME NEW kind, NEW u \in Annotators
    PROVE  RowsOf(kind, {u}) = <<ForUpdate(kind, u)>>
<1>1. Cardinality({u}) = 1 /\ Cardinality({}) = 0
  BY FS_Singleton, FS_EmptySet
<1>2. {v \in {u} : v < u} = {}
  BY AnnotatorsAreIds
<1>3. (CHOOSE w \in {u} : Cardinality({v \in {u} : v < w}) = 0) = u
  BY <1>1, <1>2
<1>4. RowsOf(kind, {u}) = [i \in 1..1 |->
         ForUpdate(kind, CHOOSE w \in {u} : Cardinality({v \in {u} : v < w}) = i - 1)]
  BY <1>1 DEF RowsOf
<1>5. \A i \in 1..1 : i - 1 = 0
  OBVIOUS
<1>6. RowsOf(kind, {u}) = [i \in 1..1 |-> ForUpdate(kind, u)]
  BY <1>3, <1>4, <1>5
<1> QED BY <1>6

-----------------------------------------------------------------------------
(* A transaction goes on to its next stage *)

\* a transaction that has the locks of stage n
Prior(r, n, B) ==
    /\ RowsTyped /\ RowsAgree
    /\ r \in Requests /\ n \in Nat /\ n < Stages[r.does]
    /\ B \in SUBSET LockSet /\ (n = 0 => B = {})
    /\ Steady(r, n, B, <<>>)

\* the locks stage n takes that later ones rely on
NewLocks(r, n, S) ==
    LET Has(m, kind, of, mode) == n = m => LockOn(kind, of, mode) \in S
    IN  /\ r.does \in Fencing => Has(1, "annotator", r.of, "no_key_update")
                                 /\ Has(1, "session", r.of, "share")
        /\ r.does = "claim" => Has(2, "task", r.task, "update")
        /\ r.does = "save_draft" => Has(2, "assignment", r.of, "update")
        /\ r.does = "reopen" => Has(2, "task", r.of, "update")
        /\ r.does \in {"release", "deactivate"} => Has(2, "annotator", r.of, "update")
        /\ r.does = "cli_release" => Has(1, "annotator", r.of, "update")
        /\ r.does \in {"revoke", "decide", "cancel"} => Has(4, "task", r.task, "update")
        /\ r.does = "correct" => Has(2, "task", r.task, "update")
        /\ r.does = "store" => Has(1, "task", r.task, "update")
        /\ r.does = "deactivate" /\ r.of \in published => Has(5, "task", r.of, "update")

\* The locks of earlier stages are kept in the next.
LEMMA LocksStay ==
    ASSUME NEW r, NEW n \in Nat, NEW B, NEW S, B \subseteq S,
           HasLocks(r, n, B, B), NewLocks(r, n + 1, S)
    PROVE  HasLocks(r, n + 1, B, S)
BY DEF HasLocks, NewLocks, TakenFrom

\* The parts of a request.
LEMMA RequestTyped ==
    ASSUME NEW r \in Requests
    PROVE  /\ r.of \in Annotators /\ r.task \in Annotators /\ r.by \in Admins \cup {None}
           /\ r.does \in Operations /\ (r.does # "claim" => r.task = r.of)
BY DEF Requests

\* A stage that holds has its condition.
LEMMA Holding ==
    ASSUME NEW h \in BOOLEAN, NEW l, Stage(h, l).holds
    PROVE  h
BY DEF Stage

\* What a stage waits for, and what it locks.
LEMMA StageLocks ==
    ASSUME NEW g, NEW h \in BOOLEAN, NEW l, g = Stage(h, l)
    PROVE  (g.holds => h) /\ g.locks = l
BY DEF Stage

\* A transaction goes on when its next stage is in order.
LEMMA GoesOn ==
    ASSUME NEW r, NEW n, NEW B, NEW s, Prior(r, n, B),
           Orderly(r, B, s, Tops[r.does][n + 1]),
           NewLocks(r, n + 1, B \cup Locks(s)), Relies(r, n + 1, B, B \cup Locks(s))
    PROVE  Steady(r, n + 1, B, s) /\ s \in Seq(Asks)
<1>1. HasLocks(r, n, B, B) /\ n \in Nat
  <2>1. B \cup Locks(<<>>) = B
    BY Nothing
  <2> QED BY <2>1 DEF Prior, Steady
<1>2. HasLocks(r, n + 1, B, B \cup Locks(s))
  BY <1>1, LocksStay
<1> QED BY <1>2 DEF Prior, Steady, Orderly

\* What is known of a transaction before it goes on.
LEMMA PriorHas ==
    ASSUME NEW r, NEW n, NEW B, Prior(r, n, B)
    PROVE  /\ n \in Nat /\ n < Stages[r.does] /\ r \in Requests
           /\ r.of \in Annotators /\ r.task \in Annotators /\ r.by \in Admins \cup {None}
           /\ (r.does # "claim" => r.task = r.of)
           /\ n > 0 => Under(B, Tops[r.does][n])
           /\ n = 0 => B = {} /\ Under(B, 0)
           /\ HasLocks(r, n, B, B) /\ Relies(r, n, B, B)
           /\ \A l \in B : Backed(r, B, l) /\ l \in LockSet
<1>1. B \cup Locks(<<>>) = B
  BY Nothing
<1>2. Under({}, 0)
  BY DEF Under
<1> QED BY <1>1, <1>2, RequestTyped DEF Prior, Steady

\* The fence of an annotator's request.
LEMMA FenceInOrder ==
    ASSUME NEW r, NEW u \in Annotators
    PROVE  /\ Orderly(r, {}, Fenced(u), 2)
           /\ Locks(Fenced(u)) = {LockOn("annotator", u, "no_key_update"),
                                  LockOn("session", u, "share")}
<1> DEFINE a == Ask("annotator", u, "no_key_update") b == Ask("session", u, "share")
           l == LockOn("annotator", u, "no_key_update")
<1>1. Under({}, 0) /\ "no_key_update" \in Modes /\ "share" \in Modes
      /\ "annotator" \in Kinds \ {"admin"} /\ "session" \in Kinds \ {"admin"}
  BY DEF Under, Modes, Kinds
<1>2. Orderly(r, {}, <<a>>, 1) /\ Locks(<<a>>) = {l}
  BY <1>1, AskAnnotator
<1>3. Under({l}, 1)
  BY <1>2 DEF Orderly
<1>4. Orderly(r, {l}, <<b>>, 2)
  BY <1>1, <1>3, AskSession
<1>5. /\ a \in Asks /\ b \in Asks
      /\ LockOf(a) = l /\ LockOf(b) = LockOn("session", u, "share")
  BY <1>1, AskTyped
<1>6. Fenced(u) = <<a, b>>
  BY DEF Fenced, Updated, Shared
<1>7. {} \cup {LockOf(a)} = {l}
  BY <1>5
<1> HIDE DEF a, b, l
<1>8. Orderly(r, {}, <<a, b>>, 2) /\ Locks(<<a, b>>) = {LockOf(a), LockOf(b)}
  BY <1>2, <1>4, <1>5, <1>7, Two
<1> QED BY <1>5, <1>6, <1>8 DEF l

\* What is skipped when it is locked may be asked for at any time.
LEMMA AskSkipping ==
    ASSUME NEW r, NEW B, NEW kind \in {"task", "annotator"}, NEW u \in Annotators,
           NEW mode \in Modes, Under(B, 6)
    PROVE  Orderly(r, B, <<Skipping(Ask(kind, u, mode))>>, 6)
<1> DEFINE a == Skipping(Ask(kind, u, mode))
<1>1. kind \in Kinds \ {"admin"}
  BY DEF Kinds
<1>2. a \in Asks /\ a.row[1] = kind /\ a.skip
  BY <1>1, AskTyped DEF Skipping, Ask
<1>3. Level(kind) <= 6
  BY DEF Level
<1>4. Fit(r, B, a)
  BY <1>2 DEF Fit, Exempt, Backed, LockOf, OwnRound, Skipping, Ask
<1> HIDE DEF a
<1>5. Orderly(r, B, <<a>>, 6)
  BY <1>2, <1>3, <1>4, Single
<1> QED BY <1>5 DEF a

\* A claim stays in order.
LEMMA ClaimGoesOn ==
    ASSUME NEW r, NEW n, NEW B, Prior(r, n, B), r.does = "claim",
           Claim(r.of, r.task, n + 1).holds
    PROVE  /\ Steady(r, n + 1, B, Claim(r.of, r.task, n + 1).locks)
           /\ Claim(r.of, r.task, n + 1).locks \in Seq(Asks)
<1> DEFINE u == r.of t == r.task s == Claim(u, t, n + 1).locks S == B \cup Locks(s)
<1>1. n \in {0, 1, 2} /\ u \in Annotators /\ t \in Annotators
  BY PriorHas DEF Stages
<1>2. CASE n = 0
  <2>1. s = Fenced(u) /\ B = {} /\ Tops[r.does][n + 1] = 2
    BY <1>2, PriorHas DEF Claim, Stage, Tops
  <2>2. Orderly(r, B, s, 2)
    BY <1>1, <2>1, FenceInOrder
  <2>3. NewLocks(r, n + 1, S)
    <3>1. LockOn("annotator", u, "no_key_update") \in S /\ LockOn("session", u, "share") \in S
      BY <1>1, <2>1, FenceInOrder
    <3> QED BY <1>2, <3>1 DEF NewLocks
  <2>4. Relies(r, n + 1, B, S)
    BY <1>2 DEF Relies
  <2> QED BY <2>1, <2>2, <2>3, <2>4, GoesOn
<1>3. CASE n = 1
  <2> DEFINE a == Skipping(Ask("task", t, "update"))
             b == Skipping(Ask("annotator", t, "key_share"))
  <2>1. s = <<a, b>> /\ Tops[r.does][n] = 2 /\ Tops[r.does][n + 1] = 6
    BY <1>3 DEF Claim, Stage, Tops, ForUpdate, Referred
  <2>2. /\ "task" \in Kinds \ {"admin"} /\ "annotator" \in Kinds \ {"admin"}
        /\ "update" \in Modes /\ "key_share" \in Modes
    BY DEF Kinds, Modes
  <2>3. /\ a \in Asks /\ b \in Asks /\ LockOf(a) = LockOn("task", t, "update")
    BY <1>1, <2>2, AskTyped
  <2>4. Under(B, 6)
    BY <1>3, <2>1, PriorHas, UnderMore
  <2>5. Orderly(r, B, <<a>>, 6)
    BY <1>1, <2>2, <2>4, AskSkipping
  <2>6. Under(B \cup {LockOf(a)}, 6)
    BY <2>3, <2>5, LocksOfOne DEF Orderly
  <2>7. Orderly(r, B \cup {LockOf(a)}, <<b>>, 6)
    BY <1>1, <2>2, <2>6, AskSkipping
  <2> HIDE DEF a, b
  <2>8. Orderly(r, B, s, 6) /\ Locks(s) = {LockOf(a), LockOf(b)}
    BY <2>1, <2>3, <2>5, <2>7, Two
  <2>9. NewLocks(r, n + 1, S)
    BY <1>3, <2>3, <2>8 DEF NewLocks
  <2>10. Relies(r, n + 1, B, S)
    BY <1>3 DEF Relies
  <2> QED BY <2>1, <2>8, <2>9, <2>10, GoesOn
<1>4. CASE n = 2
  <2> DEFINE a == Ask("published", t, "key_share") b == Ask("session", u, "no_key_update")
  <2>1. s = <<a, b>> /\ Tops[r.does][n] = 6 /\ Tops[r.does][n + 1] = 6
    BY <1>4 DEF Claim, Stage, Tops, Updated, Referred
  <2>2. /\ "published" \in Kinds \ {"admin"} /\ "session" \in Kinds \ {"admin"}
        /\ "no_key_update" \in Modes /\ "key_share" \in Modes
    BY DEF Kinds, Modes
  <2>3. a \in Asks /\ b \in Asks
    BY <1>1, <2>2, AskTyped
  <2>4. Under(B, 6) /\ Updates(B, "task", t) /\ LockOn("session", u, "share") \in B
    BY <1>4, <2>1, PriorHas DEF HasLocks, TakenFrom, Updates, Holds, Fencing
  <2>5. Orderly(r, B, <<a>>, 6)
    BY <1>1, <2>2, <2>4, AskPublished
  <2>6. Under(B \cup {LockOf(a)}, 6)
    BY <2>3, <2>5, LocksOfOne DEF Orderly
  <2>7. Orderly(r, B \cup {LockOf(a)}, <<b>>, 6)
    BY <1>1, <2>4, <2>6, AskUpgrade DEF Updated
  <2> HIDE DEF a, b
  <2>8. Orderly(r, B, s, 6)
    BY <2>1, <2>3, <2>5, <2>7, Two
  <2>9. NewLocks(r, n + 1, S)
    BY <1>4 DEF NewLocks
  <2>10. Relies(r, n + 1, B, S)
    BY <1>4 DEF Relies, Claim, Stage
  <2> QED BY <2>1, <2>8, <2>9, <2>10, GoesOn
<1> QED BY <1>1, <1>2, <1>3, <1>4

-----------------------------------------------------------------------------
(* The statements that transactions share *)

\* The annotator's own assignment.
LEMMA OwnInOrder ==
    ASSUME RowsTyped, NEW r, NEW B, NEW u \in Annotators, Under(B, 2)
    PROVE  /\ Orderly(r, B, OwnAssignment(u), 3)
           /\ assigned[u] # None =>
                 Locks(OwnAssignment(u)) = {LockOn("assignment", u, "update")}
<1> DEFINE ids == IF assigned[u] = None THEN {} ELSE {u}
<1>1. OwnAssignment(u) = RowsOf("assignment", ids)
  BY DEF OwnAssignment, Assignment
<1>2. ids \in SUBSET Annotators /\ IsFiniteSet(ids)
  BY FS_EmptySet, FS_Singleton
<1>3. Level("assignment") = 2 + 1
  BY DEF Level
<1>4. Orderly(r, B, RowsOf("assignment", ids), 2 + 1)
  BY <1>2, <1>3, RowsAreInOrder
<1>5. ASSUME assigned[u] # None
      PROVE  Locks(OwnAssignment(u)) = {LockOn("assignment", u, "update")}
  <2>1. OwnAssignment(u) = <<Ask("assignment", u, "update")>>
    BY <1>1, <1>5, RowsOfOne DEF ForUpdate
  <2>2. "assignment" \in Kinds \ {"admin"} /\ "update" \in Modes
    BY DEF Kinds, Modes
  <2> QED BY <2>1, <2>2, AskTyped, LocksOfOne
<1>6. 2 + 1 = 3
  OBVIOUS
<1> QED BY <1>1, <1>4, <1>5, <1>6

\* A round that is cancelled, and its draft.
LEMMA CancelledInOrder ==
    ASSUME NEW r, NEW B, NEW t \in Annotators, Under(B, 4),
           Updates(B, "task", t) \/ r.does \in Savers,
           r.does = "deactivate" => t # r.of /\ Updates(B, "annotator", r.of)
    PROVE  Orderly(r, B, CancelledRound(t), 6)
<1> DEFINE a == ForUpdate("round", t) b == ForUpdate("draft", t)
           C == B \cup {LockOn("round", t, "update")}
<1>1. Orderly(r, B, <<a>>, 5) /\ Locks(<<a>>) = {LockOn("round", t, "update")}
  BY AskRound
<1>2. Under(C, 5)
  BY <1>1 DEF Orderly
<1>3. Updates(C, "round", t) /\ (r.does = "deactivate" => Updates(C, "annotator", r.of))
  BY DEF Updates, Holds
<1>4. Backed(r, C, LockOn("draft", t, "update"))
  BY <1>3 DEF Backed, LockOn
<1>5. Orderly(r, C, <<b>>, 6)
  BY <1>2, <1>3, <1>4, AskDraft DEF ForUpdate
<1>6. a \in Asks /\ b \in Asks /\ LockOf(a) = LockOn("round", t, "update")
  BY AskTyped DEF ForUpdate, Kinds, Modes
<1>7. CancelledRound(t) = <<a, b>>
  BY DEF CancelledRound
<1> HIDE DEF a, b
<1> QED BY <1>1, <1>5, <1>6, <1>7, Two

\* The round of a task, if it is open.
LEMMA RoundInOrder ==
    ASSUME NEW r, NEW B, NEW t \in Annotators, Under(B, 4), Updates(B, "task", t),
           r.does # "deactivate"
    PROVE  Orderly(r, B, RoundIfOpen(t), 5)
<1>1. CASE Open(t)
  BY <1>1, AskRound DEF RoundIfOpen
<1>2. CASE ~Open(t)
  BY <1>2, UnderMore, Nothing DEF RoundIfOpen
<1> QED BY <1>1, <1>2

\* The draft of a task that is locked.
LEMMA TaskDraft ==
    ASSUME NEW r, NEW B, NEW t \in Annotators, Under(B, 5), Updates(B, "task", t),
           r.does \notin Savers \cup {"deactivate"}
    PROVE  /\ Orderly(r, B, <<ForUpdate("draft", t)>>, 6)
           /\ Locks(<<ForUpdate("draft", t)>>) = {LockOn("draft", t, "update")}
<1>1. Backed(r, B, LockOn("draft", t, "update"))
  BY DEF Backed, LockOn
<1> QED BY <1>1, AskDraft DEF ForUpdate

\* The draft of a task, if somebody works on it.
LEMMA DraftInOrder ==
    ASSUME NEW r, NEW B, NEW t \in Annotators, Under(B, 5), Updates(B, "task", t),
           r.does \notin Savers \cup {"deactivate"}
    PROVE  Orderly(r, B, DraftIfAny(t), 6)
<1>1. CASE WorkersOn(t) # {}
  BY <1>1, TaskDraft DEF DraftIfAny
<1>2. CASE WorkersOn(t) = {}
  BY <1>2, UnderMore, Nothing DEF DraftIfAny
<1> QED BY <1>1, <1>2

\* The versions of a result.
LEMMA VersionsInOrder ==
    ASSUME NEW r, NEW B, NEW t \in Annotators, Under(B, 5), Updates(B, "task", t),
           r.does \notin Savers \cup {"deactivate"}
    PROVE  /\ Orderly(r, B, RoundVersions(t), 6)
           /\ Open(t) => LockOn("draft", t, "update") \in Locks(RoundVersions(t))
           /\ ~Open(t) => Orderly(r, B, RoundVersions(t), 5)
<1> DEFINE s == <<ForUpdate("published", t)>>
           z == IF Open(t) THEN <<ForUpdate("draft", t)>> ELSE <<>>
           C == B \cup Locks(s)
<1>1. Orderly(r, B, s, 5)
  BY AskPublished DEF ForUpdate, Modes
<1>2. Under(C, 5) /\ Updates(C, "task", t)
  BY <1>1 DEF Orderly, Updates, Holds
<1>3. Orderly(r, C, z, 6) /\ (~Open(t) => Orderly(r, C, z, 5))
      /\ (Open(t) => LockOn("draft", t, "update") \in Locks(z))
  <2>1. CASE Open(t)  BY <1>2, <2>1, TaskDraft
  <2>2. CASE ~Open(t)  BY <1>2, <2>2, UnderMore, Nothing
  <2> QED BY <2>1, <2>2
<1>4. RoundVersions(t) = s \o z
  BY DEF RoundVersions
<1>5. C = B \cup Locks(s)
  OBVIOUS
<1> HIDE DEF s, z, C
<1>6. Orderly(r, B, s \o z, 6) /\ (~Open(t) => Orderly(r, B, s \o z, 5))
  BY <1>1, <1>3, <1>5, Joined
<1>7. Locks(s \o z) = Locks(s) \cup Locks(z)
  BY <1>1, <1>3, LocksJoined DEF Orderly
<1> QED BY <1>3, <1>4, <1>6, <1>7

\* The session is touched at the end.
LEMMA EndsWithSession ==
    ASSUME NEW r, NEW B, NEW s, NEW u \in Annotators, NEW k \in Nat, k >= 2,
           Orderly(r, B, s, k), LockOn("session", u, "share") \in B
    PROVE  Orderly(r, B, s \o <<Updated("session", u)>>, k)
<1> DEFINE z == <<Updated("session", u)>> C == B \cup Locks(s)
<1>1. Under(C, k) /\ LockOn("session", u, "share") \in C
  BY DEF Orderly
<1>2. Orderly(r, C, z, k)
  BY <1>1, AskUpgrade
<1>3. C = B \cup Locks(s)
  OBVIOUS
<1> HIDE DEF z, C
<1>4. Orderly(r, B, s \o z, k)
  BY <1>2, <1>3, Joined
<1> QED BY <1>4 DEF z

\* An annotator's own draft: no other lock on it is needed than the annotator's.
LEMMA OwnDraftInOrder ==
    ASSUME NEW r, NEW B, NEW u \in Annotators, NEW mode \in {"update", "no_key_update"},
           Under(B, 4), LockOn("annotator", u, "no_key_update") \in B,
           r.does # "deactivate"
    PROVE  /\ Orderly(r, B, <<Ask("draft", u, mode)>>, 6)
           /\ Locks(<<Ask("draft", u, mode)>>) = {LockOn("draft", u, mode)}
<1>1. \A l \in B : l.row[1] # "round"
  BY DEF Under, Level
<1>2. Under(B, 5)
  BY UnderMore
<1>3. Backed(r, B, LockOn("draft", u, mode))
  BY DEF Backed, LockOn, Holds
<1> QED BY <1>1, <1>2, <1>3, AskDraft

-----------------------------------------------------------------------------
(* Requests of annotators *)

\* The first stage of an annotator's request.
LEMMA FencedFirst ==
    ASSUME NEW r, NEW B, Prior(r, 0, B), r.does \in Fencing
    PROVE  Steady(r, 1, B, Fenced(r.of)) /\ Fenced(r.of) \in Seq(Asks)
<1> DEFINE u == r.of s == Fenced(u) S == B \cup Locks(s)
<1>1. u \in Annotators /\ B = {}
  BY PriorHas
<1>2. Tops[r.does][1] = 2
  BY DEF Tops, Fencing
<1>3. Orderly(r, B, s, 2)
  BY <1>1, FenceInOrder
<1>4. LockOn("annotator", u, "no_key_update") \in S /\ LockOn("session", u, "share") \in S
  BY <1>1, FenceInOrder
<1>5. NewLocks(r, 1, S)
  BY <1>4 DEF NewLocks, Fencing
<1>6. Relies(r, 1, B, S)
  BY DEF Relies, Fencing
<1>7. 0 + 1 = 1
  OBVIOUS
<1> QED BY <1>2, <1>3, <1>5, <1>6, <1>7, GoesOn

\* The second stage of a request about the work at hand.
LEMMA FencedSecond ==
    ASSUME NEW r, NEW B, Prior(r, 1, B), r.does \in {"abandon", "save_draft", "complete"},
           assigned[r.of] # None
    PROVE  Steady(r, 2, B, OwnAssignment(r.of)) /\ OwnAssignment(r.of) \in Seq(Asks)
<1> DEFINE u == r.of s == OwnAssignment(u) S == B \cup Locks(s)
<1>1. Tops[r.does][1] = 2 /\ Tops[r.does][2] = 3
  BY DEF Tops
<1>2. u \in Annotators /\ Under(B, 2)
  BY <1>1, PriorHas
<1>3. Orderly(r, B, s, 3) /\ LockOn("assignment", u, "update") \in S
  BY <1>2, OwnInOrder DEF Prior
<1>4. NewLocks(r, 2, S)
  BY <1>3 DEF NewLocks
<1>5. Relies(r, 2, B, S)
  BY DEF Relies
<1>6. 1 + 1 = 2
  OBVIOUS
<1> QED BY <1>1, <1>3, <1>4, <1>5, <1>6, GoesOn

\* What the work of an annotator at work is, and the locks to get at it.
LEMMA AtWork ==
    ASSUME NEW r, NEW B, Prior(r, 2, B), r.does \in {"abandon", "save_draft", "complete"}
    PROVE  /\ r.of \in Annotators /\ Under(B, 3) /\ Under(B, 4)
           /\ Tops[r.does][3] = 6
           /\ assigned[r.of] # None => assigned[r.of] \in Annotators
           /\ LockOn("annotator", r.of, "no_key_update") \in B
           /\ LockOn("session", r.of, "share") \in B
           /\ \A S : NewLocks(r, 3, S) /\ Relies(r, 3, B, S)
<1>1. Tops[r.does][2] = 3 /\ Tops[r.does][3] = 6
  BY DEF Tops
<1>2. r.of \in Annotators /\ Under(B, 3) /\ HasLocks(r, 2, B, B)
  BY <1>1, PriorHas
<1>3. Under(B, 4)
  BY <1>2, UnderMore
<1>4. assigned[r.of] # None => assigned[r.of] \in Annotators
  BY <1>2 DEF Prior, RowsTyped
<1>5. /\ LockOn("annotator", r.of, "no_key_update") \in B
      /\ LockOn("session", r.of, "share") \in B
  BY <1>2 DEF HasLocks, TakenFrom, Fencing
<1>6. \A S : NewLocks(r, 3, S) /\ Relies(r, 3, B, S)
  BY DEF NewLocks, Relies
<1> QED BY <1>1, <1>2, <1>3, <1>4, <1>5, <1>6

\* A stage that locks nothing.
LEMMA NothingToDo ==
    ASSUME NEW r, NEW n, NEW B, Prior(r, n, B), n > 0, Tops[r.does][n + 1] = 6,
           Tops[r.does][n] \in 0..6,
           NewLocks(r, n + 1, B), Relies(r, n + 1, B, B)
    PROVE  Steady(r, n + 1, B, <<>>) /\ <<>> \in Seq(Asks)
<1>1. Under(B, 6)
  BY PriorHas, UnderMore
<1>2. Orderly(r, B, <<>>, 6) /\ B \cup Locks(<<>>) = B
  BY <1>1, Nothing
<1> QED BY <1>2, GoesOn

\* An abandonment stays in order.
LEMMA AbandonGoesOn ==
    ASSUME NEW r, NEW n, NEW B, Prior(r, n, B), r.does = "abandon",
           Abandon(r.of, n + 1).holds
    PROVE  /\ Steady(r, n + 1, B, Abandon(r.of, n + 1).locks)
           /\ Abandon(r.of, n + 1).locks \in Seq(Asks)
<1> DEFINE u == r.of s == Abandon(u, n + 1).locks
<1>1. n \in {0, 1, 2}
  BY PriorHas DEF Stages
<1>2. CASE n = 0
  <2>1. s = Fenced(u) /\ n + 1 = 1
    BY <1>2 DEF Abandon, Stage
  <2> QED BY <1>2, <2>1, FencedFirst DEF Fencing
<1>3. CASE n = 1
  <2>1. assigned[u] # None
    <3> DEFINE P == u \in active /\ assigned[u] # None
    <3>1. Abandon(u, n + 1) = Stage(P, OwnAssignment(u)) /\ P \in BOOLEAN
      BY <1>3 DEF Abandon
    <3> HIDE DEF P
    <3>2. P
      BY <3>1, Holding
    <3> QED BY <3>2 DEF P
  <2>2. s = OwnAssignment(u) /\ n + 1 = 2
    BY <1>3 DEF Abandon, Stage
  <2> QED BY <1>3, <2>1, <2>2, FencedSecond
<1>4. CASE n = 2
  <2> DEFINE t == assigned[u]
             w == IF CrossChecks(u) THEN CancelledRound(t)
                  ELSE <<Ask("draft", u, "no_key_update")>>
             e == IF CrossChecks(u) THEN t ELSE u
             z == <<Ask("task", e, "key_share")>>
             C == B \cup Locks(w)
  <2>1. n + 1 = 3 /\ t # None
        /\ s = (w \o z) \o <<Updated("session", u)>>
    <3>1. t # None
      <4> DEFINE P == t # None
      <4>1. Abandon(u, n + 1) = Stage(P, IF t = None THEN <<>>
                     ELSE AbandonedWork(u) \o <<Updated("session", u)>>) /\ P \in BOOLEAN
        BY <1>4 DEF Abandon
      <4> HIDE DEF P
      <4>2. P
        BY <4>1, Holding
      <4> QED BY <4>2 DEF P
    <3>2. s = AbandonedWork(u) \o <<Updated("session", u)>>
      BY <1>4, <3>1 DEF Abandon, Stage
    <3>3. AbandonedWork(u) = w \o z
      BY DEF AbandonedWork, Event, Updated, Referred
    <3> HIDE DEF w, z, s
    <3> QED BY <1>4, <3>1, <3>2, <3>3
  <2>2. u \in Annotators /\ t \in Annotators /\ e \in Annotators
    BY <1>4, <2>1, AtWork
  <2>3. Orderly(r, B, w, 6)
    <3>1. CASE CrossChecks(u)
      BY <1>4, <2>2, <3>1, AtWork, CancelledInOrder DEF Savers
    <3>2. CASE ~CrossChecks(u)
      BY <1>4, <2>2, <3>2, AtWork, OwnDraftInOrder
    <3> QED BY <3>1, <3>2
  <2>4. Under(C, 6) /\ C = B \cup Locks(w)
    BY <2>3 DEF Orderly
  <2>5. Orderly(r, C, z, 6)
    <3>1. "key_share" \in Modes /\ 6 >= Level("task") /\ Late(r, "task")
      BY DEF Modes, Level, Late
    <3> HIDE DEF C, e
    <3> QED BY <2>2, <2>4, <3>1, AskLate
  <2>9. t # None => s = (w \o z) \o <<Updated("session", u)>>
    BY <2>1
  <2> HIDE DEF w, z, C
  <2>6. Orderly(r, B, w \o z, 6)
    BY <2>3, <2>4, <2>5, Joined
  <2>7. Orderly(r, B, (w \o z) \o <<Updated("session", u)>>, 6)
    BY <1>4, <2>2, <2>6, AtWork, EndsWithSession
  <2>8. NewLocks(r, 3, B \cup Locks(s)) /\ Relies(r, 3, B, B \cup Locks(s)) /\ Tops[r.does][3] = 6
    BY <1>4, AtWork
  <2> QED BY <2>1, <2>7, <2>8, GoesOn
<1> QED BY <1>1, <1>2, <1>3, <1>4

\* A saving stays in order.
LEMMA SaveDraftGoesOn ==
    ASSUME NEW r, NEW n, NEW B, Prior(r, n, B), r.does = "save_draft",
           SaveDraft(r.of, n + 1).holds
    PROVE  /\ Steady(r, n + 1, B, SaveDraft(r.of, n + 1).locks)
           /\ SaveDraft(r.of, n + 1).locks \in Seq(Asks)
<1> DEFINE u == r.of s == SaveDraft(u, n + 1).locks
<1>1. n \in {0, 1, 2}
  BY PriorHas DEF Stages
<1>2. CASE n = 0
  <2>1. s = Fenced(u) /\ n + 1 = 1
    BY <1>2 DEF SaveDraft, Stage
  <2> QED BY <1>2, <2>1, FencedFirst DEF Fencing
<1>3. CASE n = 1
  <2>1. assigned[u] # None
    <3> DEFINE P == u \in active /\ assigned[u] # None
    <3>1. SaveDraft(u, n + 1) = Stage(P, OwnAssignment(u)) /\ P \in BOOLEAN
      BY <1>3 DEF SaveDraft
    <3> HIDE DEF P
    <3>2. P
      BY <3>1, Holding
    <3> QED BY <3>2 DEF P
  <2>2. s = OwnAssignment(u) /\ n + 1 = 2
    BY <1>3 DEF SaveDraft, Stage
  <2> QED BY <1>3, <2>1, <2>2, FencedSecond
<1>4. CASE n = 2
  <2> DEFINE t == assigned[u]
             w == IF CrossChecks(u) THEN CancelledRound(t)
                  ELSE <<Ask("draft", u, "update")>>
             z == <<Updated("session", u)>>
             y == <<ForUpdate("assignment", u)>>
             C == B \cup Locks(w)
             D == C \cup Locks(z)
  <2>1. n + 1 = 3 /\ t # None /\ s = w \o TouchedSession(u)
    <3>1. t # None
      <4> DEFINE P == t # None
      <4>1. SaveDraft(u, n + 1) = Stage(P, IF t = None THEN <<>> ELSE w \o TouchedSession(u)) /\ P \in BOOLEAN
        BY <1>4 DEF SaveDraft, ForUpdate
      <4> HIDE DEF P
      <4>2. P
        BY <4>1, Holding
      <4> QED BY <4>2 DEF P
    <3>2. s = w \o TouchedSession(u)
      <4> DEFINE P == t # None L == w \o TouchedSession(u)
      <4>1. SaveDraft(u, n + 1) = Stage(P, IF t = None THEN <<>> ELSE L) /\ P \in BOOLEAN
        BY <1>4 DEF SaveDraft, ForUpdate
      <4>2. (IF t = None THEN <<>> ELSE L) = L
        BY <3>1
      <4> HIDE DEF P, L
      <4>3. s = L
        BY <4>1, <4>2, StageLocks
      <4> QED BY <4>3 DEF L
    <3> HIDE DEF w, s
    <3> QED BY <1>4, <3>1, <3>2
  <2>2. u \in Annotators /\ t \in Annotators
    BY <1>4, <2>1, AtWork
  <2>3. s = w \o (z \o y)
    <3>1. OwnAssignment(u) = y
      BY <2>1, <2>2, RowsOfOne DEF OwnAssignment, Assignment
    <3> HIDE DEF y
    <3> QED BY <2>1, <3>1 DEF TouchedSession
  <2>4. Orderly(r, B, w, 6)
    <3>1. CASE CrossChecks(u)
      BY <1>4, <2>2, <3>1, AtWork, CancelledInOrder DEF Savers
    <3>2. CASE ~CrossChecks(u)
      BY <1>4, <2>2, <3>2, AtWork, OwnDraftInOrder
    <3> QED BY <3>1, <3>2
  <2>5. Under(C, 6) /\ C = B \cup Locks(w) /\ LockOn("session", u, "share") \in C
    BY <1>4, <2>4, AtWork DEF Orderly
  <2>6. Orderly(r, C, z, 6)
    BY <2>2, <2>5, AskUpgrade
  <2>7. Under(D, 6) /\ D = C \cup Locks(z)
    BY <2>6 DEF Orderly
  <2>8. Updates(D, "assignment", u)
    <3>1. LockOn("assignment", u, "update") \in B
      BY <1>4, PriorHas DEF HasLocks, TakenFrom
    <3> QED BY <3>1 DEF Updates, Holds
  <2>9. Orderly(r, D, y, 6)
    <3>1. Backed(r, D, LockOn("assignment", u, "update")) /\ 6 >= Level("assignment")
      BY DEF Backed, LockOn, Level
    <3> HIDE DEF D
    <3> QED BY <2>2, <2>7, <2>8, <3>1, AskAgain
  <2> HIDE DEF w, z, y, C, D
  <2>10. Orderly(r, C, z \o y, 6)
    BY <2>6, <2>7, <2>9, Joined
  <2>11. Orderly(r, B, w \o (z \o y), 6)
    BY <2>4, <2>5, <2>10, Joined
  <2>12. NewLocks(r, 3, B \cup Locks(s)) /\ Relies(r, 3, B, B \cup Locks(s)) /\ Tops[r.does][3] = 6
    BY <1>4, AtWork
  <2> QED BY <2>1, <2>3, <2>11, <2>12, GoesOn
<1> QED BY <1>1, <1>2, <1>3, <1>4

\* The same, for a stage given by its condition and its locks.
LEMMA GoesOnTo ==
    ASSUME NEW r, NEW n, NEW B, NEW s, NEW m, NEW g, NEW h \in BOOLEAN, NEW k,
           Prior(r, n, B), m = n + 1, g = Stage(h, s), k = Tops[r.does][m],
           Orderly(r, B, s, k),
           NewLocks(r, m, B \cup Locks(s)), Relies(r, m, B, B \cup Locks(s))
    PROVE  Steady(r, n + 1, B, g.locks) /\ g.locks \in Seq(Asks)
<1>1. g.locks = s
  BY StageLocks
<1> QED BY <1>1, GoesOn

\* The bound on what is in order may be raised.
LEMMA OrderlyMore ==
    ASSUME NEW r, NEW B, NEW s, NEW k \in Nat, NEW m \in Nat, k <= m, Orderly(r, B, s, k)
    PROVE  Orderly(r, B, s, m)
BY UnderMore DEF Orderly

\* The locks a list of two takes.
LEMMA LocksOfTwo == \A a, b \in Asks : Locks(<<a, b>>) = {LockOf(a), LockOf(b)}
<1> SUFFICES ASSUME NEW a \in Asks, NEW b \in Asks
             PROVE Locks(<<a, b>>) = {LockOf(a), LockOf(b)}
  OBVIOUS
<1>1. Len(<<a, b>>) = 2 /\ <<a, b>>[1] = a /\ <<a, b>>[2] = b
  OBVIOUS
<1> QED BY <1>1 DEF Locks

\* The task of a cross-check, and its round.
LEMMA TaskAndRound ==
    ASSUME NEW r, NEW B, NEW t \in Annotators, Under(B, 3), r.does # "deactivate"
    PROVE  /\ Orderly(r, B, <<ForUpdate("task", t), ForUpdate("round", t)>>, 5)
           /\ LockOn("task", t, "update") \in
                 Locks(<<ForUpdate("task", t), ForUpdate("round", t)>>)
<1> DEFINE a == ForUpdate("task", t) b == ForUpdate("round", t)
           C == B \cup {LockOn("task", t, "update")}
<1>1. Orderly(r, B, <<a>>, 4) /\ Locks(<<a>>) = {LockOn("task", t, "update")}
  BY AskTask
<1>2. Under(C, 4)
  BY <1>1 DEF Orderly
<1>3. Updates(C, "task", t)
  BY DEF Updates, Holds
<1>4. Orderly(r, C, <<b>>, 5)
  BY <1>2, <1>3, AskRound
<1>5. a \in Asks /\ b \in Asks /\ LockOf(a) = LockOn("task", t, "update")
  BY AskTyped DEF ForUpdate, Kinds, Modes
<1> HIDE DEF a, b
<1>6. Orderly(r, B, <<a, b>>, 5) /\ Locks(<<a, b>>) = {LockOf(a), LockOf(b)}
  BY <1>1, <1>4, <1>5, Two
<1> QED BY <1>5, <1>6 DEF a, b

\* The rows a completion writes.
LEMMA PublishedInOrder ==
    ASSUME NEW r, NEW B, NEW u \in Annotators, Under(B, 3), assigned[u] \in Annotators,
           r.does \notin Savers \cup {"deactivate"}
    PROVE  Orderly(r, B, PublishedWork(u), 6)
<1> DEFINE t == assigned[u]
<1>1. CASE CrossChecks(u)
  <2> DEFINE w == <<ForUpdate("task", t), ForUpdate("round", t)>> z == RoundVersions(t)
             C == B \cup Locks(w)
  <2>1. Orderly(r, B, w, 5) /\ LockOn("task", t, "update") \in Locks(w)
    BY TaskAndRound
  <2>2. Under(C, 5) /\ Updates(C, "task", t) /\ C = B \cup Locks(w)
    BY <2>1 DEF Orderly, Updates, Holds
  <2>3. Orderly(r, C, z, 6)
    BY <2>2, VersionsInOrder
  <2>4. PublishedWork(u) = w \o z
    BY <1>1 DEF PublishedWork
  <2> HIDE DEF w, z, C
  <2> QED BY <2>1, <2>2, <2>3, <2>4, Joined
<1>2. CASE ~CrossChecks(u)
  <2> DEFINE a == ForUpdate("task", u) b == ForUpdate("draft", u)
             c == Ask("published", u, "no_key_update")
             C == B \cup {LockOn("task", u, "update")}
             D == B \cup Locks(<<a, b>>)
             w == <<a, b>>
             z == <<c>>
  <2>1. Orderly(r, B, <<a>>, 4) /\ Locks(<<a>>) = {LockOn("task", u, "update")}
    BY AskTask
  <2>2. Under(C, 4) /\ Updates(C, "task", u)
    BY <2>1 DEF Orderly, Updates, Holds
  <2>3. Under(C, 5)
    BY <2>2, UnderMore
  <2>4. Orderly(r, C, <<b>>, 6)
    BY <2>2, <2>3, TaskDraft
  <2>5. a \in Asks /\ b \in Asks /\ c \in Asks /\ LockOf(a) = LockOn("task", u, "update")
    BY AskTyped DEF ForUpdate, Kinds, Modes
  <2>6. PublishedWork(u) = <<a, b, c>>
    BY <1>2 DEF PublishedWork, Updated
  <2>7. Orderly(r, B, w, 6) /\ Locks(w) = {LockOf(a), LockOf(b)}
    <3> HIDE DEF a, b
    <3> QED BY <2>1, <2>4, <2>5, Two
  <2>8. Under(D, 6) /\ Updates(D, "task", u) /\ D = B \cup Locks(w)
    BY <2>5, <2>7 DEF Orderly, Updates, Holds
  <2>9. Orderly(r, D, z, 6)
    <3>1. "no_key_update" \in Modes
      BY DEF Modes
    <3> HIDE DEF D
    <3> QED BY <2>8, <3>1, AskPublished
  <2>10. <<a, b, c>> = w \o z
    <3> HIDE DEF a, b, c
    <3> QED OBVIOUS
  <2> HIDE DEF w, z, D, a, b, c
  <2> QED BY <2>6, <2>7, <2>8, <2>9, <2>10, Joined
<1> QED BY <1>1, <1>2

\* A completion stays in order.
LEMMA CompleteGoesOn ==
    ASSUME NEW r, NEW n, NEW B, NEW g, Prior(r, n, B), r.does = "complete",
           g = Complete(r.of, n + 1), g.holds
    PROVE  Steady(r, n + 1, B, g.locks) /\ g.locks \in Seq(Asks)
<1> DEFINE u == r.of t == assigned[u]
<1>1. n \in {0, 1, 2}
  BY PriorHas DEF Stages
<1>2. CASE n = 0
  <2>1. g.locks = Fenced(u) /\ n + 1 = 1
    BY <1>2 DEF Complete, Stage
  <2> QED BY <1>2, <2>1, FencedFirst DEF Fencing
<1>3. CASE n = 1
  <2> DEFINE P == u \in active /\ assigned[u] # None L == OwnAssignment(u)
  <2>1. g = Stage(P, L) /\ P \in BOOLEAN /\ n + 1 = 2
    BY <1>3 DEF Complete
  <2> HIDE DEF P, L
  <2>2. P /\ g.locks = L
    BY <2>1, StageLocks
  <2>3. t # None
    BY <2>2 DEF P
  <2> QED BY <1>3, <2>1, <2>2, <2>3, FencedSecond DEF L
<1>4. CASE n = 2
  <2> DEFINE P == t # None w == PublishedWork(u) z == <<Updated("session", u)>>
             L == w \o z
  <2>1. g = Stage(P, IF t = None THEN <<>> ELSE L) /\ P \in BOOLEAN /\ n + 1 = 3
    BY <1>4 DEF Complete
  <2>2. t # None
    <3> HIDE DEF P, L
    <3>1. P
      BY <2>1, StageLocks
    <3> QED BY <3>1 DEF P
  <2>3. (IF t = None THEN <<>> ELSE L) = L
    BY <2>2
  <2>4. u \in Annotators /\ t \in Annotators
    BY <1>4, <2>2, AtWork
  <2>5. Orderly(r, B, w, 6)
    BY <1>4, <2>4, AtWork, PublishedInOrder DEF Savers
  <2> HIDE DEF P, w
  <2>6. Orderly(r, B, L, 6)
    BY <1>4, <2>4, <2>5, AtWork, EndsWithSession
  <2> HIDE DEF L
  <2>7. NewLocks(r, 3, B \cup Locks(L)) /\ Relies(r, 3, B, B \cup Locks(L)) /\ Tops[r.does][3] = 6
    BY <1>4, AtWork
  <2> QED BY <2>1, <2>3, <2>6, <2>7, GoesOnTo
<1> QED BY <1>1, <1>2, <1>3, <1>4

\* A reopening stays in order: nobody works on the task, and no round is open.
LEMMA ReopenGoesOn ==
    ASSUME NEW r, NEW n, NEW B, NEW g, Prior(r, n, B), r.does = "reopen",
           g = Reopen(r.of, n + 1), g.holds
    PROVE  Steady(r, n + 1, B, g.locks) /\ g.locks \in Seq(Asks)
<1> DEFINE u == r.of
<1>1. n \in {0, 1, 2, 3, 4} /\ u \in Annotators
  BY PriorHas DEF Stages
<1>2. CASE n = 0
  <2>1. g.locks = Fenced(u) /\ n + 1 = 1
    BY <1>2 DEF Reopen, Stage
  <2> QED BY <1>2, <2>1, FencedFirst DEF Fencing
<1>3. CASE n = 1
  <2> DEFINE P == u \in active /\ assigned[u] = None L == <<ForUpdate("task", u)>>
  <2>1. g = Stage(P, L) /\ P \in BOOLEAN /\ n + 1 = 2
    BY <1>3 DEF Reopen
  <2>2. Tops[r.does][2] = 4 /\ Tops[r.does][1] = 2
    BY DEF Tops
  <2>3. Under(B, 2)
    BY <1>3, <2>2, PriorHas
  <2>4. Under(B, 3)
    BY <2>3, UnderMore
  <2>5. Orderly(r, B, L, 4) /\ LockOn("task", u, "update") \in Locks(L)
    BY <1>1, <2>4, AskTask
  <2> HIDE DEF P, L
  <2>6. NewLocks(r, 2, B \cup Locks(L)) /\ Relies(r, 2, B, B \cup Locks(L))
    BY <2>5 DEF NewLocks, Relies
  <2> QED BY <2>1, <2>2, <2>5, <2>6, GoesOnTo
<1>4. CASE n = 2
  <2> DEFINE P == u \in published L == RoundIfOpen(u)
  <2>1. g = Stage(P, L) /\ P \in BOOLEAN /\ n + 1 = 3
    BY <1>4 DEF Reopen
  <2>2. Tops[r.does][3] = 5 /\ Tops[r.does][2] = 4
    BY DEF Tops
  <2>3. Under(B, 4) /\ Updates(B, "task", u)
    BY <1>4, <2>2, PriorHas DEF HasLocks, TakenFrom, Updates, Holds
  <2>4. Orderly(r, B, L, 5)
    BY <1>1, <2>3, RoundInOrder
  <2> HIDE DEF P, L
  <2>5. NewLocks(r, 3, B \cup Locks(L)) /\ Relies(r, 3, B, B \cup Locks(L))
    BY DEF NewLocks, Relies
  <2> QED BY <2>1, <2>2, <2>4, <2>5, GoesOnTo
<1>5. CASE n = 3
  <2> DEFINE P == ~Open(u) L == DraftIfAny(u)
  <2>1. g = Stage(P, L) /\ P \in BOOLEAN /\ n + 1 = 4
    BY <1>5 DEF Reopen, Open
  <2>2. Tops[r.does][4] = 6 /\ Tops[r.does][3] = 5
    BY DEF Tops
  <2>3. Under(B, 5) /\ Updates(B, "task", u)
    BY <1>5, <2>2, PriorHas DEF HasLocks, TakenFrom, Updates, Holds
  <2>4. Orderly(r, B, L, 6)
    BY <1>1, <2>3, DraftInOrder DEF Savers
  <2> HIDE DEF P, L
  <2>6. ~Open(u)
    <3>1. P
      BY <2>1, StageLocks
    <3> QED BY <3>1 DEF P
  <2>5. NewLocks(r, 4, B \cup Locks(L)) /\ Relies(r, 4, B, B \cup Locks(L))
    BY <2>6 DEF NewLocks, Relies
  <2> QED BY <2>1, <2>2, <2>4, <2>5, GoesOnTo
<1>6. CASE n = 4
  <2> DEFINE P == WorkersOn(u) = {} /\ assigned[u] = None L == <<Updated("session", u)>>
  <2>1. g = Stage(P, L) /\ P \in BOOLEAN /\ n + 1 = 5
    BY <1>6 DEF Reopen
  <2>2. Tops[r.does][5] = 6 /\ Tops[r.does][4] = 6
    BY DEF Tops
  <2>3. Under(B, 6) /\ LockOn("session", u, "share") \in B /\ Relies(r, 4, B, B)
    BY <1>6, <2>2, PriorHas DEF HasLocks, TakenFrom, Fencing
  <2>4. Orderly(r, B, L, 6)
    BY <1>1, <2>3, AskUpgrade
  <2> HIDE DEF P, L
  <2>6. P
    BY <2>1, StageLocks
  <2>5. NewLocks(r, 5, B \cup Locks(L)) /\ Relies(r, 5, B, B \cup Locks(L))
    BY <2>3, <2>6 DEF NewLocks, Relies, P
  <2> QED BY <2>1, <2>2, <2>4, <2>5, GoesOnTo
<1> QED BY <1>1, <1>2, <1>3, <1>4, <1>5, <1>6

\* A heartbeat stays in order.
LEMMA HeartbeatGoesOn ==
    ASSUME NEW r, NEW n, NEW B, NEW g, Prior(r, n, B), r.does = "heartbeat",
           g = Heartbeat(r.of, n + 1), g.holds
    PROVE  Steady(r, n + 1, B, g.locks) /\ g.locks \in Seq(Asks)
<1> DEFINE u == r.of
<1>1. n \in {0, 1} /\ u \in Annotators /\ RowsTyped
  BY PriorHas DEF Stages, Prior
<1>2. Tops[r.does][1] = 2 /\ Tops[r.does][2] = 6
  BY DEF Tops
<1>3. \A S : NewLocks(r, n + 1, S) /\ Relies(r, n + 1, B, S)
  BY DEF NewLocks, Relies, Fencing
<1>4. CASE n = 0
  <2> DEFINE P == u \in active L == <<Updated("session", u)>>
  <2>1. g = Stage(P, L) /\ P \in BOOLEAN /\ n + 1 = 1
    BY <1>4 DEF Heartbeat
  <2>2. Under(B, 1)
    BY <1>4, PriorHas, UnderMore
  <2>3. Orderly(r, B, L, 2)
    BY <1>1, <2>2, AskSession DEF Updated, Modes
  <2> HIDE DEF P, L
  <2> QED BY <1>2, <1>3, <2>1, <2>3, GoesOnTo
<1>5. CASE n = 1
  <2> DEFINE L == OwnAssignment(u)
  <2>1. g = Stage(TRUE, L) /\ n + 1 = 2
    BY <1>5 DEF Heartbeat
  <2>2. Under(B, 2)
    BY <1>2, <1>5, PriorHas
  <2>3. Orderly(r, B, L, 3)
    BY <1>1, <2>2, OwnInOrder
  <2> HIDE DEF L
  <2>4. Orderly(r, B, L, 6)
    BY <2>3, OrderlyMore
  <2> QED BY <1>2, <1>3, <2>1, <2>4, GoesOnTo
<1> QED BY <1>1, <1>4, <1>5

\* A login stays in order.
LEMMA LoginGoesOn ==
    ASSUME NEW r, NEW n, NEW B, NEW g, Prior(r, n, B), r.does = "login",
           g = Login(r.of, n + 1), g.holds
    PROVE  Steady(r, n + 1, B, g.locks) /\ g.locks \in Seq(Asks)
<1> DEFINE u == r.of
<1>1. n \in {0, 1} /\ u \in Annotators /\ RowsTyped
  BY PriorHas DEF Stages, Prior
<1>2. Tops[r.does][1] = 1 /\ Tops[r.does][2] = 6
  BY DEF Tops
<1>3. \A S : NewLocks(r, n + 1, S) /\ Relies(r, n + 1, B, S)
  BY DEF NewLocks, Relies, Fencing
<1>4. CASE n = 0
  <2> DEFINE L == <<Updated("annotator", u)>>
  <2>1. g = Stage(TRUE, L) /\ n + 1 = 1
    BY <1>4 DEF Login
  <2>2. Under(B, 0)
    BY <1>4, PriorHas
  <2>3. Orderly(r, B, L, 1)
    BY <1>1, <2>2, AskAnnotator DEF Updated, Modes
  <2> HIDE DEF L
  <2> QED BY <1>2, <1>3, <2>1, <2>3, GoesOnTo
<1>5. CASE n = 1
  <2> DEFINE P == u \in active L == <<ForUpdate("session", u)>>
  <2>1. g = Stage(P, L) /\ P \in BOOLEAN /\ n + 1 = 2
    BY <1>5 DEF Login
  <2>2. Under(B, 1)
    BY <1>2, <1>5, PriorHas
  <2>3. Orderly(r, B, L, 2)
    BY <1>1, <2>2, AskSession DEF ForUpdate, Modes
  <2> HIDE DEF P, L
  <2>4. Orderly(r, B, L, 6)
    BY <2>3, OrderlyMore
  <2> QED BY <1>2, <1>3, <2>1, <2>4, GoesOnTo
<1> QED BY <1>1, <1>4, <1>5

-----------------------------------------------------------------------------
(* Requests of administrators *)

\* Every request of an administrator begins with the session.
LEMMA AdminFirst ==
    ASSUME NEW r, NEW B, NEW g, Prior(r, 0, B), g = Stage(TRUE, <<ForUpdate("admin", r.by)>>),
           r.does \in {"release", "scope", "deactivate", "revoke", "decide", "cancel",
                       "correct"}
    PROVE  Steady(r, 1, B, g.locks) /\ g.locks \in Seq(Asks)
<1> DEFINE L == <<ForUpdate("admin", r.by)>>
<1>1. B = {} /\ r.by \in Admins \cup {None}
  BY PriorHas
<1>2. Orderly(r, B, L, 0)
  BY <1>1, AskAdmin
<1>3. Tops[r.does][1] = 0 /\ 1 = 0 + 1
  BY DEF Tops
<1>4. \A S : NewLocks(r, 1, S) /\ Relies(r, 1, B, S)
  BY DEF NewLocks, Relies, Fencing
<1> HIDE DEF L
<1>5. g = Stage(TRUE, L)
  BY DEF L
<1> QED BY <1>2, <1>3, <1>4, <1>5, GoesOnTo

\* The work that a release ends.
LEMMA ReleasedInOrder ==
    ASSUME NEW r, NEW B, NEW u \in Annotators, Under(B, 4), assigned[u] \in Annotators,
           Updates(B, "task", assigned[u]), r.does \notin Savers,
           None \notin Annotators,
           r.does = "deactivate" => Updates(B, "annotator", r.of) /\ u = r.of
    PROVE  Orderly(r, B, ReleasedWork(u), 6)
<1> DEFINE t == assigned[u]
<1>1. CASE CrossChecks(u)
  <2>1. t # u
    BY <1>1 DEF CrossChecks
  <2> QED BY <1>1, <2>1, CancelledInOrder DEF ReleasedWork
<1>2. CASE ~CrossChecks(u)
  <2>1. t = u
    BY <1>2 DEF CrossChecks
  <2>2. Backed(r, B, LockOn("draft", u, "update"))
    BY <2>1 DEF Backed, LockOn
  <2>3. Under(B, 5)
    BY UnderMore
  <2>4. Orderly(r, B, <<Ask("draft", u, "update")>>, 6)
    BY <2>2, <2>3, AskDraft
  <2> QED BY <1>2, <2>4 DEF ReleasedWork, ForUpdate
<1> QED BY <1>1, <1>2

\* The same, with the task.
LEMMA TaskAndWork ==
    ASSUME NEW r, NEW B, NEW u \in Annotators, Under(B, 3), assigned[u] \in Annotators,
           r.does \in {"release", "cli_release"}
    PROVE  Orderly(r, B, <<ForUpdate("task", assigned[u])>> \o ReleasedWork(u), 6)
<1> DEFINE w == <<ForUpdate("task", assigned[u])>> z == ReleasedWork(u)
           C == B \cup Locks(w)
<1>1. Orderly(r, B, w, 4) /\ LockOn("task", assigned[u], "update") \in Locks(w)
  BY AskTask
<1>2. Under(C, 4) /\ Updates(C, "task", assigned[u]) /\ C = B \cup Locks(w)
  BY <1>1 DEF Orderly, Updates, Holds
<1> HIDE DEF w, C
<1>3. Orderly(r, C, z, 6)
  BY <1>2, NoneIsNothing, ReleasedInOrder DEF Savers
<1> HIDE DEF z
<1>4. Orderly(r, B, w \o z, 6)
  BY <1>1, <1>2, <1>3, Joined
<1> QED BY <1>4 DEF w, z

\* A release stays in order.
LEMMA ReleaseGoesOn ==
    ASSUME NEW r, NEW n, NEW B, NEW g, Prior(r, n, B), r.does = "release",
           g = Release(r.by, r.of, n + 1), g.holds
    PROVE  Steady(r, n + 1, B, g.locks) /\ g.locks \in Seq(Asks)
<1> DEFINE u == r.of t == assigned[u]
<1>1. n \in {0, 1, 2, 3} /\ u \in Annotators /\ RowsTyped
  BY PriorHas DEF Stages, Prior
<1>2. Tops[r.does][1] = 0 /\ Tops[r.does][2] = 1 /\ Tops[r.does][3] = 3 /\ Tops[r.does][4] = 6
  BY DEF Tops
<1>3. \A S : /\ Relies(r, 2, B, S)
             /\ Relies(r, 3, B, S) /\ NewLocks(r, 3, S)
             /\ Relies(r, 4, B, S) /\ NewLocks(r, 4, S)
  BY DEF NewLocks, Relies, Fencing
<1>4. CASE n = 0
  <2>1. g = Stage(TRUE, <<ForUpdate("admin", r.by)>>) /\ n + 1 = 1
    BY <1>4 DEF Release
  <2> QED BY <1>4, <2>1, AdminFirst
<1>5. CASE n = 1
  <2> DEFINE P == t # None L == <<ForUpdate("annotator", u)>>
  <2>1. g = Stage(P, L) /\ P \in BOOLEAN /\ n + 1 = 2
    BY <1>5 DEF Release
  <2>2. Under(B, 0)
    BY <1>2, <1>5, PriorHas
  <2>3. Orderly(r, B, L, 1) /\ LockOn("annotator", u, "update") \in Locks(L)
    BY <1>1, <2>2, AskAnnotator DEF ForUpdate, Modes
  <2> HIDE DEF P, L
  <2>4. NewLocks(r, 2, B \cup Locks(L))
    BY <2>3 DEF NewLocks, Fencing
  <2> QED BY <1>2, <1>3, <2>1, <2>3, <2>4, GoesOnTo
<1>6. CASE n = 2
  <2> DEFINE L == OwnAssignment(u)
  <2>1. g = Stage(TRUE, L) /\ n + 1 = 3
    BY <1>6 DEF Release
  <2>2. Under(B, 2)
    BY <1>2, <1>6, PriorHas, UnderMore
  <2>3. Orderly(r, B, L, 3)
    BY <1>1, <2>2, OwnInOrder
  <2> HIDE DEF L
  <2> QED BY <1>2, <1>3, <2>1, <2>3, GoesOnTo
<1>7. CASE n = 3
  <2> DEFINE P == t # None L == <<ForUpdate("task", t)>> \o ReleasedWork(u)
  <2>1. g = Stage(P, IF t = None THEN <<>> ELSE L) /\ P \in BOOLEAN /\ n + 1 = 4
    BY <1>7 DEF Release
  <2>2. t # None
    <3> HIDE DEF P, L
    <3>1. P
      BY <2>1, StageLocks
    <3> QED BY <3>1 DEF P
  <2>3. (IF t = None THEN <<>> ELSE L) = L
    BY <2>2
  <2>4. t \in Annotators /\ Under(B, 3)
    BY <1>1, <1>2, <1>7, <2>2, PriorHas DEF RowsTyped
  <2>5. Orderly(r, B, L, 6)
    BY <1>1, <2>4, TaskAndWork
  <2> HIDE DEF P, L
  <2> QED BY <1>2, <1>3, <2>1, <2>3, <2>5, GoesOnTo
<1> QED BY <1>1, <1>4, <1>5, <1>6, <1>7

\* A release from the command line stays in order.
LEMMA CliReleaseGoesOn ==
    ASSUME NEW r, NEW n, NEW B, NEW g, Prior(r, n, B), r.does = "cli_release",
           g = CliRelease(r.of, n + 1), g.holds
    PROVE  Steady(r, n + 1, B, g.locks) /\ g.locks \in Seq(Asks)
<1> DEFINE u == r.of t == assigned[u]
<1>1. n \in {0, 1, 2} /\ u \in Annotators /\ RowsTyped
  BY PriorHas DEF Stages, Prior
<1>2. Tops[r.does][1] = 1 /\ Tops[r.does][2] = 3 /\ Tops[r.does][3] = 6
  BY DEF Tops
<1>3. \A S : /\ Relies(r, 1, B, S)
             /\ Relies(r, 2, B, S) /\ NewLocks(r, 2, S)
             /\ Relies(r, 3, B, S) /\ NewLocks(r, 3, S)
  BY DEF NewLocks, Relies, Fencing
<1>5. CASE n = 0
  <2> DEFINE L == <<ForUpdate("annotator", u)>>
  <2>1. g = Stage(TRUE, L) /\ n + 1 = 1
    BY <1>5 DEF CliRelease
  <2>2. Under(B, 0)
    BY <1>2, <1>5, PriorHas
  <2>3. Orderly(r, B, L, 1) /\ LockOn("annotator", u, "update") \in Locks(L)
    BY <1>1, <2>2, AskAnnotator DEF ForUpdate, Modes
  <2> HIDE DEF L
  <2>4. NewLocks(r, 1, B \cup Locks(L))
    BY <2>3 DEF NewLocks, Fencing
  <2> QED BY <1>2, <1>3, <2>1, <2>3, <2>4, GoesOnTo
<1>6. CASE n = 1
  <2> DEFINE P == t # None L == OwnAssignment(u)
  <2>1. g = Stage(P, L) /\ n + 1 = 2 /\ P \in BOOLEAN
    BY <1>6 DEF CliRelease
  <2>2. Under(B, 2)
    BY <1>2, <1>6, PriorHas, UnderMore
  <2>3. Orderly(r, B, L, 3)
    BY <1>1, <2>2, OwnInOrder
  <2> HIDE DEF L, P
  <2> QED BY <1>2, <1>3, <2>1, <2>3, GoesOnTo
<1>7. CASE n = 2
  <2> DEFINE P == t # None L == <<ForUpdate("task", t)>> \o ReleasedWork(u)
  <2>1. g = Stage(P, IF t = None THEN <<>> ELSE L) /\ P \in BOOLEAN /\ n + 1 = 3
    BY <1>7 DEF CliRelease
  <2>2. t # None
    <3> HIDE DEF P, L
    <3>1. P
      BY <2>1, StageLocks
    <3> QED BY <3>1 DEF P
  <2>3. (IF t = None THEN <<>> ELSE L) = L
    BY <2>2
  <2>4. t \in Annotators /\ Under(B, 3)
    BY <1>1, <1>2, <1>7, <2>2, PriorHas DEF RowsTyped
  <2>5. Orderly(r, B, L, 6)
    BY <1>1, <2>4, TaskAndWork
  <2> HIDE DEF P, L
  <2> QED BY <1>2, <1>3, <2>1, <2>3, <2>5, GoesOnTo
<1> QED BY <1>1, <1>5, <1>6, <1>7

\* A change of scope stays in order.
LEMMA ScopeGoesOn ==
    ASSUME NEW r, NEW n, NEW B, NEW g, Prior(r, n, B), r.does = "scope",
           g = Scope(r.by, r.of, n + 1), g.holds
    PROVE  Steady(r, n + 1, B, g.locks) /\ g.locks \in Seq(Asks)
<1> DEFINE u == r.of
<1>1. n \in {0, 1} /\ u \in Annotators
  BY PriorHas DEF Stages
<1>2. Tops[r.does][1] = 0 /\ Tops[r.does][2] = 6
  BY DEF Tops
<1>3. \A S : Relies(r, 2, B, S) /\ NewLocks(r, 2, S)
  BY DEF NewLocks, Relies, Fencing
<1>4. CASE n = 0
  <2>1. g = Stage(TRUE, <<ForUpdate("admin", r.by)>>) /\ n + 1 = 1
    BY <1>4 DEF Scope
  <2> QED BY <1>4, <2>1, AdminFirst
<1>5. CASE n = 1
  <2> DEFINE L == <<ForUpdate("annotator", u)>>
  <2>1. g = Stage(TRUE, L) /\ n + 1 = 2
    BY <1>5 DEF Scope
  <2>2. Under(B, 0)
    BY <1>2, <1>5, PriorHas
  <2>3. Orderly(r, B, L, 1)
    BY <1>1, <2>2, AskAnnotator DEF ForUpdate, Modes
  <2> HIDE DEF L
  <2>4. Orderly(r, B, L, 6)
    BY <2>3, OrderlyMore
  <2> QED BY <1>2, <1>3, <2>1, <2>4, GoesOnTo
<1> QED BY <1>1, <1>4, <1>5

\* The event about a result that is withdrawn refers to the second annotator.
LEMMA SecondAnnotator ==
    ASSUME NEW r, NEW B, NEW t \in Annotators, Under(B, 6), Late(r, "annotator"),
           Open(t) => rounds[t].by \in Annotators
    PROVE  Orderly(r, B, IF Open(t) THEN <<Referred("annotator", rounds[t].by)>> ELSE <<>>, 6)
<1>1. CASE Open(t)
  <2>1. "key_share" \in Modes /\ 6 >= Level("annotator")
    BY DEF Modes, Level
  <2>2. Orderly(r, B, <<Ask("annotator", rounds[t].by, "key_share")>>, 6)
    BY <1>1, <2>1, AskLate
  <2> QED BY <1>1, <2>2 DEF Referred
<1>2. CASE ~Open(t)
  BY <1>2, Nothing
<1> QED BY <1>1, <1>2

\* A result that a revocation withdraws.
LEMMA WithdrawnInOrder ==
    ASSUME NEW r, NEW B, NEW t \in Annotators, Under(B, 4), Updates(B, "task", t),
           r.does = "revoke", RowsAgree
    PROVE  /\ Orderly(r, B, Withdrawn(t), 6)
           /\ Open(t) => LockOn("draft", t, "update") \in Locks(Withdrawn(t))
           /\ ~Open(t) => Orderly(r, B, Withdrawn(t), 5)
<1> DEFINE w == RoundIfOpen(t) z == RoundVersions(t)
           y == IF Open(t) THEN <<Referred("annotator", rounds[t].by)>> ELSE <<>>
           C == B \cup Locks(w)
           D == B \cup Locks(w \o z)
<1>1. Orderly(r, B, w, 5)
  BY RoundInOrder
<1>2. Under(C, 5) /\ Updates(C, "task", t) /\ C = B \cup Locks(w)
  BY <1>1 DEF Orderly, Updates, Holds
<1>3. /\ Orderly(r, C, z, 6)
      /\ Open(t) => LockOn("draft", t, "update") \in Locks(z)
      /\ ~Open(t) => Orderly(r, C, z, 5)
  BY <1>2, VersionsInOrder DEF Savers
<1>4. Withdrawn(t) = (w \o z) \o y
  BY DEF Withdrawn
<1> HIDE DEF w, z, C
<1>5. Orderly(r, B, w \o z, 6) /\ (~Open(t) => Orderly(r, B, w \o z, 5))
  BY <1>1, <1>2, <1>3, Joined
<1>6. Locks(w \o z) = Locks(w) \cup Locks(z)
  BY <1>1, <1>3, LocksJoined DEF Orderly
<1>7. Under(D, 6) /\ D = B \cup Locks(w \o z) /\ (~Open(t) => Under(D, 5))
  BY <1>5 DEF Orderly
<1> HIDE DEF D
<1>8. Orderly(r, D, y, 6)
  <2>1. Late(r, "annotator") /\ (Open(t) => rounds[t].by \in Annotators)
    BY DEF Late, RowsAgree
  <2> QED BY <1>7, <2>1, SecondAnnotator
<1>9. ~Open(t) => Orderly(r, D, y, 5)
  BY <1>7, Nothing
<1> HIDE DEF y
<1>10. Orderly(r, B, (w \o z) \o y, 6) /\ (~Open(t) => Orderly(r, B, (w \o z) \o y, 5))
  BY <1>5, <1>7, <1>8, <1>9, Joined
<1>11. Locks((w \o z) \o y) = Locks(w \o z) \cup Locks(y)
  BY <1>5, <1>8, LocksJoined DEF Orderly
<1> QED BY <1>3, <1>4, <1>6, <1>10, <1>11

\* The annotator's own result: the round and the draft are asked for late.
LEMMA OwnWithdrawn ==
    ASSUME NEW r, NEW B, Under(B, 6), r.of \in Annotators, r.does = "deactivate",
           Updates(B, "task", r.of), Updates(B, "annotator", r.of), RowsAgree,
           Open(r.of) => \A l \in B : l.row # <<"draft", r.of>>
    PROVE  Orderly(r, B, Withdrawn(r.of), 6)
<1> DEFINE u == r.of
<1>1. CASE Open(u)
  <2> DEFINE a == Ask("round", u, "update") b == Ask("published", u, "update")
             c == Ask("draft", u, "update")
             d == Referred("annotator", rounds[u].by)
             w == <<a>> z == <<b>> y == <<c>> x == <<d>>
             C == B \cup Locks(w) D == C \cup Locks(z) E == D \cup Locks(y)
  <2>1. /\ "round" \in Kinds \ {"admin"} /\ "draft" \in Kinds \ {"admin"}
        /\ "update" \in Modes /\ Level("round") <= 6 /\ Level("draft") <= 6
    BY DEF Kinds, Modes, Level
  <2>2. Orderly(r, B, w, 6) /\ Locks(w) = {LockOn("round", u, "update")}
    <3>1. Fit(r, B, a)
      BY <1>1 DEF Fit, Exempt, Backed, Ask, LockOf, OwnRound
    <3> QED BY <2>1, <3>1, Asked
  <2>3. /\ Under(C, 6) /\ Updates(C, "task", u) /\ Updates(C, "round", u)
        /\ Updates(C, "annotator", u) /\ C = B \cup Locks(w)
    BY <2>2 DEF Orderly, Updates, Holds
  <2> HIDE DEF w, C
  <2>4. Orderly(r, C, z, 6)
    BY <2>1, <2>3, AskPublished
  <2>5. /\ Under(D, 6) /\ Updates(D, "task", u) /\ Updates(D, "round", u)
        /\ Updates(D, "annotator", u) /\ D = C \cup Locks(z)
    BY <2>3, <2>4 DEF Orderly, Updates, Holds
  <2> HIDE DEF z, D
  <2>6. Orderly(r, D, y, 6)
    <3>1. Fit(r, D, c)
      BY <2>5 DEF Fit, Exempt, OwnDraft, Backed, Ask, LockOf, OwnRound, Savers
    <3> QED BY <2>1, <2>5, <3>1, Asked
  <2>7. Under(E, 6) /\ E = D \cup Locks(y)
    BY <2>6 DEF Orderly
  <2> HIDE DEF y, E
  <2>8. Orderly(r, E, x, 6)
    <3>1. Late(r, "annotator") /\ (Open(u) => rounds[u].by \in Annotators)
      BY DEF Late, RowsAgree
    <3>2. Orderly(r, E, IF Open(u) THEN <<Referred("annotator", rounds[u].by)>> ELSE <<>>, 6)
      BY <2>7, <3>1, SecondAnnotator
    <3> QED BY <1>1, <3>2
  <2>9. Withdrawn(u) = (w \o (z \o y)) \o x
    BY <1>1 DEF Withdrawn, RoundIfOpen, RoundVersions, ForUpdate, w, z, y
  <2> HIDE DEF x
  <2>10. Orderly(r, C, z \o y, 6)
    BY <2>4, <2>5, <2>6, Joined
  <2>11. Orderly(r, B, w \o (z \o y), 6)
    BY <2>2, <2>3, <2>10, Joined
  <2>12. Locks(z \o y) = Locks(z) \cup Locks(y)
    BY <2>4, <2>6, LocksJoined DEF Orderly
  <2>13. Locks(w \o (z \o y)) = Locks(w) \cup Locks(z \o y)
    <3> DEFINE v == z \o y
    <3>1. w \in Seq(Asks) /\ v \in Seq(Asks)
      BY <2>2, <2>10 DEF Orderly
    <3> HIDE DEF v
    <3>2. Locks(w \o v) = Locks(w) \cup Locks(v)
      BY <3>1, LocksJoined
    <3> QED BY <3>2 DEF v
  <2>14. E = B \cup Locks(w \o (z \o y))
    BY <2>3, <2>5, <2>7, <2>12, <2>13
  <2> QED BY <2>8, <2>9, <2>11, <2>14, Joined
<1>2. CASE ~Open(u)
  <2> DEFINE b == Ask("published", u, "update") z == <<b>>
  <2>1. Orderly(r, B, z, 6)
    BY AskPublished DEF Modes
  <2>2. Withdrawn(u) = (<<>> \o (z \o <<>>)) \o <<>>
    BY <1>2 DEF Withdrawn, RoundIfOpen, RoundVersions, ForUpdate
  <2>3. z \in Seq(Asks)
    BY <2>1 DEF Orderly
  <2> HIDE DEF z
  <2>4. (<<>> \o (z \o <<>>)) \o <<>> = z
    BY <2>3
  <2> QED BY <2>1, <2>2, <2>4
<1> QED BY <1>1, <1>2

\* A deactivation comes to the task of the annotator's result.
LEMMA LateTask ==
    ASSUME NEW r, NEW B, NEW u \in Annotators, Under(B, 6), r.does = "deactivate"
    PROVE  /\ Orderly(r, B, <<Ask("task", u, "update")>>, 6)
           /\ Locks(<<Ask("task", u, "update")>>) = {LockOn("task", u, "update")}
<1>1. "update" \in Modes /\ 6 >= Level("task") /\ Late(r, "task")
  BY DEF Modes, Level, Late
<1> QED BY <1>1, AskLate

\* A deactivation stays in order, but for what it comes to late.
LEMMA DeactivateGoesOn ==
    ASSUME NEW r, NEW n, NEW B, NEW g, Prior(r, n, B), r.does = "deactivate",
           g = DeactivateUser(r.by, r.of, n + 1), g.holds
    PROVE  Steady(r, n + 1, B, g.locks) /\ g.locks \in Seq(Asks)
<1> DEFINE u == r.of t == assigned[u]
<1>1. n \in {0, 1, 2, 3, 4, 5} /\ u \in Annotators /\ RowsTyped /\ RowsAgree
  BY PriorHas DEF Stages, Prior
<1>2. /\ Tops[r.does][1] = 0 /\ Tops[r.does][2] = 1 /\ Tops[r.does][3] = 4
      /\ Tops[r.does][4] = 6 /\ Tops[r.does][5] = 6 /\ Tops[r.does][6] = 6
  BY DEF Tops
<1>3. t \in Annotators \/ t = None
  BY <1>1 DEF RowsTyped
<1>4. CASE n = 0
  <2>1. g = Stage(TRUE, <<ForUpdate("admin", r.by)>>) /\ n + 1 = 1
    BY <1>4 DEF DeactivateUser
  <2> QED BY <1>4, <2>1, AdminFirst
<1>5. CASE n = 1
  <2> DEFINE L == <<ForUpdate("annotator", u)>>
  <2>1. g = Stage(TRUE, L) /\ n + 1 = 2
    BY <1>5 DEF DeactivateUser
  <2>2. Under(B, 0)
    BY <1>2, <1>5, PriorHas
  <2>3. Orderly(r, B, L, 1) /\ LockOn("annotator", u, "update") \in Locks(L)
    BY <1>1, <2>2, AskAnnotator DEF ForUpdate, Modes
  <2> HIDE DEF L
  <2>4. NewLocks(r, 2, B \cup Locks(L)) /\ Relies(r, 2, B, B \cup Locks(L))
    BY <2>3 DEF NewLocks, Relies, Fencing
  <2> QED BY <1>2, <2>1, <2>3, <2>4, GoesOnTo
<1>6. CASE n = 2
  <2> DEFINE P == u \in active
             w == <<ForUpdate("session", u)>> z == OwnAssignment(u)
             y == IF t = None THEN <<>> ELSE <<ForUpdate("task", t)>>
             L == (w \o z) \o y
             C == B \cup Locks(w) D == B \cup Locks(w \o z)
  <2>1. g = Stage(P, L) /\ P \in BOOLEAN /\ n + 1 = 3
    BY <1>6 DEF DeactivateUser
  <2>2. Under(B, 1)
    BY <1>2, <1>6, PriorHas
  <2>3. Orderly(r, B, w, 2)
    BY <1>1, <2>2, AskSession DEF ForUpdate, Modes
  <2>4. Under(C, 2) /\ C = B \cup Locks(w)
    BY <2>3 DEF Orderly
  <2> HIDE DEF w, C, P
  <2>5. Orderly(r, C, z, 3)
    BY <1>1, <2>4, OwnInOrder
  <2> HIDE DEF z
  <2>6. Orderly(r, B, w \o z, 3)
    BY <2>3, <2>4, <2>5, Joined
  <2>7. Under(D, 3) /\ D = B \cup Locks(w \o z)
    BY <2>6 DEF Orderly
  <2> HIDE DEF D
  <2>8. Orderly(r, D, y, 4) /\ (t # None => LockOn("task", t, "update") \in Locks(y))
    <3>1. CASE t = None
      BY <2>7, <3>1, UnderMore, Nothing
    <3>2. CASE t # None
      BY <1>3, <2>7, <3>2, AskTask
    <3> QED BY <3>1, <3>2
  <2> HIDE DEF y
  <2>9. Orderly(r, B, L, 4)
    BY <2>6, <2>7, <2>8, Joined
  <2>10. Locks(L) = Locks(w \o z) \cup Locks(y)
    BY <2>6, <2>8, LocksJoined DEF Orderly
  <2>11. t # None => Updates(B \cup Locks(L), "task", t)
    BY <2>8, <2>10 DEF Updates, Holds
  <2> HIDE DEF L
  <2>12. NewLocks(r, 3, B \cup Locks(L)) /\ Relies(r, 3, B, B \cup Locks(L))
    BY <2>11 DEF NewLocks, Relies, Fencing
  <2> QED BY <1>2, <2>1, <2>9, <2>12, GoesOnTo
<1>7. CASE n = 3
  <2> DEFINE L == IF t = None THEN <<>> ELSE ReleasedWork(u)
  <2>1. g = Stage(TRUE, L) /\ n + 1 = 4
    BY <1>7 DEF DeactivateUser
  <2>2. /\ Under(B, 4) /\ Updates(B, "annotator", u)
        /\ t # None => Updates(B, "task", t)
    BY <1>2, <1>7, PriorHas DEF HasLocks, TakenFrom, Updates, Holds, Relies
  <2>3. Orderly(r, B, L, 6)
    <3>1. CASE t = None
      BY <2>2, <3>1, UnderMore, Nothing
    <3>2. CASE t # None
      BY <1>1, <1>3, <2>2, <3>2, ReleasedInOrder, NoneIsNothing DEF Savers
    <3> QED BY <3>1, <3>2
  <2>4. ASSUME NEW l \in B \cup Locks(L), l.row = <<"draft", u>>
        PROVE  ~Open(u) /\ Updates(B, "task", u)
    <3>1. l \notin B
      BY <2>2, <2>4 DEF Under, Level
    <3>2. t # None
      BY <2>4, <3>1, Nothing
    <3>3. CASE CrossChecks(u)
      <4> DEFINE a == Ask("round", t, "update") b == Ask("draft", t, "update")
      <4>1. L = <<a, b>>
        BY <3>2, <3>3 DEF ReleasedWork, CancelledRound, ForUpdate
      <4>2. a \in Asks /\ b \in Asks
        BY <1>3, <3>2, AskTyped DEF Kinds, Modes
      <4>3. l.row = <<"round", t>> \/ l.row = <<"draft", t>>
        <5>1. Locks(<<a, b>>) = {LockOf(a), LockOf(b)}
          BY <4>2, LocksOfTwo
        <5>2. l = LockOf(a) \/ l = LockOf(b)
          BY <2>4, <3>1, <4>1, <5>1
        <5> QED BY <5>2 DEF LockOf, Ask
      <4> QED BY <2>4, <3>3, <4>3 DEF CrossChecks
    <3>4. CASE ~CrossChecks(u)
      <4>1. t = u
        BY <3>2, <3>4 DEF CrossChecks
      <4>2. ~Open(u)
        BY <1>1, <4>1 DEF RowsAgree
      <4> QED BY <2>2, <3>2, <4>1, <4>2
    <3> QED BY <3>3, <3>4
  <2> HIDE DEF L
  <2>5. NewLocks(r, 4, B \cup Locks(L)) /\ Relies(r, 4, B, B \cup Locks(L))
    BY <2>4 DEF NewLocks, Relies, Fencing
  <2> QED BY <1>2, <2>1, <2>3, <2>5, GoesOnTo
<1>8. CASE n = 4
  <2> DEFINE L == IF u \in published THEN <<ForUpdate("task", u)>> ELSE <<>>
  <2>1. g = Stage(TRUE, L) /\ n + 1 = 5
    BY <1>8 DEF DeactivateUser
  <2>2. Under(B, 6) /\ Relies(r, 4, B, B)
    BY <1>2, <1>8, PriorHas
  <2>3. /\ Orderly(r, B, L, 6)
        /\ Locks(L) = IF u \in published THEN {LockOn("task", u, "update")} ELSE {}
    <3>1. CASE u \notin published
      BY <2>2, <3>1, Nothing
    <3>2. CASE u \in published
      <4>2. /\ Orderly(r, B, <<Ask("task", u, "update")>>, 6)
            /\ Locks(<<Ask("task", u, "update")>>) = {LockOn("task", u, "update")}
        BY <1>1, <2>2, LateTask
      <4> QED BY <3>2, <4>2 DEF ForUpdate
    <3> QED BY <3>1, <3>2
  <2> HIDE DEF L
  <2>4. NewLocks(r, 5, B \cup Locks(L))
    BY <2>3 DEF NewLocks, Fencing
  <2>5. Relies(r, 5, B, B \cup Locks(L))
    <3> SUFFICES ASSUME NEW l \in B \cup Locks(L), l.row = <<"draft", u>>
                 PROVE  ~Open(u) /\ Updates(B, "task", u)
      BY DEF Relies
    <3>1. l \in B
      BY <2>3 DEF LockOn
    <3> QED BY <2>2, <3>1 DEF Relies
  <2> QED BY <1>2, <2>1, <2>3, <2>4, <2>5, GoesOnTo
<1>9. CASE n = 5
  <2> DEFINE P == WorkersOn(u) \subseteq {u}
             L == IF u \in published THEN Withdrawn(u) ELSE <<>>
  <2>1. g = Stage(P, L) /\ P \in BOOLEAN /\ n + 1 = 6
    BY <1>9 DEF DeactivateUser
  <2>2. /\ Under(B, 6) /\ Relies(r, 5, B, B) /\ Updates(B, "annotator", u)
        /\ u \in published => Updates(B, "task", u)
    BY <1>2, <1>9, PriorHas DEF HasLocks, TakenFrom, Updates, Holds
  <2>3. Orderly(r, B, L, 6)
    <3>1. CASE u \notin published
      BY <2>2, <3>1, Nothing
    <3>2. CASE u \in published
      <4>1. Open(u) => \A l \in B : l.row # <<"draft", u>>
        BY <2>2 DEF Relies
      <4> QED BY <1>1, <2>2, <3>2, <4>1, OwnWithdrawn
    <3> QED BY <3>1, <3>2
  <2>4. P
    <3> HIDE DEF P, L
    <3> QED BY <2>1, StageLocks
  <2> HIDE DEF L
  <2>5. NewLocks(r, 6, B \cup Locks(L)) /\ Relies(r, 6, B, B \cup Locks(L))
    BY <2>4 DEF NewLocks, Relies, Fencing
  <2> HIDE DEF P
  <2> QED BY <1>2, <2>1, <2>3, <2>5, GoesOnTo
<1> QED BY <1>1, <1>4, <1>5, <1>6, <1>7, <1>8, <1>9

\* At most one annotator works on a task.
LEMMA WorkersAreFew ==
    ASSUME RowsTyped, RowsAgree, NEW t \in Annotators
    PROVE  WorkersOn(t) \in SUBSET Annotators /\ IsFiniteSet(WorkersOn(t))
<1>1. CASE WorkersOn(t) = {}
  BY <1>1, FS_EmptySet
<1>2. CASE WorkersOn(t) # {}
  <2>1. PICK u \in Annotators : assigned[u] = t
    BY <1>2 DEF WorkersOn
  <2>2. WorkersOn(t) = {u}
    BY <2>1, NoneIsNothing DEF RowsAgree, Consistent
  <2> QED BY <2>1, <2>2, FS_Singleton
<1> QED BY <1>1, <1>2

\* A decision concerns finitely many annotators.
LEMMA ConcernedAreFew ==
    ASSUME RowsTyped, RowsAgree, NEW t \in Annotators
    PROVE  Concerned(t) \in SUBSET Annotators /\ IsFiniteSet(Concerned(t))
<1>1. WorkersOn(t) \in SUBSET Annotators /\ IsFiniteSet(WorkersOn(t))
  BY WorkersAreFew
<1>2. Open(t) => rounds[t].by \in Annotators
  BY DEF RowsAgree
<1>3. IsFiniteSet({t} \cup WorkersOn(t))
  BY <1>1, FS_Singleton, FS_Union
<1>4. IsFiniteSet(IF Open(t) THEN {rounds[t].by} ELSE {})
  BY FS_Singleton, FS_EmptySet
<1>5. IsFiniteSet(Concerned(t))
  <2> DEFINE X == {t} \cup WorkersOn(t) Y == IF Open(t) THEN {rounds[t].by} ELSE {}
  <2>1. IsFiniteSet(X) /\ IsFiniteSet(Y) /\ Concerned(t) = X \cup Y
    BY <1>3, <1>4 DEF Concerned
  <2> HIDE DEF X, Y
  <2> QED BY <2>1, FS_Union
<1> QED BY <1>1, <1>2, <1>5 DEF Concerned

\* Their rows are locked in the order of their ids.
LEMMA ConcernedInOrder ==
    ASSUME RowsTyped, RowsAgree, NEW r, NEW B, NEW t \in Annotators, Under(B, 0)
    PROVE  Orderly(r, B, RowsOf("annotator", Concerned(t)), 1)
<1>1. Level("annotator") = 0 + 1
  BY DEF Level
<1>2. Orderly(r, B, RowsOf("annotator", Concerned(t)), 0 + 1)
  BY <1>1, ConcernedAreFew, RowsAreInOrder
<1>3. 0 + 1 = 1
  OBVIOUS
<1> QED BY <1>2, <1>3

\* The assignments of a task are locked in the order of the ids.
LEMMA AssignmentsInOrder ==
    ASSUME RowsTyped, RowsAgree, NEW r, NEW B, NEW t \in Annotators, Under(B, 2)
    PROVE  Orderly(r, B, Assignment(WorkersOn(t)), 3)
<1>1. Level("assignment") = 2 + 1
  BY DEF Level
<1>2. Orderly(r, B, RowsOf("assignment", WorkersOn(t)), 2 + 1)
  BY <1>1, WorkersAreFew, RowsAreInOrder
<1>3. 2 + 1 = 3
  OBVIOUS
<1> QED BY <1>2, <1>3 DEF Assignment

\* A revocation stays in order, but for the second annotator.
LEMMA RevokeGoesOn ==
    ASSUME NEW r, NEW n, NEW B, NEW g, Prior(r, n, B), r.does = "revoke",
           g = Revoke(r.by, r.task, n + 1), g.holds
    PROVE  Steady(r, n + 1, B, g.locks) /\ g.locks \in Seq(Asks)
<1> DEFINE t == r.task
<1>1. n \in {0, 1, 2, 3, 4} /\ t \in Annotators /\ RowsTyped /\ RowsAgree
  BY PriorHas DEF Stages, Prior
<1>2. /\ Tops[r.does][1] = 0 /\ Tops[r.does][2] = 1 /\ Tops[r.does][3] = 3
      /\ Tops[r.does][4] = 4 /\ Tops[r.does][5] = 6
  BY DEF Tops
<1>3. \A S : /\ Relies(r, 2, B, S) /\ NewLocks(r, 2, S)
             /\ Relies(r, 3, B, S) /\ NewLocks(r, 3, S)
             /\ Relies(r, 4, B, S)
             /\ Relies(r, 5, B, S) /\ NewLocks(r, 5, S)
  BY DEF NewLocks, Relies, Fencing
<1>4. CASE n = 0
  <2>1. g = Stage(TRUE, <<ForUpdate("admin", r.by)>>) /\ n + 1 = 1
    BY <1>4 DEF Revoke
  <2> QED BY <1>4, <2>1, AdminFirst
<1>5. CASE n = 1
  <2> DEFINE L == RowsOf("annotator", Concerned(t))
  <2>1. g = Stage(TRUE, L) /\ n + 1 = 2
    BY <1>5 DEF Revoke
  <2>2. Under(B, 0)
    BY <1>2, <1>5, PriorHas
  <2>3. Orderly(r, B, L, 1)
    BY <1>1, <2>2, ConcernedInOrder
  <2> HIDE DEF L
  <2> QED BY <1>2, <1>3, <2>1, <2>3, GoesOnTo
<1>6. CASE n = 2
  <2> DEFINE L == Assignment(WorkersOn(t))
  <2>1. g = Stage(TRUE, L) /\ n + 1 = 3
    BY <1>6 DEF Revoke
  <2>2. Under(B, 2)
    BY <1>2, <1>6, PriorHas, UnderMore
  <2>3. Orderly(r, B, L, 3)
    BY <1>1, <2>2, AssignmentsInOrder
  <2> HIDE DEF L
  <2> QED BY <1>2, <1>3, <2>1, <2>3, GoesOnTo
<1>7. CASE n = 3
  <2> DEFINE L == <<ForUpdate("task", t)>>
  <2>1. g = Stage(TRUE, L) /\ n + 1 = 4
    BY <1>7 DEF Revoke
  <2>2. Under(B, 3)
    BY <1>2, <1>7, PriorHas
  <2>3. Orderly(r, B, L, 4) /\ LockOn("task", t, "update") \in Locks(L)
    BY <1>1, <2>2, AskTask
  <2> HIDE DEF L
  <2>4. NewLocks(r, 4, B \cup Locks(L))
    BY <2>3 DEF NewLocks, Fencing
  <2> QED BY <1>2, <1>3, <2>1, <2>3, <2>4, GoesOnTo
<1>8. CASE n = 4
  <2> DEFINE P == t \in published w == Withdrawn(t) z == DraftIfAny(t)
             L == w \o z C == B \cup Locks(w)
  <2>1. g = Stage(P, L) /\ P \in BOOLEAN /\ n + 1 = 5
    BY <1>8 DEF Revoke
  <2>2. Under(B, 4) /\ Updates(B, "task", t)
    BY <1>2, <1>8, PriorHas DEF HasLocks, TakenFrom, Updates, Holds
  <2>3. /\ Orderly(r, B, w, 6)
        /\ Open(t) => LockOn("draft", t, "update") \in Locks(w)
        /\ ~Open(t) => Orderly(r, B, w, 5)
    BY <1>1, <2>2, WithdrawnInOrder
  <2>4. /\ Under(C, 6) /\ (~Open(t) => Under(C, 5)) /\ C = B \cup Locks(w)
        /\ Updates(C, "task", t) /\ (Open(t) => Updates(C, "draft", t))
    BY <2>2, <2>3 DEF Orderly, Updates, Holds
  <2> HIDE DEF P, w, C
  <2>5. Orderly(r, C, z, 6)
    <3>1. CASE WorkersOn(t) = {}
      BY <2>4, <3>1, Nothing DEF DraftIfAny
    <3>2. CASE Open(t) /\ WorkersOn(t) # {}
      <4>1. Backed(r, C, LockOn("draft", t, "update")) /\ 6 >= Level("draft")
        BY <2>4 DEF Backed, LockOn, Level
      <4>2. Orderly(r, C, <<ForUpdate("draft", t)>>, 6)
        BY <1>1, <2>4, <3>2, <4>1, AskAgain DEF Savers
      <4> QED BY <3>2, <4>2 DEF DraftIfAny
    <3>3. CASE ~Open(t)
      BY <1>1, <2>4, <3>3, DraftInOrder DEF Savers
    <3> QED BY <3>1, <3>2, <3>3
  <2> HIDE DEF z
  <2>6. Orderly(r, B, L, 6)
    BY <2>3, <2>4, <2>5, Joined
  <2> HIDE DEF L
  <2> QED BY <1>2, <1>3, <2>1, <2>6, GoesOnTo
<1> QED BY <1>1, <1>4, <1>5, <1>6, <1>7, <1>8

\* A decision stays in order.
LEMMA DecideGoesOn ==
    ASSUME NEW r, NEW n, NEW B, NEW g, Prior(r, n, B), r.does = "decide",
           g = Decide(r.by, r.task, n + 1), g.holds
    PROVE  Steady(r, n + 1, B, g.locks) /\ g.locks \in Seq(Asks)
<1> DEFINE t == r.task
<1>1. n \in {0, 1, 2, 3, 4, 5} /\ t \in Annotators /\ RowsTyped /\ RowsAgree
  BY PriorHas DEF Stages, Prior
<1>2. /\ Tops[r.does][1] = 0 /\ Tops[r.does][2] = 1 /\ Tops[r.does][3] = 3
      /\ Tops[r.does][4] = 4 /\ Tops[r.does][5] = 5 /\ Tops[r.does][6] = 6
  BY DEF Tops
<1>3. \A S : /\ NewLocks(r, 2, S) /\ NewLocks(r, 3, S)
             /\ NewLocks(r, 5, S) /\ NewLocks(r, 6, S)
  BY DEF NewLocks, Fencing
<1>4. n >= 2 => \A m, S : Relies(r, m, B, S)
  <2>1. Relies(r, n, B, B)
    BY PriorHas
  <2> QED BY <2>1 DEF Relies
<1>10. CASE n = 0
  <2>1. g = Stage(TRUE, <<ForUpdate("admin", r.by)>>) /\ n + 1 = 1
    BY <1>10 DEF Decide
  <2> QED BY <1>10, <2>1, AdminFirst
<1>5. CASE n = 1
  <2> DEFINE P == rounds[t].state = "awaiting_review" L == RowsOf("annotator", Concerned(t))
  <2>1. g = Stage(P, L) /\ P \in BOOLEAN /\ n + 1 = 2
    BY <1>5 DEF Decide
  <2>2. Under(B, 0)
    BY <1>2, <1>5, PriorHas
  <2>3. Orderly(r, B, L, 1)
    BY <1>1, <2>2, ConcernedInOrder
  <2> HIDE DEF P, L
  <2>4. P
    BY <2>1, StageLocks
  <2>5. Relies(r, 2, B, B \cup Locks(L))
    BY <2>4 DEF Relies, P
  <2> QED BY <1>2, <1>3, <2>1, <2>3, <2>5, GoesOnTo
<1>6. CASE n = 2
  <2> DEFINE L == Assignment(WorkersOn(t))
  <2>1. g = Stage(TRUE, L) /\ n + 1 = 3
    BY <1>6 DEF Decide
  <2>2. Under(B, 2)
    BY <1>2, <1>6, PriorHas, UnderMore
  <2>3. Orderly(r, B, L, 3)
    BY <1>1, <2>2, AssignmentsInOrder
  <2> HIDE DEF L
  <2>4. Relies(r, 3, B, B \cup Locks(L))
    BY <1>4, <1>6
  <2> QED BY <1>2, <1>3, <2>1, <2>3, <2>4, GoesOnTo
<1>7. CASE n = 3
  <2> DEFINE P == WorkersOn(t) = {} L == <<ForUpdate("task", t)>>
  <2>1. g = Stage(P, L) /\ P \in BOOLEAN /\ n + 1 = 4
    BY <1>7 DEF Decide
  <2>2. Under(B, 3)
    BY <1>2, <1>7, PriorHas
  <2>3. Orderly(r, B, L, 4) /\ LockOn("task", t, "update") \in Locks(L)
    BY <1>1, <2>2, AskTask
  <2> HIDE DEF P, L
  <2>4. NewLocks(r, 4, B \cup Locks(L)) /\ Relies(r, 4, B, B \cup Locks(L))
    BY <1>4, <1>7, <2>3 DEF NewLocks, Fencing
  <2> QED BY <1>2, <2>1, <2>3, <2>4, GoesOnTo
<1>8. CASE n = 4
  <2> DEFINE L == RoundIfOpen(t)
  <2>1. g = Stage(TRUE, L) /\ n + 1 = 5
    BY <1>8 DEF Decide
  <2>2. Under(B, 4) /\ Updates(B, "task", t)
    BY <1>2, <1>8, PriorHas DEF HasLocks, TakenFrom, Updates, Holds
  <2>3. Orderly(r, B, L, 5)
    BY <1>1, <2>2, RoundInOrder
  <2> HIDE DEF L
  <2>4. Relies(r, 5, B, B \cup Locks(L))
    BY <1>4, <1>8
  <2> QED BY <1>2, <1>3, <2>1, <2>3, <2>4, GoesOnTo
<1>9. CASE n = 5
  <2> DEFINE P == rounds[t].state = "awaiting_review" L == RoundVersions(t)
  <2>1. g = Stage(P, L) /\ P \in BOOLEAN /\ n + 1 = 6
    BY <1>9 DEF Decide
  <2>2. Under(B, 5) /\ Updates(B, "task", t)
    BY <1>2, <1>9, PriorHas DEF HasLocks, TakenFrom, Updates, Holds
  <2>3. Orderly(r, B, L, 6)
    BY <1>1, <2>2, VersionsInOrder DEF Savers
  <2> HIDE DEF P, L
  <2>4. Relies(r, 6, B, B \cup Locks(L))
    BY <1>4, <1>9
  <2> QED BY <1>2, <1>3, <2>1, <2>3, <2>4, GoesOnTo
<1> QED BY <1>1, <1>10, <1>5, <1>6, <1>7, <1>8, <1>9

\* A cancellation stays in order.
LEMMA CancelGoesOn ==
    ASSUME NEW r, NEW n, NEW B, NEW g, Prior(r, n, B), r.does = "cancel",
           g = Cancel(r.by, r.task, n + 1), g.holds
    PROVE  Steady(r, n + 1, B, g.locks) /\ g.locks \in Seq(Asks)
<1> DEFINE t == r.task
<1>1. n \in {0, 1, 2, 3, 4, 5} /\ t \in Annotators /\ RowsTyped /\ RowsAgree
  BY PriorHas DEF Stages, Prior
<1>2. /\ Tops[r.does][1] = 0 /\ Tops[r.does][2] = 1 /\ Tops[r.does][3] = 3
      /\ Tops[r.does][4] = 4 /\ Tops[r.does][5] = 5 /\ Tops[r.does][6] = 6
  BY DEF Tops
<1>3. \A S : /\ Relies(r, 2, B, S) /\ NewLocks(r, 2, S)
             /\ Relies(r, 3, B, S) /\ NewLocks(r, 3, S)
             /\ Relies(r, 4, B, S)
             /\ Relies(r, 5, B, S) /\ NewLocks(r, 5, S)
             /\ Relies(r, 6, B, S) /\ NewLocks(r, 6, S)
  BY DEF NewLocks, Relies, Fencing
<1>10. CASE n = 0
  <2>1. g = Stage(TRUE, <<ForUpdate("admin", r.by)>>) /\ n + 1 = 1
    BY <1>10 DEF Cancel
  <2> QED BY <1>10, <2>1, AdminFirst
<1>5. CASE n = 1
  <2> DEFINE P == rounds[t].state = "in_progress" L == RowsOf("annotator", Concerned(t))
  <2>1. g = Stage(P, L) /\ P \in BOOLEAN /\ n + 1 = 2
    BY <1>5 DEF Cancel
  <2>2. Under(B, 0)
    BY <1>2, <1>5, PriorHas
  <2>3. Orderly(r, B, L, 1)
    BY <1>1, <2>2, ConcernedInOrder
  <2> HIDE DEF P, L
  <2> QED BY <1>2, <1>3, <2>1, <2>3, GoesOnTo
<1>6. CASE n = 2
  <2> DEFINE L == Assignment(WorkersOn(t))
  <2>1. g = Stage(TRUE, L) /\ n + 1 = 3
    BY <1>6 DEF Cancel
  <2>2. Under(B, 2)
    BY <1>2, <1>6, PriorHas, UnderMore
  <2>3. Orderly(r, B, L, 3)
    BY <1>1, <2>2, AssignmentsInOrder
  <2> HIDE DEF L
  <2> QED BY <1>2, <1>3, <2>1, <2>3, GoesOnTo
<1>7. CASE n = 3
  <2> DEFINE P == WorkersOn(t) \subseteq {rounds[t].by} L == <<ForUpdate("task", t)>>
  <2>1. g = Stage(P, L) /\ P \in BOOLEAN /\ n + 1 = 4
    BY <1>7 DEF Cancel
  <2>2. Under(B, 3)
    BY <1>2, <1>7, PriorHas
  <2>3. Orderly(r, B, L, 4) /\ LockOn("task", t, "update") \in Locks(L)
    BY <1>1, <2>2, AskTask
  <2> HIDE DEF P, L
  <2>4. NewLocks(r, 4, B \cup Locks(L))
    BY <2>3 DEF NewLocks, Fencing
  <2> QED BY <1>2, <1>3, <2>1, <2>3, <2>4, GoesOnTo
<1>8. CASE n = 4
  <2> DEFINE L == RoundIfOpen(t)
  <2>1. g = Stage(TRUE, L) /\ n + 1 = 5
    BY <1>8 DEF Cancel
  <2>2. Under(B, 4) /\ Updates(B, "task", t)
    BY <1>2, <1>8, PriorHas DEF HasLocks, TakenFrom, Updates, Holds
  <2>3. Orderly(r, B, L, 5)
    BY <1>1, <2>2, RoundInOrder
  <2> HIDE DEF L
  <2> QED BY <1>2, <1>3, <2>1, <2>3, GoesOnTo
<1>9. CASE n = 5
  <2> DEFINE P == rounds[t].state = "in_progress" L == <<ForUpdate("draft", t)>>
  <2>1. g = Stage(P, L) /\ P \in BOOLEAN /\ n + 1 = 6
    BY <1>9 DEF Cancel
  <2>2. Under(B, 5) /\ Updates(B, "task", t)
    BY <1>2, <1>9, PriorHas DEF HasLocks, TakenFrom, Updates, Holds
  <2>3. Orderly(r, B, L, 6)
    BY <1>1, <2>2, TaskDraft DEF Savers
  <2> HIDE DEF P, L
  <2> QED BY <1>2, <1>3, <2>1, <2>3, GoesOnTo
<1> QED BY <1>1, <1>10, <1>5, <1>6, <1>7, <1>8, <1>9

\* A correction by an administrator stays in order.
LEMMA CorrectGoesOn ==
    ASSUME NEW r, NEW n, NEW B, NEW g, Prior(r, n, B), r.does = "correct",
           g = Correct(r.by, r.task, n + 1), g.holds
    PROVE  Steady(r, n + 1, B, g.locks) /\ g.locks \in Seq(Asks)
<1> DEFINE t == r.task
<1>1. n \in {0, 1, 2, 3} /\ t \in Annotators /\ RowsTyped /\ RowsAgree
  BY PriorHas DEF Stages, Prior
<1>2. /\ Tops[r.does][1] = 0 /\ Tops[r.does][2] = 4 /\ Tops[r.does][3] = 6
      /\ Tops[r.does][4] = 6
  BY DEF Tops
<1>3. \A S : /\ Relies(r, 2, B, S)
             /\ Relies(r, 3, B, S) /\ NewLocks(r, 3, S)
             /\ Relies(r, 4, B, S) /\ NewLocks(r, 4, S)
  BY DEF NewLocks, Relies, Fencing
<1>4. CASE n = 0
  <2>1. g = Stage(TRUE, <<ForUpdate("admin", r.by)>>) /\ n + 1 = 1
    BY <1>4 DEF Correct
  <2> QED BY <1>4, <2>1, AdminFirst
<1>5. CASE n = 1
  <2> DEFINE L == <<ForUpdate("task", t)>>
  <2>1. g = Stage(TRUE, L) /\ n + 1 = 2
    BY <1>5 DEF Correct
  <2>2. Under(B, 3)
    BY <1>2, <1>5, PriorHas, UnderMore
  <2>3. Orderly(r, B, L, 4) /\ LockOn("task", t, "update") \in Locks(L)
    BY <1>1, <2>2, AskTask
  <2> HIDE DEF L
  <2>4. NewLocks(r, 2, B \cup Locks(L))
    BY <2>3 DEF NewLocks, Fencing
  <2> QED BY <1>2, <1>3, <2>1, <2>3, <2>4, GoesOnTo
<1>6. CASE n = 2
  <2> DEFINE P == t \in published L == RoundIfOpen(t)
  <2>1. g = Stage(P, L) /\ P \in BOOLEAN /\ n + 1 = 3
    BY <1>6 DEF Correct
  <2>2. Under(B, 4) /\ Updates(B, "task", t)
    BY <1>2, <1>6, PriorHas DEF HasLocks, TakenFrom, Updates, Holds
  <2>3. Orderly(r, B, L, 5)
    BY <1>1, <2>2, RoundInOrder
  <2> HIDE DEF P, L
  <2>4. Orderly(r, B, L, 6)
    BY <2>3, OrderlyMore
  <2> QED BY <1>2, <1>3, <2>1, <2>4, GoesOnTo
<1>7. CASE n = 3
  <2> DEFINE P == ~Open(t) /\ WorkersOn(t) = {} L == <<>>
  <2>1. g = Stage(P, L) /\ P \in BOOLEAN /\ n + 1 = 4
    BY <1>7 DEF Correct
  <2>2. Under(B, 6)
    BY <1>2, <1>7, PriorHas
  <2>3. Orderly(r, B, L, 6)
    BY <2>2, Nothing
  <2> HIDE DEF P, L
  <2> QED BY <1>2, <1>3, <2>1, <2>3, GoesOnTo
<1> QED BY <1>1, <1>4, <1>5, <1>6, <1>7

\* A late result of the preprocessing stays in order.
LEMMA StoreGoesOn ==
    ASSUME NEW r, NEW n, NEW B, NEW g, Prior(r, n, B), r.does = "store",
           g = StorePreprocessed(r.task, n + 1), g.holds
    PROVE  Steady(r, n + 1, B, g.locks) /\ g.locks \in Seq(Asks)
<1> DEFINE t == r.task
<1>1. n \in {0, 1} /\ t \in Annotators
  BY PriorHas DEF Stages, Prior
<1>2. Tops[r.does][1] = 4 /\ Tops[r.does][2] = 6
  BY DEF Tops
<1>3. \A S : Relies(r, 1, B, S) /\ Relies(r, 2, B, S) /\ NewLocks(r, 2, S)
  BY DEF NewLocks, Relies, Fencing
<1>4. CASE n = 0
  <2> DEFINE L == <<ForUpdate("task", t)>>
  <2>1. g = Stage(TRUE, L) /\ n + 1 = 1
    BY <1>4 DEF StorePreprocessed
  <2>2. Under(B, 3)
    BY <1>4, PriorHas, UnderMore
  <2>3. Orderly(r, B, L, 4) /\ LockOn("task", t, "update") \in Locks(L)
    BY <1>1, <2>2, AskTask
  <2> HIDE DEF L
  <2>4. NewLocks(r, 1, B \cup Locks(L))
    BY <2>3 DEF NewLocks, Fencing
  <2> QED BY <1>2, <1>3, <2>1, <2>3, <2>4, GoesOnTo
<1>5. CASE n = 1
  <2> DEFINE L == DraftIfAny(t)
  <2>1. g = Stage(TRUE, L) /\ n + 1 = 2
    BY <1>5 DEF StorePreprocessed
  <2>2. Under(B, 4) /\ Updates(B, "task", t)
    BY <1>2, <1>5, PriorHas DEF HasLocks, TakenFrom, Updates, Holds
  <2>3. Under(B, 5)
    BY <2>2, UnderMore
  <2>4. Orderly(r, B, L, 6)
    BY <1>1, <2>2, <2>3, DraftInOrder DEF Savers
  <2> HIDE DEF L
  <2> QED BY <1>2, <1>3, <2>1, <2>4, GoesOnTo
<1> QED BY <1>1, <1>4, <1>5

-----------------------------------------------------------------------------
(* Whatever it serves, a transaction that goes on stays in order. *)
LEMMA EveryStage ==
    ASSUME NEW r, NEW n, NEW B, Prior(r, n, B), StageOf(r, n + 1).holds
    PROVE  /\ Steady(r, n + 1, B, StageOf(r, n + 1).locks)
           /\ StageOf(r, n + 1).locks \in Seq(Asks)
<1> DEFINE g == StageOf(r, n + 1)
           Known == DOMAIN Stages
           Fine == Steady(r, n + 1, B, g.locks) /\ g.locks \in Seq(Asks)
<1>1. r.does \in Known
  BY PriorHas, RequestTyped, OperationsAreKnown
<1>2. r.does \in {"claim", "abandon", "save_draft", "complete", "reopen", "heartbeat",
                  "login", "release", "cli_release", "scope", "deactivate", "revoke",
                  "decide", "cancel", "correct", "store"}
  BY <1>1 DEF Stages
<1>3. CASE r.does = "claim"
  <2>1. g = Claim(r.of, r.task, n + 1)  BY <1>3 DEF StageOf
  <2> QED BY <1>3, <2>1, ClaimGoesOn
<1>4. CASE r.does = "abandon"
  <2>1. g = Abandon(r.of, n + 1)  BY <1>4 DEF StageOf
  <2> QED BY <1>4, <2>1, AbandonGoesOn
<1>5. CASE r.does = "save_draft"
  <2>1. g = SaveDraft(r.of, n + 1)  BY <1>5 DEF StageOf
  <2> QED BY <1>5, <2>1, SaveDraftGoesOn
<1>6. CASE r.does = "complete"
  <2>1. g = Complete(r.of, n + 1)  BY <1>6 DEF StageOf
  <2> QED BY <1>6, <2>1, CompleteGoesOn
<1>7. CASE r.does = "reopen"
  <2>1. g = Reopen(r.of, n + 1)  BY <1>7 DEF StageOf
  <2> QED BY <1>7, <2>1, ReopenGoesOn
<1>8. CASE r.does = "heartbeat"
  <2>1. g = Heartbeat(r.of, n + 1)  BY <1>8 DEF StageOf
  <2> QED BY <1>8, <2>1, HeartbeatGoesOn
<1>9. CASE r.does = "login"
  <2>1. g = Login(r.of, n + 1)  BY <1>9 DEF StageOf
  <2> QED BY <1>9, <2>1, LoginGoesOn
<1>10. CASE r.does = "release"
  <2>1. g = Release(r.by, r.of, n + 1)  BY <1>10 DEF StageOf
  <2> QED BY <1>10, <2>1, ReleaseGoesOn
<1>11. CASE r.does = "cli_release"
  <2>1. g = CliRelease(r.of, n + 1)  BY <1>11 DEF StageOf
  <2> QED BY <1>11, <2>1, CliReleaseGoesOn
<1>12. CASE r.does = "scope"
  <2>1. g = Scope(r.by, r.of, n + 1)  BY <1>12 DEF StageOf
  <2> QED BY <1>12, <2>1, ScopeGoesOn
<1>13. CASE r.does = "deactivate"
  <2>1. g = DeactivateUser(r.by, r.of, n + 1)  BY <1>13 DEF StageOf
  <2> QED BY <1>13, <2>1, DeactivateGoesOn
<1>14. CASE r.does = "revoke"
  <2>1. g = Revoke(r.by, r.task, n + 1)  BY <1>14 DEF StageOf
  <2> QED BY <1>14, <2>1, RevokeGoesOn
<1>15. CASE r.does = "decide"
  <2>1. g = Decide(r.by, r.task, n + 1)  BY <1>15 DEF StageOf
  <2> QED BY <1>15, <2>1, DecideGoesOn
<1>16. CASE r.does = "cancel"
  <2>1. g = Cancel(r.by, r.task, n + 1)  BY <1>16 DEF StageOf
  <2> QED BY <1>16, <2>1, CancelGoesOn
<1>17. CASE r.does = "correct"
  <2>1. g = Correct(r.by, r.task, n + 1)  BY <1>17 DEF StageOf
  <2> QED BY <1>17, <2>1, CorrectGoesOn
<1>18. CASE r.does = "store"
  <2>1. g = StorePreprocessed(r.task, n + 1)  BY <1>18 DEF StageOf
  <2> QED BY <1>18, <2>1, StoreGoesOn
<1> QED BY <1>2, <1>3, <1>4, <1>5, <1>6, <1>7, <1>8, <1>9, <1>10, <1>11, <1>12,
           <1>13, <1>14, <1>15, <1>16, <1>17, <1>18

-----------------------------------------------------------------------------
(* What the steps do to what is known of the transactions *)

\* What the invariant says of one transaction.
SteadyOf(c) == Unused(c) \/ Steady(doing[c], stage[c], held[c], todo[c])

\* More locks back as much.
LEMMA BackedMore ==
    ASSUME NEW r, NEW B, NEW C, B \subseteq C, NEW l, Backed(r, B, l)
    PROVE  Backed(r, C, l)
BY DEF Backed, Updates, Holds

\* What is known of a transaction stays while no row changes.
LEMMA SteadyStays ==
    ASSUME UNCHANGED rows
    PROVE  \A r, n, B, s : Steady(r, n, B, s) => Steady(r, n, B, s)'
<1> SUFFICES ASSUME NEW r, NEW n, NEW B, NEW s, Steady(r, n, B, s)
             PROVE  Steady(r, n, B, s)'
  OBVIOUS
<1> DEFINE S == B \cup Locks(s)
<1>1. HasLocks(r, n, B, S) => HasLocks(r, n, B, S)'
  BY DEF HasLocks, rows
<1>2. Relies(r, n, B, S) => Relies(r, n, B, S)'
  BY DEF Relies, rows, Claimable, Open, WorkersOn
<1> HIDE DEF S
<1> QED BY <1>1, <1>2 DEF Steady, S

\* Rows that do not change stay as they are.
LEMMA RowsStay ==
    ASSUME UNCHANGED rows, RowsTyped, RowsAgree
    PROVE  RowsTyped' /\ RowsAgree'
BY DEF rows, RowsTyped, RowsAgree, Consistent, Open, WorkersOn, CrossChecks

\* The invariant holds initially.
LEMMA LockInitInv == ASSUME LockInit PROVE LockInv
<1>1. RowsTyped
  <2>2. \A s \in States, b \in Annotators \cup {None} :
            Round(s, b) \in [state : States, by : Annotators \cup {None}]
    BY DEF Round
  <2>3. NoRound \in [state : States, by : Annotators \cup {None}]
    BY DEF NoRound, States
  <2>4. \A t \in Annotators : rounds[t] \in [state : States, by : Annotators \cup {None}]
    <3> SUFFICES ASSUME NEW t \in Annotators
                 PROVE  rounds[t] \in [state : States, by : Annotators \cup {None}]
      OBVIOUS
    <3>1. rounds[t] = NoRound \/ \E s \in {"in_progress", "awaiting_review"}, u \in Annotators :
                                      rounds[t] = Round(s, u)
      BY DEF LockInit
    <3> QED BY <2>2, <2>3, <3>1 DEF States
  <2> QED BY <2>4 DEF LockInit, RowsTyped
<1>2. RowsAgree
  <2>1. ASSUME NEW t \in Annotators, Open(t) PROVE rounds[t].by \in Annotators
    <3>1. rounds[t] = NoRound \/ \E s \in {"in_progress", "awaiting_review"}, u \in Annotators :
                                      rounds[t] = Round(s, u)
      BY DEF LockInit
    <3>2. rounds[t] # NoRound
      BY <2>1, NoneIsNothing DEF Open, NoRound
    <3>3. PICK s \in {"in_progress", "awaiting_review"}, u \in Annotators :
                 rounds[t] = Round(s, u)
      BY <3>1, <3>2
    <3> QED BY <3>3 DEF Round
  <2> QED BY <2>1 DEF LockInit, RowsAgree
<1>3. TransactionsTyped
  BY DEF LockInit, TransactionsTyped, Unused
<1>4. Exclusive /\ \A c \in Transactions : Unused(c)
  BY DEF LockInit, Exclusive, Unused
<1> QED BY <1>1, <1>2, <1>3, <1>4 DEF LockInv

\* A transaction that ends leaves nothing behind.
LEMMA EndedTyped ==
    ASSUME TransactionsTyped, Exclusive, NEW c \in Transactions, Ended(c)
    PROVE  /\ TransactionsTyped' /\ Exclusive' /\ Unused(c)'
           /\ \A d \in Transactions \ {c} :
                 /\ doing'[d] = doing[d] /\ stage'[d] = stage[d]
                 /\ todo'[d] = todo[d] /\ held'[d] = held[d]
<1>1. /\ doing'[c] = None /\ stage'[c] = 0 /\ todo'[c] = <<>> /\ held'[c] = {}
      /\ \A d \in Transactions \ {c} :
            /\ doing'[d] = doing[d] /\ stage'[d] = stage[d]
            /\ todo'[d] = todo[d] /\ held'[d] = held[d]
  BY DEF TransactionsTyped, Ended
<1>2. /\ (doing \in [Transactions -> Requests \cup {None}])'
      /\ (stage \in [Transactions -> Nat])'
      /\ (todo \in [Transactions -> Seq(Asks)])'
      /\ (held \in [Transactions -> SUBSET LockSet])'
  BY DEF TransactionsTyped, Ended
<1>3. \A d \in Transactions :
        /\ Unused(d)' => stage'[d] = 0
        /\ stage'[d] = 0 => todo'[d] = <<>> /\ held'[d] = {}
        /\ ~Unused(d)' => stage'[d] <= Stages[doing'[d].does]
  BY <1>1 DEF TransactionsTyped, Unused
<1>4. Exclusive'
  BY <1>1 DEF Exclusive
<1>5. TransactionsTyped'
  BY <1>2, <1>3 DEF TransactionsTyped
<1> QED BY <1>1, <1>4, <1>5 DEF Unused

\* A request that raises, or that the database ends, keeps the invariant.
LEMMA EndedKeeps ==
    ASSUME LockInv, NEW c \in Transactions, Ended(c), UNCHANGED rows
    PROVE  LockInv'
<1>1. TransactionsTyped' /\ Exclusive' /\ Unused(c)' /\ RowsTyped' /\ RowsAgree'
  BY EndedTyped, RowsStay DEF LockInv
<1>2. ASSUME NEW d \in Transactions \ {c} PROVE SteadyOf(d)'
  <2>1. /\ doing'[d] = doing[d] /\ stage'[d] = stage[d]
        /\ todo'[d] = todo[d] /\ held'[d] = held[d]
    BY EndedTyped DEF LockInv
  <2>2. SteadyOf(d)
    BY DEF LockInv, SteadyOf
  <2> QED BY <2>1, <2>2, SteadyStays DEF SteadyOf, Unused
<1> QED BY <1>1, <1>2 DEF LockInv, SteadyOf

\* A request that begins keeps the invariant.
LEMMA BeginKeeps ==
    ASSUME LockInv, NEW c \in Transactions, Begin(c)
    PROVE  LockInv'
<1>1. UNCHANGED rows /\ stage' = stage /\ todo' = todo /\ held' = held
  BY DEF Begin
<1>2. PICK r \in Requests : doing' = [doing EXCEPT ![c] = r]
  BY DEF Begin
<1>3. stage[c] = 0 /\ todo[c] = <<>> /\ held[c] = {} /\ doing'[c] = r
      /\ \A d \in Transactions \ {c} : doing'[d] = doing[d]
  BY <1>2 DEF Begin, LockInv, TransactionsTyped
<1>4. RowsTyped' /\ RowsAgree'
  BY <1>1, RowsStay DEF LockInv
<1>5. Exclusive'
  BY <1>1 DEF LockInv, Exclusive
<1>6. TransactionsTyped'
  <2>1. (doing \in [Transactions -> Requests \cup {None}])'
    BY <1>2 DEF LockInv, TransactionsTyped
  <2>2. r.does \in DOMAIN Stages
    BY RequestTyped, OperationsAreKnown
  <2>3. stage'[c] <= Stages[doing'[c].does]
    BY <1>1, <1>3, <2>2 DEF Stages
  <2>4. \A d \in Transactions :
           /\ Unused(d)' => stage'[d] = 0
           /\ stage'[d] = 0 => todo'[d] = <<>> /\ held'[d] = {}
           /\ ~Unused(d)' => stage'[d] <= Stages[doing'[d].does]
    BY <1>1, <1>3, <2>3 DEF LockInv, TransactionsTyped, Unused
  <2> QED BY <1>1, <2>1, <2>4 DEF LockInv, TransactionsTyped
<1>7. Steady(r, 0, {}, <<>>)'
  <2>1. \A S : HasLocks(r, 0, {}, S)' /\ Relies(r, 0, {}, S)'
    BY DEF HasLocks, TakenFrom, Relies
  <2>2. InOrder(r, {}, <<>>)
    BY DEF InOrder
  <2> QED BY <2>1, <2>2 DEF Steady
<1>8. ASSUME NEW d \in Transactions PROVE SteadyOf(d)'
  <2>1. CASE d = c
    BY <1>1, <1>3, <1>7, <2>1 DEF SteadyOf
  <2>2. CASE d # c
    BY <1>1, <1>3, <2>2, SteadyStays DEF LockInv, SteadyOf, Unused
  <2> QED BY <2>1, <2>2
<1> QED BY <1>4, <1>5, <1>6, <1>8 DEF LockInv, SteadyOf

\* A request that goes on keeps the invariant.
LEMMA ProceedKeeps ==
    ASSUME LockInv, NEW c \in Transactions, Proceed(c)
    PROVE  LockInv'
<1> DEFINE r == doing[c] n == stage[c] B == held[c] z == StageOf(r, n + 1).locks
<1>1. /\ UNCHANGED rows /\ doing' = doing /\ held' = held
      /\ stage' = [stage EXCEPT ![c] = n + 1] /\ todo' = [todo EXCEPT ![c] = z]
      /\ r # None /\ todo[c] = <<>> /\ n < Stages[r.does]
      /\ StageOf(r, n + 1).holds
  BY DEF Proceed, Ready, Remaining, NextStage, Unused
<1>2. Prior(r, n, B)
  BY <1>1 DEF LockInv, TransactionsTyped, Prior, Unused
<1>3. Steady(r, n + 1, B, z) /\ z \in Seq(Asks)
  BY <1>1, <1>2, EveryStage
<1>4. RowsTyped' /\ RowsAgree'
  BY <1>1, RowsStay DEF LockInv
<1>5. Exclusive'
  BY <1>1 DEF LockInv, Exclusive
<1> HIDE DEF z
<1>9. /\ stage'[c] = n + 1 /\ todo'[c] = z
      /\ \A d \in Transactions \ {c} : stage'[d] = stage[d] /\ todo'[d] = todo[d]
  BY <1>1 DEF LockInv, TransactionsTyped
<1>6. TransactionsTyped'
  <2>0. n \in Nat /\ Stages[r.does] \in Nat
    <3>1. r \in Requests
      BY <1>2, PriorHas
    <3>2. r.does \in DOMAIN Stages
      BY <3>1, RequestTyped, OperationsAreKnown
    <3> QED BY <1>2, <3>2, PriorHas DEF Stages
  <2>1. (stage \in [Transactions -> Nat])' /\ (todo \in [Transactions -> Seq(Asks)])'
    BY <1>1, <1>3 DEF LockInv, TransactionsTyped
  <2>4. \A d \in Transactions :
           /\ Unused(d)' => stage'[d] = 0
           /\ stage'[d] = 0 => todo'[d] = <<>> /\ held'[d] = {}
           /\ ~Unused(d)' => stage'[d] <= Stages[doing'[d].does]
    BY <1>1, <1>9, <2>0 DEF LockInv, TransactionsTyped, Unused
  <2> QED BY <1>1, <2>1, <2>4 DEF LockInv, TransactionsTyped
<1>8. ASSUME NEW d \in Transactions PROVE SteadyOf(d)'
  <2>1. CASE d = c
    BY <1>1, <1>3, <1>9, <2>1, SteadyStays DEF SteadyOf
  <2>2. CASE d # c
    BY <1>1, <1>9, <2>2, SteadyStays DEF LockInv, SteadyOf, Unused
  <2> QED BY <2>1, <2>2
<1> QED BY <1>4, <1>5, <1>6, <1>8 DEF LockInv, SteadyOf

\* A lock that is taken moves from what is asked for to what is held.
LEMMA TakenInOrder ==
    ASSUME NEW r, NEW n, NEW B, NEW s \in Seq(Asks), s # <<>>, Steady(r, n, B, s)
    PROVE  Steady(r, n, B \cup {LockOf(Head(s))}, Tail(s))
<1> DEFINE z == Tail(s) C == B \cup {LockOf(s[1])}
<1>1. /\ Head(s) = s[1] /\ Len(s) \in Nat /\ Len(s) >= 1 /\ Len(z) = Len(s) - 1
      /\ \A i \in 1..(Len(s) - 1) : z[i] = s[i + 1]
  OBVIOUS
<1> HIDE DEF z
<1>2. \A i \in 1..Len(z) : z[i] = s[i + 1] /\ i + 1 \in 1..Len(s)
  BY <1>1
<1>3. Fit(r, B, s[1])
  <2>1. Earlier(s, 1) = {} /\ 1 \in 1..Len(s)
    BY <1>1 DEF Earlier
  <2>2. Fit(r, B \cup Earlier(s, 1), s[1])
    BY <2>1 DEF Steady, InOrder
  <2>3. B \cup Earlier(s, 1) = B
    BY <2>1
  <2> QED BY <2>2, <2>3
<1>4. \A l \in C : Backed(r, C, l)
  <2>1. \A l \in C : Backed(r, B, l)
    BY <1>3 DEF Steady, Fit
  <2>2. B \subseteq C
    OBVIOUS
  <2> HIDE DEF C
  <2> QED BY <2>1, <2>2, BackedMore
<1>5. ASSUME NEW i \in 1..Len(z) PROVE C \cup Earlier(z, i) = B \cup Earlier(s, i + 1)
  <2>1. ASSUME NEW j \in 1..(i - 1) PROVE LockOf(z[j]) \in Earlier(s, i + 1)
    <3>1. j \in 1..Len(z) /\ j + 1 \in 1..((i + 1) - 1)
      BY <1>1
    <3> QED BY <3>1, <1>2 DEF Earlier
  <2>2. ASSUME NEW j \in 1..((i + 1) - 1)
        PROVE LockOf(s[j]) \in {LockOf(s[1])} \cup Earlier(z, i)
    <3>1. CASE j = 1
      BY <3>1
    <3>2. CASE j # 1
      <4>1. j - 1 \in 1..(i - 1) /\ j - 1 \in 1..Len(z) /\ (j - 1) + 1 = j
        BY <3>2, <1>1
      <4>2. z[j - 1] = s[j]
        BY <4>1, <1>2
      <4> QED BY <4>1, <4>2 DEF Earlier
    <3> QED BY <3>1, <3>2
  <2>3. LockOf(s[1]) \in Earlier(s, i + 1)
    <3>1. 1 \in 1..((i + 1) - 1)
      OBVIOUS
    <3> QED BY <3>1 DEF Earlier
  <2>4. Earlier(z, i) \subseteq Earlier(s, i + 1)
    BY <2>1 DEF Earlier
  <2>5. Earlier(s, i + 1) \subseteq {LockOf(s[1])} \cup Earlier(z, i)
    BY <2>2 DEF Earlier
  <2> QED BY <2>3, <2>4, <2>5
<1>6. InOrder(r, C, z)
  <2> SUFFICES ASSUME NEW i \in 1..Len(z) PROVE Fit(r, C \cup Earlier(z, i), z[i])
    BY DEF InOrder
  <2>1. Fit(r, B \cup Earlier(s, i + 1), s[i + 1])
    BY <1>2 DEF Steady, InOrder
  <2>2. z[i] = s[i + 1]
    BY <1>2
  <2> QED BY <1>5, <2>1, <2>2
<1>7. C \cup Locks(z) = B \cup Locks(s)
  <2>1. LockOf(s[1]) \in Locks(s)
    BY <1>1 DEF Locks
  <2>2. Locks(z) \subseteq Locks(s)
    <3> SUFFICES ASSUME NEW j \in 1..Len(z) PROVE LockOf(z[j]) \in Locks(s)
      BY DEF Locks
    <3>1. z[j] = s[j + 1] /\ j + 1 \in 1..Len(s)
      BY <1>2
    <3> QED BY <3>1 DEF Locks
  <2>3. Locks(s) \subseteq {LockOf(s[1])} \cup Locks(z)
    <3> SUFFICES ASSUME NEW j \in 1..Len(s), j # 1 PROVE LockOf(s[j]) \in Locks(z)
      BY DEF Locks
    <3>1. j - 1 \in 1..Len(z) /\ (j - 1) + 1 = j
      BY <1>1
    <3>2. z[j - 1] = s[j]
      BY <3>1, <1>2
    <3> QED BY <3>1, <3>2 DEF Locks
  <2> QED BY <2>1, <2>2, <2>3
<1> DEFINE S == B \cup Locks(s)
<1>8. HasLocks(r, n, C, S) /\ Relies(r, n, C, S)
  <2>1. HasLocks(r, n, B, S) /\ Relies(r, n, B, S) /\ B \subseteq C
    BY DEF Steady
  <2> HIDE DEF S, C
  <2>2. HasLocks(r, n, C, S)
    BY <2>1 DEF HasLocks, TakenFrom
  <2>3. Relies(r, n, C, S)
    BY <2>1 DEF Relies, Updates, Holds
  <2> QED BY <2>2, <2>3
<1>9. n > 0 => Under(C \cup Locks(z), Tops[r.does][n])
  BY <1>7 DEF Steady
<1> HIDE DEF C
<1>10. Steady(r, n, C, z)
  BY <1>4, <1>6, <1>7, <1>8, <1>9 DEF Steady
<1> QED BY <1>1, <1>10 DEF C, z

\* A lock that is taken conflicts with nobody's.
LEMMA AcquireKeeps ==
    ASSUME LockInv, NEW c \in Transactions, Acquire(c)
    PROVE  LockInv'
<1> DEFINE a == Head(todo[c]) l == LockOf(a)
<1>1. /\ UNCHANGED rows /\ doing' = doing /\ stage' = stage
      /\ held' = [held EXCEPT ![c] = @ \cup {l}]
      /\ todo' = [todo EXCEPT ![c] = Tail(@)]
      /\ todo[c] # <<>> /\ Blockers(c) = {}
  BY DEF Acquire, LockOf
<1>2. todo[c] \in Seq(Asks) /\ a \in Asks /\ Tail(todo[c]) \in Seq(Asks) /\ l \in LockSet
  <2>1. todo[c] \in Seq(Asks)
    BY DEF LockInv, TransactionsTyped
  <2>2. a \in Asks /\ Tail(todo[c]) \in Seq(Asks)
    BY <1>1, <2>1
  <2> QED BY <2>1, <2>2 DEF Asks, LockSet, LockOf
<1>3. /\ held'[c] = held[c] \cup {l} /\ todo'[c] = Tail(todo[c])
      /\ \A d \in Transactions \ {c} : held'[d] = held[d] /\ todo'[d] = todo[d]
  BY <1>1 DEF LockInv, TransactionsTyped
<1>4. RowsTyped' /\ RowsAgree'
  BY <1>1, RowsStay DEF LockInv
<1>5. ASSUME NEW d \in Transactions \ {c}, NEW m \in held[d], m.row = l.row
      PROVE  ~Conflicting(m.mode, l.mode)
  BY <1>1, <1>5 DEF Blockers, LockOf
<1>6. \A m, k : Conflicting(m, k) => Conflicting(k, m)
  BY DEF Conflicting
<1>7. Exclusive'
  <2> SUFFICES ASSUME NEW x \in Transactions, NEW y \in Transactions, x # y,
                      NEW p \in held'[x], NEW q \in held'[y], p.row = q.row
               PROVE  ~Conflicting(p.mode, q.mode)
    BY DEF Exclusive
  <2> HIDE DEF l
  <2>1. CASE p \in held[x] /\ q \in held[y]
    BY <2>1 DEF LockInv, Exclusive
  <2>2. CASE x = c /\ p = l
    <3>1. q \in held[y]
      BY <1>3, <2>2
    <3> QED BY <1>5, <1>6, <2>2, <3>1
  <2>3. CASE y = c /\ q = l
    <3>1. p \in held[x]
      BY <1>3, <2>3
    <3> QED BY <1>5, <2>3, <3>1
  <2> QED BY <1>3, <2>1, <2>2, <2>3
<1>8. stage[c] # 0
  BY <1>1 DEF LockInv, TransactionsTyped
<1>9. TransactionsTyped'
  <2>1. (held \in [Transactions -> SUBSET LockSet])' /\ (todo \in [Transactions -> Seq(Asks)])'
    BY <1>1, <1>2 DEF LockInv, TransactionsTyped
  <2>4. \A d \in Transactions :
           /\ Unused(d)' => stage'[d] = 0
           /\ stage'[d] = 0 => todo'[d] = <<>> /\ held'[d] = {}
           /\ ~Unused(d)' => stage'[d] <= Stages[doing'[d].does]
    BY <1>1, <1>3, <1>8 DEF LockInv, TransactionsTyped, Unused
  <2> QED BY <1>1, <2>1, <2>4 DEF LockInv, TransactionsTyped
<1>10. Steady(doing[c], stage[c], held[c], todo[c])
  BY <1>8 DEF LockInv, TransactionsTyped
<1>11. Steady(doing[c], stage[c], held[c] \cup {l}, Tail(todo[c]))
  BY <1>1, <1>2, <1>10, TakenInOrder
<1> HIDE DEF l
<1>12. ASSUME NEW d \in Transactions PROVE SteadyOf(d)'
  <2>1. CASE d = c
    BY <1>1, <1>3, <1>11, <2>1, SteadyStays DEF SteadyOf
  <2>2. CASE d # c
    BY <1>1, <1>3, <2>2, SteadyStays DEF LockInv, SteadyOf, Unused
  <2> QED BY <2>1, <2>2
<1> QED BY <1>4, <1>7, <1>9, <1>12 DEF LockInv, SteadyOf

-----------------------------------------------------------------------------
(* What a request writes keeps work and rounds together *)

\* The work A, the rounds R and the results P agree.
RoundStates == [state : States, by : Annotators \cup {None}]
IsOpen(R, t) == R[t].state \in {"in_progress", "awaiting_review"}

Agree(A, R, P) ==
    /\ A \in [Annotators -> Annotators \cup {None}]
    /\ R \in [Annotators -> RoundStates]
    /\ \A v, w \in Annotators : A[v] # None /\ A[w] = A[v] => v = w
    /\ \A v \in Annotators : A[v] \notin {None, v} =>
          R[A[v]].state = "in_progress" /\ R[A[v]].by = v
    /\ \A t \in Annotators : R[t].state = "in_progress" =>
          R[t].by \in Annotators /\ A[R[t].by] = t
    /\ \A t \in Annotators : R[t].by # t
    /\ \A v \in Annotators : A[v] = v => ~IsOpen(R, v)
    /\ \A t \in Annotators : IsOpen(R, t) => t \in P /\ R[t].by \in Annotators

\* What is known of the rows, element by element.
LEMMA AgreeFrom ==
    ASSUME RowsTyped, RowsAgree
    PROVE  Agree(assigned, rounds, published)
<1>1. ASSUME NEW v \in Annotators, NEW w \in Annotators, assigned[v] # None,
             assigned[w] = assigned[v]
      PROVE  v = w
  <2>1. WorkersOn(assigned[v]) = {v}
    BY <1>1 DEF RowsAgree, Consistent
  <2>2. w \in WorkersOn(assigned[v])
    BY <1>1 DEF WorkersOn
  <2> QED BY <2>1, <2>2
<1>2. ASSUME NEW v \in Annotators, assigned[v] \notin {None, v}
      PROVE  rounds[assigned[v]].state = "in_progress" /\ rounds[assigned[v]].by = v
  <2>1. rounds[assigned[v]] = Round("in_progress", v)
    BY <1>2 DEF RowsAgree, Consistent, CrossChecks
  <2> QED BY <2>1 DEF Round
<1>3. ASSUME NEW t \in Annotators, rounds[t].state = "in_progress"
      PROVE  rounds[t].by \in Annotators /\ assigned[rounds[t].by] = t
  <2>1. WorkersOn(t) = {rounds[t].by}
    BY <1>3 DEF RowsAgree, Consistent
  <2>2. rounds[t].by \in WorkersOn(t)
    BY <2>1
  <2> QED BY <2>2 DEF WorkersOn
<1>4. /\ \A t \in Annotators : rounds[t].by # t
      /\ \A v \in Annotators : assigned[v] = v => ~IsOpen(rounds, v)
      /\ \A t \in Annotators : IsOpen(rounds, t) => t \in published /\ rounds[t].by \in Annotators
  BY DEF RowsAgree, Consistent, Open, IsOpen
<1>5. /\ assigned \in [Annotators -> Annotators \cup {None}]
      /\ rounds \in [Annotators -> RoundStates]
  BY DEF RowsTyped, RoundStates
<1> QED BY <1>1, <1>2, <1>3, <1>4, <1>5 DEF Agree

\* A round is its state and its annotator.
LEMMA RoundOf ==
    ASSUME NEW x \in RoundStates
    PROVE  x = Round(x.state, x.by)
BY DEF RoundStates, Round

\* And back, after a step.
LEMMA AgreeTo ==
    ASSUME Agree(assigned', rounds', published')
    PROVE  RowsTyped' /\ RowsAgree'
<1> DEFINE A == assigned' R == rounds' P == published'
<1>1. RowsTyped'
  BY DEF Agree, RowsTyped, RoundStates
<1>2. ASSUME NEW v \in Annotators, A[v] # None
      PROVE  {u \in Annotators : A[u] = A[v]} = {v}
  BY <1>2 DEF Agree
<1>3. ASSUME NEW v \in Annotators, A[v] \notin {None, v}
      PROVE  R[A[v]] = Round("in_progress", v)
  <2>1. R[A[v]] \in RoundStates /\ R[A[v]].state = "in_progress" /\ R[A[v]].by = v
    BY <1>3 DEF Agree
  <2> HIDE DEF A, R
  <2> QED BY <2>1, RoundOf
<1>4. ASSUME NEW t \in Annotators, R[t].state = "in_progress"
      PROVE  {u \in Annotators : A[u] = t} = {R[t].by}
  <2>1. R[t].by \in Annotators /\ A[R[t].by] = t
    BY <1>4 DEF Agree
  <2>2. \A u \in Annotators : A[u] = t => u = R[t].by
    BY <2>1, NoneIsNothing DEF Agree
  <2> QED BY <2>1, <2>2
<1>5. Consistent'
  BY <1>2, <1>3, <1>4 DEF Consistent, WorkersOn, CrossChecks, Agree
<1>6. /\ \A t \in Annotators : (assigned[t] = t => ~Open(t))'
      /\ \A t \in Annotators : (Open(t) => t \in published /\ rounds[t].by \in Annotators)'
  BY DEF Agree, Open, IsOpen
<1> QED BY <1>1, <1>5, <1>6 DEF RowsAgree

\* Annotators are freed and the rounds they worked on closed.
LEMMA FreedAndClosed ==
    ASSUME NEW A, NEW R, NEW P, Agree(A, R, P), NEW F, NEW K, NEW A2, NEW R2, NEW P2,
           A2 = [v \in Annotators |-> IF v \in F THEN None ELSE A[v]],
           R2 = [t \in Annotators |-> IF t \in K /\ IsOpen(R, t) THEN Round("closed", None)
                                      ELSE R[t]],
           \A v \in Annotators : v \notin F /\ A[v] \in K => A[v] = None \/ ~IsOpen(R, A[v]),
           \A v \in Annotators : v \in F /\ A[v] \notin {None, v} => A[v] \in K,
           P2 \subseteq P, \A t \in Annotators : t \in P /\ t \notin P2 => t \in K
    PROVE  Agree(A2, R2, P2)
<1> DEFINE Closed == Round("closed", None)
<1>1. Closed \in RoundStates /\ Closed.state = "closed" /\ Closed.by = None
  BY DEF Round, RoundStates, States
<1> HIDE DEF Closed
<1>2. /\ A2 \in [Annotators -> Annotators \cup {None}] /\ R2 \in [Annotators -> RoundStates]
      /\ \A v \in Annotators : A2[v] = IF v \in F THEN None ELSE A[v]
      /\ \A t \in Annotators : R2[t] = IF t \in K /\ IsOpen(R, t) THEN Closed ELSE R[t]
  BY <1>1 DEF Agree, Closed
<1>3. \A v, w \in Annotators : A2[v] # None /\ A2[w] = A2[v] => v = w
  BY <1>2 DEF Agree
<1>4. ASSUME NEW v \in Annotators, A2[v] \notin {None, v}
      PROVE  R2[A2[v]].state = "in_progress" /\ R2[A2[v]].by = v
  <2>1. v \notin F /\ A2[v] = A[v] /\ A[v] \in Annotators
    BY <1>2, <1>4
  <2>2. R2[A[v]] = R[A[v]]
    BY <1>2, <1>4, <2>1
  <2> QED BY <1>4, <2>1, <2>2 DEF Agree
<1>5. ASSUME NEW t \in Annotators, R2[t].state = "in_progress"
      PROVE  R2[t].by \in Annotators /\ A2[R2[t].by] = t
  <2>1. R2[t] = R[t] /\ ~ (t \in K /\ IsOpen(R, t))
    BY <1>1, <1>2, <1>5
  <2>2. R[t].by \in Annotators /\ A[R[t].by] = t /\ R[t].by # t /\ IsOpen(R, t)
    BY <1>5, <2>1 DEF Agree, IsOpen
  <2>3. R[t].by \notin F
    BY <2>1, <2>2, NoneIsNothing
  <2> QED BY <1>2, <2>1, <2>2, <2>3
<1>6. \A t \in Annotators : R2[t].by # t
  BY <1>1, <1>2, NoneIsNothing DEF Agree
<1>7. \A t \in Annotators : IsOpen(R2, t) => R2[t] = R[t] /\ IsOpen(R, t) /\ t \notin K
  BY <1>1, <1>2 DEF IsOpen
<1>8. \A v \in Annotators : A2[v] = v => ~IsOpen(R2, v)
  BY <1>2, <1>7, NoneIsNothing DEF Agree
<1>9. \A t \in Annotators : IsOpen(R2, t) => t \in P2 /\ R2[t].by \in Annotators
  BY <1>7 DEF Agree
<1> QED BY <1>2, <1>3, <1>4, <1>5, <1>6, <1>8, <1>9 DEF Agree

\* An annotator completes the work at hand.
LEMMA Completed ==
    ASSUME NEW A, NEW R, NEW P, Agree(A, R, P), NEW u \in Annotators, NEW A2, NEW R2,
           A2 = [v \in Annotators |-> IF v = u THEN None ELSE A[v]],
           R2 = [t \in Annotators |-> IF A[u] \notin {None, u} /\ t = A[u]
                                      THEN Round("awaiting_review", u) ELSE R[t]]
    PROVE  Agree(A2, R2, P)
<1> DEFINE W == Round("awaiting_review", u)
<1>1. W \in RoundStates /\ W.state = "awaiting_review" /\ W.by = u
  BY DEF Round, RoundStates, States
<1> HIDE DEF W
<1>2. /\ A2 \in [Annotators -> Annotators \cup {None}] /\ R2 \in [Annotators -> RoundStates]
      /\ \A v \in Annotators : A2[v] = IF v = u THEN None ELSE A[v]
      /\ \A t \in Annotators : R2[t] = IF A[u] \notin {None, u} /\ t = A[u] THEN W ELSE R[t]
  BY <1>1 DEF Agree, W
<1>3. \A v, w \in Annotators : A2[v] # None /\ A2[w] = A2[v] => v = w
  BY <1>2 DEF Agree
<1>4. ASSUME NEW v \in Annotators, A2[v] \notin {None, v}
      PROVE  R2[A2[v]].state = "in_progress" /\ R2[A2[v]].by = v
  <2>1. v # u /\ A2[v] = A[v] /\ A[v] \in Annotators
    BY <1>2, <1>4
  <2>2. A[v] # A[u]
    BY <1>4, <2>1 DEF Agree
  <2>3. R2[A[v]] = R[A[v]]
    BY <1>2, <2>1, <2>2
  <2> QED BY <1>4, <2>1, <2>3 DEF Agree
<1>5. ASSUME NEW t \in Annotators, R2[t].state = "in_progress"
      PROVE  R2[t].by \in Annotators /\ A2[R2[t].by] = t
  <2>1. R2[t] = R[t] /\ ~ (A[u] \notin {None, u} /\ t = A[u])
    BY <1>1, <1>2, <1>5
  <2>2. R[t].by \in Annotators /\ A[R[t].by] = t /\ R[t].by # t
    BY <1>5, <2>1 DEF Agree
  <2>3. R[t].by # u
    BY <2>1, <2>2, NoneIsNothing
  <2> QED BY <1>2, <2>1, <2>2, <2>3
<1>6. \A t \in Annotators : R2[t].by # t
  BY <1>1, <1>2 DEF Agree
<1>7. \A t \in Annotators : IsOpen(R2, t) => IsOpen(R, t) /\ (R2[t] = R[t] \/ R2[t].by = u)
  BY <1>1, <1>2 DEF IsOpen, Agree
<1>8. \A v \in Annotators : A2[v] = v => ~IsOpen(R2, v)
  BY <1>2, <1>7, NoneIsNothing DEF Agree
<1>9. \A t \in Annotators : IsOpen(R2, t) => t \in P /\ R2[t].by \in Annotators
  BY <1>7 DEF Agree
<1> QED BY <1>2, <1>3, <1>4, <1>5, <1>6, <1>8, <1>9 DEF Agree

\* An annotator claims a task nobody works on.
LEMMA ClaimedRows ==
    ASSUME NEW A, NEW R, NEW P, Agree(A, R, P), NEW u \in Annotators, NEW t \in Annotators,
           NEW A2, NEW R2,
           A2 = [v \in Annotators |-> IF v = u THEN t ELSE A[v]],
           R2 = [x \in Annotators |-> IF x = t THEN Round("in_progress", u) ELSE R[x]],
           t # u, t \in P, A[u] = None, ~IsOpen(R, t), \A v \in Annotators : A[v] # t
    PROVE  Agree(A2, R2, P)
<1> DEFINE W == Round("in_progress", u)
<1>1. W \in RoundStates /\ W.state = "in_progress" /\ W.by = u
  BY DEF Round, RoundStates, States
<1> HIDE DEF W
<1>2. /\ A2 \in [Annotators -> Annotators \cup {None}] /\ R2 \in [Annotators -> RoundStates]
      /\ \A v \in Annotators : A2[v] = IF v = u THEN t ELSE A[v]
      /\ \A x \in Annotators : R2[x] = IF x = t THEN W ELSE R[x]
  BY <1>1 DEF Agree, W
<1>3. \A v, w \in Annotators : A2[v] # None /\ A2[w] = A2[v] => v = w
  BY <1>2 DEF Agree
<1>4. ASSUME NEW v \in Annotators, A2[v] \notin {None, v}
      PROVE  R2[A2[v]].state = "in_progress" /\ R2[A2[v]].by = v
  <2>1. CASE v = u
    BY <1>1, <1>2, <2>1
  <2>2. CASE v # u
    <3>1. A2[v] = A[v] /\ A[v] # t /\ A[v] \in Annotators
      BY <1>2, <1>4, <2>2
    <3> QED BY <1>2, <1>4, <3>1 DEF Agree
  <2> QED BY <2>1, <2>2
<1>5. ASSUME NEW x \in Annotators, R2[x].state = "in_progress"
      PROVE  R2[x].by \in Annotators /\ A2[R2[x].by] = x
  <2>1. CASE x = t
    BY <1>1, <1>2, <2>1
  <2>2. CASE x # t
    <3>1. R2[x] = R[x] /\ R[x].by \in Annotators /\ A[R[x].by] = x
      BY <1>2, <1>5, <2>2 DEF Agree
    <3>2. R[x].by # u
      BY <3>1, NoneIsNothing
    <3> QED BY <1>2, <3>1, <3>2
  <2> QED BY <2>1, <2>2
<1>6. \A x \in Annotators : R2[x].by # x
  BY <1>1, <1>2 DEF Agree
<1>7. \A x \in Annotators : IsOpen(R2, x) => x = t \/ (IsOpen(R, x) /\ R2[x] = R[x])
  BY <1>1, <1>2 DEF IsOpen
<1>8. \A v \in Annotators : A2[v] = v => ~IsOpen(R2, v)
  BY <1>2, <1>7 DEF Agree
<1>9. \A x \in Annotators : IsOpen(R2, x) => x \in P /\ R2[x].by \in Annotators
  BY <1>1, <1>2, <1>7 DEF Agree
<1> QED BY <1>2, <1>3, <1>4, <1>5, <1>6, <1>8, <1>9 DEF Agree

\* An annotator reopens a result nobody works on.
LEMMA ReopenedRows ==
    ASSUME NEW A, NEW R, NEW P, Agree(A, R, P), NEW u \in Annotators, NEW A2,
           A2 = [v \in Annotators |-> IF v = u THEN u ELSE A[v]],
           A[u] = None, ~IsOpen(R, u), \A v \in Annotators : A[v] # u
    PROVE  Agree(A2, R, P)
<1>2. /\ A2 \in [Annotators -> Annotators \cup {None}]
      /\ \A v \in Annotators : A2[v] = IF v = u THEN u ELSE A[v]
  BY DEF Agree
<1>3. \A v, w \in Annotators : A2[v] # None /\ A2[w] = A2[v] => v = w
  BY <1>2 DEF Agree
<1>4. \A v \in Annotators : A2[v] \notin {None, v} =>
          R[A2[v]].state = "in_progress" /\ R[A2[v]].by = v
  BY <1>2 DEF Agree
<1>5. ASSUME NEW t \in Annotators, R[t].state = "in_progress"
      PROVE  R[t].by \in Annotators /\ A2[R[t].by] = t
  <2>1. R[t].by \in Annotators /\ A[R[t].by] = t
    BY <1>5 DEF Agree
  <2> QED BY <1>2, <2>1, NoneIsNothing
<1>8. \A v \in Annotators : A2[v] = v => ~IsOpen(R, v)
  BY <1>2 DEF Agree
<1> QED BY <1>2, <1>3, <1>4, <1>5, <1>8 DEF Agree

\* What a transaction that holds the locks B may do to the rows.
Effect(B, A, R, P, A2, R2, P2) ==
    /\ P2 \subseteq P
    /\ \A t \in Annotators : t \in P /\ t \notin P2 => Updates(B, "task", t)
    /\ \A v \in Annotators : A2[v] # A[v] =>
          \/ A2[v] = None
          \/ Holds(B, "annotator", v, "no_key_update") /\ Updates(B, "task", A2[v])
    /\ \A t \in Annotators : R2[t] # R[t] =>
          \/ IsOpen(R, t) /\ R2[t].state \in {"awaiting_review", "closed"}
          \/ R[t] = NoRound /\ Updates(B, "task", t)

\* What a transaction that commits has and relies on.
LEMMA AtCommit ==
    ASSUME LockInv, NEW c \in Transactions, CommitRows(c)
    PROVE  /\ doing[c] \in Requests /\ doing[c].of \in Annotators
           /\ doing[c].task \in Annotators
           /\ doing[c].does # "claim" => doing[c].task = doing[c].of
           /\ doing[c].does \in DOMAIN Stages
           /\ HasLocks(doing[c], Stages[doing[c].does], held[c], held[c])
           /\ Relies(doing[c], Stages[doing[c].does], held[c], held[c])
           /\ Written(doing[c]) /\ Ended(c)
           /\ Agree(assigned, rounds, published)
<1>1. /\ todo[c] = <<>> /\ doing[c] # None /\ ~ (stage[c] < Stages[doing[c].does])
      /\ Written(doing[c]) /\ Ended(c)
  BY DEF CommitRows, Ready, Remaining, Unused
<1>2. doing[c] \in Requests /\ stage[c] \in Nat /\ stage[c] <= Stages[doing[c].does]
  BY <1>1 DEF LockInv, TransactionsTyped, Unused
<1>3. doing[c].does \in DOMAIN Stages
  BY <1>2, RequestTyped, OperationsAreKnown
<1>4. stage[c] = Stages[doing[c].does]
  BY <1>1, <1>2, <1>3 DEF Stages
<1>5. Steady(doing[c], stage[c], held[c], <<>>)
  BY <1>1 DEF LockInv, Unused
<1>6. held[c] \cup Locks(<<>>) = held[c]
  BY Nothing
<1>7. /\ HasLocks(doing[c], stage[c], held[c], held[c])
      /\ Relies(doing[c], stage[c], held[c], held[c])
  BY <1>5, <1>6 DEF Steady
<1>8. Agree(assigned, rounds, published)
  BY AgreeFrom DEF LockInv
<1> QED BY <1>1, <1>2, <1>3, <1>4, <1>7, <1>8, RequestTyped

\* Requests that free annotators and close rounds, or write nothing here.
LEMMA FreeingWritten ==
    ASSUME NEW r, r.does \notin {"claim", "reopen", "complete"}, Written(r)
    PROVE  /\ assigned' = [v \in Annotators |-> IF v \in Freed(r) THEN None ELSE assigned[v]]
           /\ rounds' = [t \in Annotators |->
                 IF t \in ClosedRounds(r) /\ IsOpen(rounds, t) THEN Round("closed", None)
                 ELSE rounds[t]]
<1>1. Taken(r) = None
  BY DEF Taken
<1> QED BY <1>1 DEF Written, IsOpen, Open

\* Freeing and closing touch what is locked or was open.
LEMMA FreeingEffect ==
    ASSUME NEW A, NEW R, NEW P, Agree(A, R, P), NEW F, NEW K, NEW A2, NEW R2, NEW P2, NEW B,
           A2 = [v \in Annotators |-> IF v \in F THEN None ELSE A[v]],
           R2 = [t \in Annotators |-> IF t \in K /\ IsOpen(R, t) THEN Round("closed", None)
                                      ELSE R[t]],
           P2 \subseteq P,
           \A t \in Annotators : t \in P /\ t \notin P2 => Updates(B, "task", t)
    PROVE  Effect(B, A, R, P, A2, R2, P2)
<1>1. \A v \in Annotators : A2[v] # A[v] => A2[v] = None
  OBVIOUS
<1>2. \A t \in Annotators : R2[t] # R[t] => IsOpen(R, t) /\ R2[t].state \in {"awaiting_review", "closed"}
  BY DEF Round
<1> QED BY <1>1, <1>2 DEF Effect

\* Requests that free and close keep work and rounds together.
LEMMA FreeingAgrees ==
    ASSUME LockInv, NEW c \in Transactions, CommitRows(c),
           doing[c].does \notin {"claim", "reopen", "complete"}
    PROVE  /\ Agree(assigned', rounds', published')
           /\ Effect(held[c], assigned, rounds, published, assigned', rounds', published')
<1> DEFINE r == doing[c] u == r.of t == r.task B == held[c] N == Stages[r.does]
           F == Freed(r) K == ClosedRounds(r)
           A == assigned R == rounds P == published
           A2 == assigned' R2 == rounds' P2 == published'
<1>1. /\ u \in Annotators /\ t = u /\ Written(r) /\ Agree(A, R, P)
      /\ HasLocks(r, N, B, B) /\ Relies(r, N, B, B) /\ r.does \in DOMAIN Stages
  BY AtCommit
<1>2. /\ A2 = [v \in Annotators |-> IF v \in F THEN None ELSE A[v]]
      /\ R2 = [x \in Annotators |-> IF x \in K /\ IsOpen(R, x) THEN Round("closed", None)
                                    ELSE R[x]]
  BY <1>1, FreeingWritten
<1>3. P2 = IF r.does \in {"deactivate", "revoke"} THEN P \ {u} ELSE P
  BY <1>1 DEF Written
<1>4. \A x \in Annotators : x \in P /\ x \notin P2 => x \in K /\ Updates(B, "task", x)
  <2> SUFFICES ASSUME NEW x \in Annotators, x \in P, x \notin P2
               PROVE  x \in K /\ Updates(B, "task", x)
    OBVIOUS
  <2>1. x = u /\ r.does \in {"deactivate", "revoke"}
    BY <1>3
  <2>2. x \in K
    BY <1>1, <2>1 DEF ClosedRounds
  <2>3. CASE r.does = "deactivate"
    <3>1. N = 6
      BY <2>3 DEF Stages
    <3>2. LockOn("task", u, "update") \in B
      BY <1>1, <2>1, <2>3, <3>1 DEF HasLocks, TakenFrom
    <3> QED BY <2>1, <2>2, <3>2 DEF Updates, Holds
  <2>4. CASE r.does = "revoke"
    <3>1. N = 5
      BY <2>4 DEF Stages
    <3>2. LockOn("task", u, "update") \in B
      BY <1>1, <2>1, <2>4, <3>1 DEF HasLocks, TakenFrom
    <3> QED BY <2>1, <2>2, <3>2 DEF Updates, Holds
  <2> QED BY <2>1, <2>3, <2>4
<1>5. \A v \in Annotators : v \notin F /\ A[v] \in K => A[v] = None \/ ~IsOpen(R, A[v])
  <2> SUFFICES ASSUME NEW v \in Annotators, v \notin F, A[v] \in K, A[v] # None, IsOpen(R, A[v])
               PROVE  FALSE
    OBVIOUS
  <2>1. /\ A[v] \in Annotators /\ A[v] # v /\ A[v] \in P
        /\ R[A[v]].state = "in_progress"
        /\ \A w \in Annotators : A[w] = A[v] => v = w
    BY <1>1 DEF Agree
  <2>2. CASE r.does \in {"abandon", "release", "cli_release"}
    <3>1. F = {u} /\ A[v] = A[u]
      BY <2>2 DEF Freed, ClosedRounds
    <3> QED BY <1>1, <2>1, <3>1
  <2>3. CASE r.does = "deactivate"
    <3>1. F = {u} /\ (A[v] = A[u] \/ A[v] = u)
      BY <1>1, <2>3 DEF Freed, ClosedRounds
    <3>2. A[v] = u
      BY <1>1, <2>1, <3>1
    <3>3. WorkersOn(u) \subseteq {u}
      <4>1. N = 6
        BY <2>3 DEF Stages
      <4> QED BY <1>1, <2>1, <2>3, <3>2, <4>1 DEF Relies
    <3> QED BY <2>1, <3>1, <3>2, <3>3 DEF WorkersOn
  <2>4. CASE r.does \in {"revoke", "cancel"}
    <3>1. F = WorkersOn(u) /\ A[v] = u
      BY <1>1, <2>4 DEF Freed, ClosedRounds
    <3> QED BY <3>1 DEF WorkersOn
  <2>5. CASE r.does = "decide"
    <3>1. A[v] = u
      BY <1>1, <2>5 DEF ClosedRounds
    <3>2. N = 6
      BY <2>5 DEF Stages
    <3>3. R[u].state \in {"awaiting_review", "closed"}
      BY <1>1, <2>5, <3>2 DEF Relies
    <3> QED BY <2>1, <3>1, <3>3
  <2>6. CASE r.does \notin {"abandon", "release", "cli_release", "deactivate", "revoke",
                            "cancel", "decide"}
    <3>1. K = {}
      BY <2>6 DEF ClosedRounds
    <3> QED BY <3>1
  <2> QED BY <2>2, <2>3, <2>4, <2>5, <2>6
<1>6. \A v \in Annotators : v \in F /\ A[v] \notin {None, v} => A[v] \in K
  <2> SUFFICES ASSUME NEW v \in Annotators, v \in F, A[v] \notin {None, v}
               PROVE  A[v] \in K
    OBVIOUS
  <2>1. CASE r.does \in {"abandon", "release", "cli_release", "deactivate"}
    <3>1. F = {u}
      BY <2>1 DEF Freed
    <3> QED BY <2>1, <3>1 DEF ClosedRounds, CrossChecks
  <2>2. CASE r.does \in {"revoke", "cancel"}
    <3>1. F = WorkersOn(u)
      BY <1>1, <2>2 DEF Freed
    <3> QED BY <1>1, <2>2, <3>1 DEF ClosedRounds, WorkersOn
  <2>3. CASE r.does \notin {"abandon", "release", "cli_release", "deactivate", "revoke", "cancel"}
    <3>1. F = {}
      BY <2>3 DEF Freed
    <3> QED BY <3>1
  <2> QED BY <2>1, <2>2, <2>3
<1>7. P2 \subseteq P
  BY <1>3
<1>8. Agree(A, R, P)
  BY <1>1
<1> HIDE DEF A, R, P, A2, R2, P2, F, K, B
<1>9. Agree(A2, R2, P2)
  BY <1>8, <1>2, <1>4, <1>5, <1>6, <1>7, FreedAndClosed
<1>10. Effect(B, A, R, P, A2, R2, P2)
  BY <1>8, <1>2, <1>4, <1>7, FreeingEffect
<1> QED BY <1>9, <1>10 DEF A, R, P, A2, R2, P2, B

\* So do claims, reopenings and completions.
LEMMA OtherAgrees ==
    ASSUME LockInv, NEW c \in Transactions, CommitRows(c),
           doing[c].does \in {"claim", "reopen", "complete"}
    PROVE  /\ Agree(assigned', rounds', published')
           /\ Effect(held[c], assigned, rounds, published, assigned', rounds', published')
<1> DEFINE r == doing[c] u == r.of t == r.task B == held[c] N == Stages[r.does]
           A == assigned R == rounds P == published
           A2 == assigned' R2 == rounds' P2 == published'
<1>1. /\ u \in Annotators /\ t \in Annotators /\ Written(r) /\ Agree(A, R, P)
      /\ HasLocks(r, N, B, B) /\ Relies(r, N, B, B) /\ r.does \in DOMAIN Stages
      /\ u # None /\ t # None
  BY AtCommit, NoneIsNothing
<1>2. P2 = P
  BY <1>1 DEF Written
<1>3. CASE r.does = "claim"
  <2>1. N = 3
    BY <1>3 DEF Stages
  <2>2. Claimable(u, t)
    BY <1>1, <1>3, <2>1 DEF Relies
  <2>3. t # u /\ t \in P /\ R[t] = NoRound /\ A[u] = None /\ \A v \in Annotators : A[v] # t
    BY <2>2 DEF Claimable, WorkersOn
  <2>4. ~IsOpen(R, t)
    BY <2>3, NoneIsNothing DEF IsOpen, NoRound
  <2>5. Updates(B, "task", t) /\ Holds(B, "annotator", u, "no_key_update")
    BY <1>1, <1>3, <2>1 DEF HasLocks, TakenFrom, Updates, Holds, Fencing
  <2>6. Freed(r) = {} /\ ClosedRounds(r) = {} /\ Taken(r) = t
    BY <1>3 DEF Freed, ClosedRounds, Taken
  <2>7. A2 = [v \in Annotators |-> IF v = u THEN t ELSE A[v]]
    BY <1>1, <2>6 DEF Written
  <2>8. R2 = [x \in Annotators |-> IF x = t THEN Round("in_progress", u) ELSE R[x]]
    BY <1>1, <1>3, <2>6 DEF Written
  <2>9. Agree(A, R, P)
    BY <1>1
  <2> HIDE DEF A, R, P, A2, R2, P2, B
  <2>10. Agree(A2, R2, P)
    BY <1>1, <2>3, <2>4, <2>7, <2>8, <2>9, ClaimedRows
  <2>11. Effect(B, A, R, P, A2, R2, P)
    BY <2>3, <2>5, <2>7, <2>8 DEF Effect
  <2> QED BY <1>2, <2>10, <2>11 DEF A, R, P, A2, R2, P2, B
<1>4. CASE r.does = "reopen"
  <2>1. N = 5
    BY <1>4 DEF Stages
  <2>3. ~IsOpen(R, u) /\ A[u] = None /\ \A v \in Annotators : A[v] # u
    BY <1>1, <1>4, <2>1 DEF Relies, WorkersOn, Open, IsOpen
  <2>5. Updates(B, "task", u) /\ Holds(B, "annotator", u, "no_key_update")
    BY <1>1, <1>4, <2>1 DEF HasLocks, TakenFrom, Updates, Holds, Fencing
  <2>6. Freed(r) = {} /\ ClosedRounds(r) = {} /\ Taken(r) = u
    BY <1>4 DEF Freed, ClosedRounds, Taken
  <2>7. A2 = [v \in Annotators |-> IF v = u THEN u ELSE A[v]]
    BY <1>1, <2>6 DEF Written
  <2>8. R2 = R
    <3>1. R2 = [x \in Annotators |-> R[x]]
      BY <1>1, <1>4, <2>6 DEF Written
    <3> QED BY <1>1, <3>1 DEF Agree
  <2>9. Agree(A, R, P)
    BY <1>1
  <2> HIDE DEF A, R, P, A2, R2, P2, B
  <2>10. Agree(A2, R, P)
    BY <1>1, <2>3, <2>7, <2>9, ReopenedRows
  <2>11. Effect(B, A, R, P, A2, R, P)
    BY <2>3, <2>5, <2>7 DEF Effect
  <2> QED BY <1>2, <2>8, <2>10, <2>11 DEF A, R, P, A2, R2, P2, B
<1>5. CASE r.does = "complete"
  <2>6. Freed(r) = {u} /\ ClosedRounds(r) = {} /\ Taken(r) = None
    BY <1>5 DEF Freed, ClosedRounds, Taken
  <2>7. A2 = [v \in Annotators |-> IF v = u THEN None ELSE A[v]]
    BY <1>1, <2>6 DEF Written
  <2>8. R2 = [x \in Annotators |-> IF A[u] \notin {None, u} /\ x = A[u]
                                  THEN Round("awaiting_review", u) ELSE R[x]]
    BY <1>1, <1>5, <2>6 DEF Written, CrossChecks
  <2>9. Agree(A, R, P)
    BY <1>1
  <2> HIDE DEF A, R, P, A2, R2, P2, B
  <2>10. Agree(A2, R2, P)
    BY <1>1, <2>7, <2>8, <2>9, Completed
  <2>11. Effect(B, A, R, P, A2, R2, P)
    <3>1. \A v \in Annotators : A2[v] # A[v] => A2[v] = None
      BY <2>7
    <3>2. ASSUME NEW x \in Annotators, R2[x] # R[x]
          PROVE  IsOpen(R, x) /\ R2[x].state \in {"awaiting_review", "closed"}
      <4>1. A[u] \notin {None, u} /\ x = A[u] /\ R2[x] = Round("awaiting_review", u)
        BY <2>8, <3>2
      <4>2. R[x].state = "in_progress"
        BY <1>1, <2>9, <4>1 DEF Agree
      <4> QED BY <4>1, <4>2 DEF IsOpen, Round
    <3> QED BY <3>1, <3>2 DEF Effect
  <2> QED BY <1>2, <2>10, <2>11 DEF A, R, P, A2, R2, P2, B
<1> QED BY <1>3, <1>4, <1>5

\* What another transaction relies on stays as long as it holds its locks.
LEMMA OthersRely ==
    ASSUME NEW r, NEW n \in Nat, NEW C, NEW S, NEW B, r \in Requests, C \subseteq S,
           HasLocks(r, n, C, S), Relies(r, n, C, S),
           RowsTyped, RowsTyped',
           Effect(B, assigned, rounds, published, assigned', rounds', published'),
           \A l \in C, m \in B : l.row = m.row => ~Conflicting(l.mode, m.mode)
    PROVE  HasLocks(r, n, C, S)' /\ Relies(r, n, C, S)'
<1> DEFINE u == r.of t == r.task
<1>0. u \in Annotators /\ t \in Annotators
  BY RequestTyped
<1>1. \A kind, x : Updates(C, kind, x) => ~Updates(B, kind, x)
  <2> SUFFICES ASSUME NEW kind, NEW x, Updates(C, kind, x), Updates(B, kind, x) PROVE FALSE
    OBVIOUS
  <2>1. LockOn(kind, x, "update") \in C /\ LockOn(kind, x, "update") \in B
    BY DEF Updates, Holds
  <2>2. ~Conflicting(LockOn(kind, x, "update").mode, LockOn(kind, x, "update").mode)
    BY <2>1
  <2> QED BY <2>2 DEF Conflicting, LockOn
<1>2. \A x : Holds(C, "annotator", x, "no_key_update") \/ Updates(C, "annotator", x)
             => ~Holds(B, "annotator", x, "no_key_update")
  <2> SUFFICES ASSUME NEW x, NEW mode \in {"no_key_update", "update"},
                      LockOn("annotator", x, mode) \in C,
                      LockOn("annotator", x, "no_key_update") \in B
               PROVE  FALSE
    BY DEF Updates, Holds
  <2>1. LockOn("annotator", x, mode).row = LockOn("annotator", x, "no_key_update").row
    BY DEF LockOn
  <2>2. ~Conflicting(mode, "no_key_update")
    <3>1. ~Conflicting(LockOn("annotator", x, mode).mode, LockOn("annotator", x, "no_key_update").mode)
      BY <2>1
    <3> QED BY <3>1 DEF LockOn
  <2> QED BY <2>2 DEF Conflicting
<1>3. published' \subseteq published
  BY DEF Effect
<1>4. HasLocks(r, n, C, S)'
  BY <1>3 DEF HasLocks
\* a task that is locked gets no worker and no round, and stays published
<1>5. ASSUME NEW x \in Annotators, Updates(C, "task", x)
      PROVE  /\ \A v \in Annotators : assigned'[v] = x => assigned[v] = x
             /\ x \in published => x \in published'
             /\ ~Open(x) => ~Open(x)' /\ rounds'[x] = rounds[x]
  <2>1. ~Updates(B, "task", x)
    BY <1>1, <1>5
  <2>2. ASSUME NEW v \in Annotators, assigned'[v] = x PROVE assigned[v] = x
    BY <2>1, <2>2, NoneIsNothing DEF Effect
  <2>3. ~Open(x) => rounds'[x] = rounds[x]
    BY <2>1 DEF Effect, Open, IsOpen
  <2>4. ~Open(x) => ~Open(x)'
    BY <2>3 DEF Open
  <2> QED BY <2>1, <2>2, <2>3, <2>4 DEF Effect
<1>6. ASSUME NEW x \in Annotators,
             Holds(C, "annotator", x, "no_key_update") \/ Updates(C, "annotator", x)
      PROVE  assigned'[x] = assigned[x] \/ assigned'[x] = None
  BY <1>2, <1>6 DEF Effect
<1>7. r.does = "claim" /\ n = 3 => Claimable(u, t)'
  <2> SUFFICES ASSUME r.does = "claim", n = 3 PROVE Claimable(u, t)'
    OBVIOUS
  <2>1. Updates(C, "task", t) /\ Holds(C, "annotator", u, "no_key_update")
    BY DEF HasLocks, TakenFrom, Updates, Holds, Fencing
  <2>2. Claimable(u, t)
    BY DEF Relies
  <2>3. rounds[t] = NoRound /\ ~Open(t)
    BY <2>2, NoneIsNothing DEF Claimable, Open, NoRound
  <2>4. /\ \A v \in Annotators : assigned'[v] # t
        /\ t \in published' /\ rounds'[t] = NoRound /\ assigned'[u] = None
    BY <1>0, <1>5, <1>6, <2>1, <2>2, <2>3 DEF Claimable, WorkersOn
  <2> QED BY <2>2, <2>4 DEF Claimable, WorkersOn
<1>8. r.does = "reopen" /\ n >= 4 => ~Open(u)'
  <2> SUFFICES ASSUME r.does = "reopen", n >= 4 PROVE ~Open(u)'
    OBVIOUS
  <2>1. Updates(C, "task", u) /\ ~Open(u)
    BY DEF HasLocks, TakenFrom, Updates, Holds, Relies
  <2> QED BY <1>0, <1>5, <2>1
<1>9. r.does = "reopen" /\ n = 5 => (WorkersOn(u) = {} /\ assigned[u] = None)'
  <2> SUFFICES ASSUME r.does = "reopen", n = 5
               PROVE  (WorkersOn(u) = {} /\ assigned[u] = None)'
    OBVIOUS
  <2>1. Updates(C, "task", u) /\ Holds(C, "annotator", u, "no_key_update")
    BY DEF HasLocks, TakenFrom, Updates, Holds, Fencing
  <2>2. WorkersOn(u) = {} /\ assigned[u] = None
    BY DEF Relies
  <2> QED BY <1>0, <1>5, <1>6, <2>1, <2>2 DEF WorkersOn
<1>10. r.does = "decide" /\ n >= 2 => (rounds[t].state \in {"awaiting_review", "closed"})'
  <2> SUFFICES ASSUME r.does = "decide", n >= 2
               PROVE  (rounds[t].state \in {"awaiting_review", "closed"})'
    OBVIOUS
  <2>1. rounds[t].state \in {"awaiting_review", "closed"}
    BY DEF Relies
  <2>2. rounds[t] # NoRound
    BY <2>1, NoneIsNothing DEF NoRound
  <2> QED BY <1>0, <2>1, <2>2 DEF Effect
<1>11. r.does = "deactivate" /\ n = 3 =>
          (assigned[u] # None => Updates(S, "task", assigned[u]))'
  <2> SUFFICES ASSUME r.does = "deactivate", n = 3, assigned'[u] # None
               PROVE  Updates(S, "task", assigned'[u])
    OBVIOUS
  <2>1. Updates(C, "annotator", u)
    BY DEF HasLocks, TakenFrom, Updates, Holds
  <2>2. assigned'[u] = assigned[u]
    BY <1>0, <1>6, <2>1
  <2> QED BY <2>2 DEF Relies
<1>12. r.does = "deactivate" /\ n \in 4..5 /\ (\E l \in S : l.row = <<"draft", u>>) =>
          (~Open(u) /\ Updates(C, "task", u))'
  <2> SUFFICES ASSUME r.does = "deactivate", n \in 4..5, \E l \in S : l.row = <<"draft", u>>
               PROVE  (~Open(u))' /\ Updates(C, "task", u)
    OBVIOUS
  <2>1. ~Open(u) /\ Updates(C, "task", u)
    BY DEF Relies
  <2> QED BY <1>0, <1>5, <2>1
<1>13. r.does = "deactivate" /\ n = 6 => (u \in published => WorkersOn(u) \subseteq {u})'
  <2> SUFFICES ASSUME r.does = "deactivate", n = 6, u \in published'
               PROVE  (WorkersOn(u) \subseteq {u})'
    OBVIOUS
  <2>1. u \in published
    BY <1>3
  <2>2. Updates(C, "task", u) /\ WorkersOn(u) \subseteq {u}
    BY <2>1 DEF HasLocks, TakenFrom, Updates, Holds, Relies
  <2> QED BY <1>0, <1>5, <2>2 DEF WorkersOn
<1>14. Relies(r, n, C, S)'
  BY <1>7, <1>8, <1>9, <1>10, <1>11, <1>12, <1>13 DEF Relies
<1> QED BY <1>4, <1>14

\* A commit keeps the invariant.
LEMMA CommitKeeps ==
    ASSUME LockInv, NEW c \in Transactions, CommitRows(c)
    PROVE  LockInv'
<1>1. /\ Agree(assigned', rounds', published')
      /\ Effect(held[c], assigned, rounds, published, assigned', rounds', published')
  BY FreeingAgrees, OtherAgrees
<1>2. RowsTyped' /\ RowsAgree'
  BY <1>1, AgreeTo
<1>3. Ended(c)
  BY DEF CommitRows
<1>4. TransactionsTyped' /\ Exclusive' /\ Unused(c)'
  BY <1>3, EndedTyped DEF LockInv
<1>5. ASSUME NEW d \in Transactions \ {c} PROVE SteadyOf(d)'
  <2> DEFINE r == doing[d] n == stage[d] C == held[d] s == todo[d] S == C \cup Locks(s)
  <2>1. doing'[d] = r /\ stage'[d] = n /\ todo'[d] = s /\ held'[d] = C
    BY <1>3, EndedTyped DEF LockInv
  <2>2. CASE Unused(d)
    BY <2>1, <2>2 DEF SteadyOf, Unused
  <2>3. CASE ~Unused(d)
    <3>1. Steady(r, n, C, s) /\ n \in Nat /\ r \in Requests
      BY <2>3 DEF LockInv, TransactionsTyped, Unused
    <3>2. HasLocks(r, n, C, S) /\ Relies(r, n, C, S) /\ C \subseteq S
      BY <3>1 DEF Steady
    <3>3. \A l \in C, m \in held[c] : l.row = m.row => ~Conflicting(l.mode, m.mode)
      BY DEF LockInv, Exclusive
    <3>4. \A q, k, X, Y : q = r /\ k = n /\ X = C /\ Y = S =>
              HasLocks(q, k, X, Y)' /\ Relies(q, k, X, Y)'
      <4> SUFFICES ASSUME NEW q, NEW k, NEW X, NEW Y, q = r, k = n, X = C, Y = S
                   PROVE  HasLocks(q, k, X, Y)' /\ Relies(q, k, X, Y)'
        OBVIOUS
      <4>1. /\ k \in Nat /\ q \in Requests /\ X \subseteq Y
            /\ HasLocks(q, k, X, Y) /\ Relies(q, k, X, Y)
            /\ \A l \in X, m \in held[c] : l.row = m.row => ~Conflicting(l.mode, m.mode)
        BY <3>1, <3>2, <3>3
      <4>2. RowsTyped
        BY DEF LockInv
      <4> QED BY <1>1, <1>2, <4>1, <4>2, OthersRely
    <3>5. \A q, k, X, z : q = r /\ k = n /\ X = C /\ z = s => Steady(q, k, X, z)'
      <4> SUFFICES ASSUME NEW q, NEW k, NEW X, NEW z, q = r, k = n, X = C, z = s
                   PROVE  Steady(q, k, X, z)'
        OBVIOUS
      <4>1. HasLocks(q, k, X, X \cup Locks(z))' /\ Relies(q, k, X, X \cup Locks(z))'
        BY <3>4
      <4>2. Steady(q, k, X, z)
        BY <3>1
      <4> QED BY <4>1, <4>2 DEF Steady
    <3> HIDE DEF r, n, C, s
    <3>6. Steady(r, n, C, s)'
      <4>1. /\ r' = r /\ n' = n /\ C' = C /\ s' = s
        BY <2>1 DEF r, n, C, s
      <4> QED BY <3>5, <4>1
    <3> QED BY <3>6 DEF SteadyOf, r, n, C, s
  <2> QED BY <2>2, <2>3
<1> QED BY <1>2, <1>4, <1>5 DEF LockInv, SteadyOf

\* Every step keeps the invariant.
LEMMA LockNextKeeps ==
    ASSUME LockInv, [LockNext]_lockVars
    PROVE  LockInv'
<1>1. CASE UNCHANGED lockVars
  <2>1. UNCHANGED rows /\ doing' = doing /\ stage' = stage /\ todo' = todo /\ held' = held
    BY <1>1 DEF lockVars
  <2>2. RowsTyped' /\ RowsAgree'
    BY <2>1, RowsStay DEF LockInv
  <2>3. TransactionsTyped' /\ Exclusive'
    BY <2>1 DEF LockInv, TransactionsTyped, Exclusive, Unused
  <2>4. \A d \in Transactions : SteadyOf(d)'
    BY <2>1, SteadyStays DEF LockInv, SteadyOf, Unused
  <2> QED BY <2>2, <2>3, <2>4 DEF LockInv, SteadyOf
<1>2. ASSUME NEW c \in Transactions, Step(c) PROVE LockInv'
  <2>1. CASE Begin(c)
    BY <2>1, BeginKeeps
  <2>2. CASE Proceed(c)
    BY <2>2, ProceedKeeps
  <2>3. CASE Raise(c)
    BY <2>3, EndedKeeps DEF Raise
  <2>4. CASE Acquire(c)
    BY <2>4, AcquireKeeps
  <2>5. CASE SkipLocked(c)
    BY <2>5, EndedKeeps DEF SkipLocked
  <2>6. CASE CommitRows(c)
    BY <2>6, CommitKeeps
  <2>7. CASE DeadlockDetected(c)
    BY <2>7, EndedKeeps DEF DeadlockDetected
  <2> QED BY <1>2, <2>1, <2>2, <2>3, <2>4, <2>5, <2>6, <2>7 DEF Step
<1> QED BY <1>1, <1>2 DEF LockNext

\* The locks back each other, in the order of their levels, for every number of
\* annotators and transactions.
THEOREM LockInvHolds == LockSpec => []LockInv
<1>1. LockInit => LockInv
  BY LockInitInv
<1>2. LockInv /\ [LockNext]_lockVars => LockInv'
  BY LockNextKeeps
<1> QED BY <1>1, <1>2, PTL DEF LockSpec

-----------------------------------------------------------------------------
(* Whoever waits, waits for somebody who asks for more *)

\* The request that is to be met next.
Wanted(c) == Head(todo[c])

\* A transaction waits for another, and for none of the three statements.
Waits(c) == /\ c \in Transactions /\ todo[c] # <<>> /\ ~Wanted(c).skip
            /\ ~AsksLate(c)
WaitsFor(c, d) ==
    /\ d \in Transactions /\ c # d
    /\ \E l \in held[d] : l.row = Wanted(c).row /\ Conflicting(l.mode, Wanted(c).mode)

\* What a waiting transaction asks for fits.
LEMMA WaiterFits ==
    ASSUME LockInv, NEW c, Waits(c)
    PROVE  /\ doing[c] \in Requests /\ Wanted(c) \in Asks
           /\ Fit(doing[c], held[c], Wanted(c))
           /\ ~Late(doing[c], Wanted(c).row[1])
<1>1. todo[c] \in Seq(Asks) /\ todo[c] # <<>> /\ c \in Transactions
  BY DEF LockInv, TransactionsTyped, Waits
<1>2. Wanted(c) = todo[c][1] /\ Wanted(c) \in Asks /\ 1 \in 1..Len(todo[c])
  BY <1>1 DEF Wanted
<1>3. doing[c] \in Requests /\ Steady(doing[c], stage[c], held[c], todo[c])
  BY <1>1 DEF LockInv, TransactionsTyped, Unused
<1>4. Fit(doing[c], held[c] \cup Earlier(todo[c], 1), todo[c][1])
  BY <1>2, <1>3 DEF Steady, InOrder
<1>5. Earlier(todo[c], 1) = {}
  BY DEF Earlier
<1>6. held[c] \cup Earlier(todo[c], 1) = held[c]
  BY <1>5
<1>7. ~Late(doing[c], Wanted(c).row[1])
  BY DEF Waits, AsksLate, Late, Wanted
<1> QED BY <1>2, <1>3, <1>4, <1>6, <1>7

\* Every lock that is held is backed.
LEMMA HeldIsBacked ==
    ASSUME LockInv, NEW c \in Transactions, NEW l \in held[c]
    PROVE  l \in LockSet /\ Backed(doing[c], held[c], l)
<1>1. held[c] \in SUBSET LockSet /\ held[c] # {}
  BY DEF LockInv, TransactionsTyped
<1>2. stage[c] # 0
  BY <1>1 DEF LockInv, TransactionsTyped
<1>3. Steady(doing[c], stage[c], held[c], todo[c])
  BY <1>2 DEF LockInv, TransactionsTyped
<1> QED BY <1>1, <1>3 DEF Steady

\* Two transactions do not both lock a row, when one of them is to change it.
LEMMA NotBoth ==
    ASSUME LockInv, NEW c \in Transactions, NEW d \in Transactions, c # d,
           NEW kind, NEW x
    PROVE  /\ ~ (Updates(held[c], kind, x) /\ Updates(held[d], kind, x))
           /\ ~ (Updates(held[c], kind, x) /\ Holds(held[d], kind, x, "no_key_update"))
           /\ ~ (Holds(held[c], kind, x, "no_key_update") /\ Holds(held[d], kind, x, "no_key_update"))
<1>1. ASSUME NEW m \in Modes, NEW n \in Modes, LockOn(kind, x, m) \in held[c],
             LockOn(kind, x, n) \in held[d]
      PROVE  ~Conflicting(m, n)
  <2>1. LockOn(kind, x, m).row = LockOn(kind, x, n).row
    BY DEF LockOn
  <2>2. ~Conflicting(LockOn(kind, x, m).mode, LockOn(kind, x, n).mode)
    BY <1>1, <2>1 DEF LockInv, Exclusive
  <2> QED BY <2>2 DEF LockOn
<1>2. /\ Conflicting("update", "update") /\ Conflicting("update", "no_key_update")
      /\ Conflicting("no_key_update", "no_key_update")
      /\ "update" \in Modes /\ "no_key_update" \in Modes
  BY DEF Conflicting, Modes
<1> QED BY <1>1, <1>2 DEF Updates, Holds

\* What else is asked for out of order is never in anybody's hands.
LEMMA AsksInOrder ==
    ASSUME LockInv, NEW c, NEW d, Waits(c), WaitsFor(c, d)
    PROVE  /\ Wanted(c).row[1] # "published"
           /\ OwnRound(doing[c], Wanted(c)) \/ Above(held[c], Wanted(c))
<1> DEFINE a == Wanted(c) r == doing[c] B == held[c] kind == a.row[1] of == a.row[2]
<1>1. /\ c \in Transactions /\ d \in Transactions /\ c # d /\ ~a.skip
      /\ a \in Asks /\ Fit(r, B, a) /\ ~Late(r, kind)
  BY WaiterFits DEF Waits, WaitsFor
<1>2. PICK l \in held[d] : l.row = a.row /\ Conflicting(l.mode, a.mode)
  BY DEF WaitsFor
<1>3. l \in LockSet /\ Backed(doing[d], held[d], l)
  BY <1>1, HeldIsBacked
<1>4. Backed(r, B, LockOf(a)) /\ LockOf(a).row = a.row /\ LockOf(a).mode = a.mode
  BY <1>1 DEF Fit, LockOf
<1>5. kind # "published"
  <2> SUFFICES ASSUME kind = "published" PROVE FALSE
    OBVIOUS
  <2>1. Updates(B, "task", of) /\ Updates(held[d], "task", of)
    BY <1>2, <1>3, <1>4 DEF Backed
  <2> QED BY <1>1, <2>1, NotBoth
<1>6. [row |-> a.row, mode |-> "update"] \notin B
  <2> SUFFICES ASSUME [row |-> a.row, mode |-> "update"] \in B PROVE FALSE
    OBVIOUS
  <2>1. ~Conflicting("update", l.mode)
    BY <1>1, <1>2 DEF LockInv, Exclusive
  <2> QED BY <2>1 DEF Conflicting
<1>7. ~Upgrade(B, a)
  <2> SUFFICES ASSUME Upgrade(B, a) PROVE FALSE
    OBVIOUS
  <2> DEFINE b == [row |-> a.row, mode |-> "share"]
  <2>1. kind = "session" /\ a.mode = "no_key_update" /\ b \in B
    BY DEF Upgrade
  <2>2. ~Conflicting("share", l.mode)
    BY <1>1, <1>2, <2>1 DEF LockInv, Exclusive
  <2>3. l.mode = "share"
    BY <1>2, <1>3, <2>1, <2>2 DEF Conflicting, LockSet, Modes
  <2>4. Holds(held[d], "annotator", of, "no_key_update")
    BY <1>2, <1>3, <2>1, <2>3 DEF Backed
  <2>5. Backed(r, B, b)
    BY <1>1, <2>1, HeldIsBacked
  <2>6. Holds(B, "annotator", of, "no_key_update")
    BY <2>1, <2>5 DEF Backed
  <2> QED BY <1>1, <2>4, <2>6, NotBoth
<1>8. ~OwnDraft(r, B, a)
  <2> SUFFICES ASSUME OwnDraft(r, B, a) PROVE FALSE
    OBVIOUS
  <2>1. /\ r.does = "deactivate" /\ a.row = <<"draft", r.of>> /\ Updates(B, "round", r.of)
        /\ kind = "draft" /\ of = r.of
    BY DEF OwnDraft
  <2>2. LockOn("round", of, "update") \in B
    BY <2>1 DEF Updates, Holds
  <2>3. Backed(r, B, LockOn("round", of, "update"))
    BY <1>1, <2>2, HeldIsBacked
  <2>4. Updates(B, "task", of)
    BY <2>1, <2>3 DEF Backed, LockOn, Savers
  <2>5. Updates(B, "annotator", of)
    BY <1>1, <2>1 DEF Fit
  <2>6. \/ Updates(held[d], "task", of) \/ Updates(held[d], "round", of)
        \/ Holds(held[d], "annotator", of, "no_key_update")
    BY <1>2, <1>3, <2>1 DEF Backed
  <2> QED BY <1>1, <2>1, <2>4, <2>5, <2>6, NotBoth
<1>9. Exempt(r, B, a) => OwnRound(r, a)
  BY <1>1, <1>5, <1>6, <1>7, <1>8 DEF Exempt
<1> QED BY <1>1, <1>5, <1>9 DEF Fit

\* Who waits for a draft under its round stands higher than who waits for it
\* under its task or annotator.
SavesRound(c) == /\ doing[c].does \in Savers /\ Wanted(c).row[1] = "draft"
                 /\ \E l \in held[c] : l.row[1] = "round"
Height(c) == IF OwnRound(doing[c], Wanted(c)) THEN 7
             ELSE IF SavesRound(c) THEN 8
             ELSE Level(Wanted(c).row[1])

\* Heights are numbers.
LEMMA HeightTyped == \A c : Height(c) \in 0..8
BY DEF Height, Level

\* Who is waited for stands higher, or asks for a greater id of the same rows.
LEMMA HigherUp ==
    ASSUME LockInv, NEW c, NEW d, NEW e, Waits(c), WaitsFor(c, d), Waits(d), WaitsFor(d, e)
    PROVE  \/ Height(c) < Height(d)
           \/ /\ Height(c) = Height(d)
              /\ Wanted(c).row[1] \in {"annotator", "assignment"}
              /\ Wanted(d).row[1] \in {"annotator", "assignment"}
              /\ Wanted(c).row[2] < Wanted(d).row[2]
<1> DEFINE a == Wanted(c) b == Wanted(d) B == held[c] D == held[d] r == doing[c] q == doing[d]
<1>1. /\ c \in Transactions /\ d \in Transactions /\ c # d
      /\ a \in Asks /\ Fit(r, B, a) /\ b \in Asks /\ Fit(q, D, b)
      /\ Backed(r, B, LockOf(a))
  BY WaiterFits DEF Waits, WaitsFor, Fit
<1>2. PICK l \in D : l.row = a.row /\ Conflicting(l.mode, a.mode)
  BY DEF WaitsFor
<1>3. l \in LockSet /\ Backed(q, D, l)
  BY <1>1, HeldIsBacked
<1>4. /\ a.row[1] # "published" /\ (OwnRound(r, a) \/ Above(B, a))
      /\ b.row[1] # "published" /\ (OwnRound(q, b) \/ Above(D, b))
  BY AsksInOrder
<1>5. LockOf(a).row = a.row
  BY DEF LockOf
\* a deactivation that asks for the round has the task
<1>6. OwnRound(r, a) => Updates(B, "task", r.of) /\ a.row[1] = "round" /\ a.row[2] = r.of
                        /\ r.does \notin Savers
  BY <1>1, <1>5 DEF OwnRound, Backed, Savers
<1>7. Height(c) \in 0..8 /\ Height(d) \in 0..8
  BY HeightTyped
<1>8. CASE OwnRound(q, b)
  <2>1. Height(d) = 7
    BY <1>8 DEF Height
  <2>2. q.does = "deactivate" /\ q.does \notin Savers
    BY <1>8 DEF OwnRound, Savers
  <2>3. CASE OwnRound(r, a)
    <3>1. Updates(D, "task", r.of)
      BY <1>2, <1>3, <1>6, <2>2, <2>3 DEF Backed
    <3> QED BY <1>1, <1>6, <2>3, <3>1, NotBoth
  <2>4. CASE ~OwnRound(r, a) /\ SavesRound(c)
    <3>1. a.row[1] = "draft" /\ Updates(B, "round", a.row[2])
      BY <1>1, <2>4 DEF SavesRound, Fit
    <3>2. \A m \in D : m.row # <<"draft", q.of>>
      BY <1>1, <1>8 DEF Fit
    <3>3. a.row = <<"draft", a.row[2]>>
      BY <1>1, <3>1 DEF Asks, LockedRows
    <3>4. a.row[2] # q.of
      BY <1>2, <3>2, <3>3
    <3>5. Updates(D, "round", a.row[2])
      BY <1>2, <1>3, <2>2, <3>1, <3>4 DEF Backed
    <3> QED BY <1>1, <3>1, <3>5, NotBoth
  <2>5. CASE ~OwnRound(r, a) /\ ~SavesRound(c)
    <3>1. Height(c) = Level(a.row[1])
      BY <2>5 DEF Height
    <3>2. Level(a.row[1]) < 7
      BY DEF Level
    <3> QED BY <2>1, <3>1, <3>2
  <2> QED BY <2>3, <2>4, <2>5
<1>9. CASE ~OwnRound(q, b)
  <2>1. Lower(a.row, b.row)
    BY <1>2, <1>4, <1>9 DEF Above
  <2>2. Level(b.row[1]) <= Height(d) /\ Level(b.row[1]) \in 0..6 /\ Level(a.row[1]) \in 0..6
    BY <1>9 DEF Height, Level
  <2>3. CASE OwnRound(r, a)
    <3>1. Height(c) = 7
      BY <2>3 DEF Height
    <3>2. Level(a.row[1]) = 5
      BY <1>6, <2>3 DEF Level
    <3>3. Level(b.row[1]) = 6
      BY <1>6, <2>1, <2>2, <2>3, <3>2 DEF Lower
    <3>4. b.row[1] = "draft"
      <4>1. b.row[1] \in Kinds
        BY <1>1 DEF Asks, LockedRows, Kinds
      <4> QED BY <1>4, <3>3, <4>1 DEF Kinds, Level
    <3>5. Updates(D, "task", r.of) \/ q.does \in Savers
      BY <1>2, <1>3, <1>6, <2>3 DEF Backed
    <3>6. q.does \in Savers
      BY <1>1, <1>6, <2>3, <3>5, NotBoth
    <3>7. SavesRound(d)
      BY <1>2, <1>6, <2>3, <3>4, <3>6 DEF SavesRound
    <3>8. Height(d) = 8
      BY <1>9, <3>7 DEF Height
    <3> QED BY <3>1, <3>8
  <2>4. CASE ~OwnRound(r, a) /\ SavesRound(c)
    <3>1. a.row[1] = "draft" /\ Level("draft") = 6
      BY <2>4 DEF SavesRound, Level
    <3> QED BY <2>1, <2>2, <3>1 DEF Lower
  <2>5. CASE ~OwnRound(r, a) /\ ~SavesRound(c)
    <3>1. Height(c) = Level(a.row[1])
      BY <2>5 DEF Height
    <3>2. CASE Level(a.row[1]) < Level(b.row[1])
      BY <1>7, <2>2, <3>1, <3>2
    <3>3. CASE /\ a.row[1] = b.row[1] /\ a.row[1] \in {"annotator", "assignment"}
               /\ a.row[2] < b.row[2]
      <4>1. ~SavesRound(d)
        BY <3>3 DEF SavesRound
      <4>2. Height(d) = Level(b.row[1])
        BY <1>9, <4>1 DEF Height
      <4> QED BY <3>1, <3>3, <4>2
    <3> QED BY <2>1, <3>2, <3>3 DEF Lower
  <2> QED BY <2>3, <2>4, <2>5
<1> QED BY <1>8, <1>9

\* A circle would have a highest member that waits for a higher one.
LEMMA KnownCircles == ASSUME LockInv PROVE CirclesAreKnown
<1> SUFFICES ASSUME NEW circle \in SUBSET Transactions, Circle(circle),
                    \A c \in circle : ~AsksLate(c)
             PROVE  FALSE
  BY DEF CirclesAreKnown
<1>1. ASSUME NEW c \in circle PROVE Waits(c) /\ \E d \in circle : WaitsFor(c, d)
  <2>1. todo[c] # <<>> /\ ~Wanted(c).skip /\ Blockers(c) \cap circle # {}
    BY DEF Circle, Wanted
  <2>2. PICK d \in circle : d \in Blockers(c)
    BY <2>1
  <2>3. WaitsFor(c, d)
    BY <2>1, <2>2 DEF Blockers, WaitsFor, Wanted
  <2> QED BY <2>1, <2>3 DEF Waits
<1> DEFINE H == {Height(c) : c \in circle}
<1>2. PICK h \in H : \A k \in H : k <= h
  <2> DEFINE U == 0..8
  <2>1. H \in SUBSET U /\ U \in SUBSET Nat /\ H # {}
    BY HeightTyped DEF Circle
  <2>2. IsFiniteSet(U)
    <3>1. 0 \in Int /\ 8 \in Int
      OBVIOUS
    <3> QED BY <3>1, FS_Interval
  <2> HIDE DEF H, U
  <2>3. IsFiniteSet(H) /\ H \in SUBSET Nat
    BY <2>1, <2>2, FS_Subset
  <2> QED BY <2>1, <2>3, GreatestOf
<1> DEFINE top == {c \in circle : Height(c) = h}
           id == [c \in top |-> Wanted(c).row[2]]
           ids == {id[c] : c \in top}
<1>3. top # {}
  BY <1>2
<1>4. ASSUME NEW c \in top
      PROVE  /\ Wanted(c).row[2] \in Nat
             /\ \E d \in top : Wanted(c).row[2] < Wanted(d).row[2]
  <2>1. PICK d \in circle : WaitsFor(c, d)
    BY <1>1
  <2>2. PICK e \in circle : WaitsFor(d, e)
    BY <1>1
  <2>3. Waits(c) /\ Waits(d)
    BY <1>1
  <2>4. \/ Height(c) < Height(d)
        \/ /\ Height(c) = Height(d)
           /\ Wanted(c).row[1] \in {"annotator", "assignment"}
           /\ Wanted(d).row[1] \in {"annotator", "assignment"}
           /\ Wanted(c).row[2] < Wanted(d).row[2]
    BY <2>1, <2>2, <2>3, HigherUp
  <2>5. Height(d) <= Height(c) /\ Height(c) \in 0..8 /\ Height(d) \in 0..8
    BY <1>2, HeightTyped
  <2>6. d \in top /\ Wanted(c).row[2] < Wanted(d).row[2]
        /\ Wanted(c).row[1] \in {"annotator", "assignment"}
    BY <2>4, <2>5
  <2>7. Wanted(c) \in Asks
    BY <2>3, WaiterFits
  <2>8. Wanted(c).row[2] \in Annotators
    BY <2>6, <2>7 DEF Asks, LockedRows
  <2> QED BY <2>6, <2>8, AnnotatorsAreIds
<1>5. IsFiniteSet(top)
  <2>1. top \in SUBSET Transactions
    OBVIOUS
  <2> HIDE DEF top
  <2> QED BY <2>1, PoolIsFinite, FS_Subset
<1>6. IsFiniteSet(ids)
  <2>1. id \in Surjection(top, ids)
    <3> HIDE DEF top
    <3> QED BY DEF Surjection
  <2> HIDE DEF top, id, ids
  <2> QED BY <1>5, <2>1, FS_Surjection
<1>7. ids \in SUBSET Nat /\ ids # {}
  BY <1>3, <1>4
<1>8. PICK x \in ids : \A y \in ids : y <= x
  <2> HIDE DEF ids
  <2> QED BY <1>6, <1>7, GreatestOf
<1>9. PICK c \in top : x = Wanted(c).row[2]
  OBVIOUS
<1>10. PICK d \in top : Wanted(c).row[2] < Wanted(d).row[2]
  BY <1>4
<1>11. Wanted(d).row[2] \in ids /\ Wanted(d).row[2] \in Nat /\ Wanted(c).row[2] \in Nat
  BY <1>4
<1>12. Wanted(d).row[2] <= Wanted(c).row[2]
  BY <1>8, <1>9, <1>11
<1> QED BY <1>10, <1>11, <1>12

\* Whatever requests meet, circles of waiting go through the three statements of
\* AsksLate, and nobody works on a task beside another.
THEOREM LocksSufficeHolds == LockSpec => []LocksSuffice
<1>1. LockInv => LocksSuffice
  BY KnownCircles DEF LocksSuffice, WorkMatchesRounds, LockInv, RowsAgree
<1> QED BY <1>1, LockInvHolds, PTL

-----------------------------------------------------------------------------
(* The annotator session: what a browser may know of a session               *)

\* Browser b may know of the session "c" names: it exists, and if it is the
\* last login's, then b was the one to sign in.
MayKnow(b, c) ==
    /\ c.session <= logins
    /\ c.session = logins /\ logins # NoSession => b = holder

\* Only the browser that signed in last knows the last login's session, except
\* by a takeover token, which carries no cookie but a fingerprint.
HolderKnows ==
    /\ \A b \in Browser : MayKnow(b, jar[b])
    /\ \A p \in replies : MayKnow(p.browser, p.cookie)
    /\ \A r \in requests : r.kind # "takeover" => MayKnow(r.browser, r)

SessionInv == SessionsTyped /\ HolderKnows /\ IdleFollowsActivity

USE PolicyAssumption DEF NoSession

\* The facts about the policy in the form the provers use them.
LEMMA PolicyNumbers ==
    /\ Idle \in Nat /\ Idle > 0
    /\ Absolute \in Nat /\ Absolute > 0
    /\ Lease \in Nat /\ Lease > 0
    /\ TokenLife \in Nat /\ TokenLife > 0
    /\ MaxLag \in Nat /\ MaxLag > 0
    /\ Throttle \in Nat
    /\ MaxLogins \in Nat
BY PolicyAssumption

\* The absent row has the columns' types.
LEMMA NoRowTyped ==
    ASSUME SessionsTyped
    PROVE  /\ NoRow \in SessionRow
           /\ NoRow.session = NoSession /\ NoRow.generation = 0
           /\ NoRow.idle = 0 /\ NoRow.absolute = 0
           /\ NoRow.generation <= logins
BY PolicyNumbers DEF NoRow, SessionRow, Session, SessionsTyped

\* What a transaction writes to the row keeps the deadlines in order and in
\* range, however late it commits.
LEMMA TouchedTyped ==
    ASSUME SessionsTyped, SignedIn, NEW lag \in 0 .. MaxLag
    PROVE  /\ Touched(lag) \in SessionRow
           /\ Touched(lag).session = row.session
           /\ Touched(lag).generation = row.generation
           /\ Touched(lag).absolute = row.absolute
           /\ Touched(lag).idle <= row.absolute
           /\ Touched(lag).idle + Touched(lag).activity <= Idle
<1> row \in SessionRow BY DEF SessionsTyped
<1> DEFINE newIdle == Least(Idle - lag, row.absolute)
<1>1. newIdle \in -MaxLag .. Idle /\ newIdle <= row.absolute
      /\ newIdle + lag <= Idle
  BY PolicyNumbers DEF Least, SessionRow
<1>2. lag \in 0 .. Lease + MaxLag /\ lag \in 0 .. Throttle + Idle + MaxLag
  BY PolicyNumbers
<1> HIDE DEF newIdle
<1>3. Touched(lag) = [row EXCEPT !.seen = lag, !.activity = lag, !.idle = newIdle]
  BY DEF Touched, newIdle
<1> QED BY <1>1, <1>2, <1>3 DEF SessionRow

LEMMA SeenTyped ==
    ASSUME SessionsTyped, SignedIn, NEW lag \in 0 .. MaxLag
    PROVE  /\ Seen(lag) \in SessionRow
           /\ Seen(lag).session = row.session
           /\ Seen(lag).generation = row.generation
           /\ Seen(lag).idle = row.idle
           /\ Seen(lag).absolute = row.absolute
           /\ Seen(lag).activity = row.activity
<1> row \in SessionRow BY DEF SessionsTyped
<1>1. lag \in 0 .. Lease + MaxLag BY PolicyNumbers
<1> QED BY <1>1 DEF Seen, SessionRow

LEMMA OpenedTyped ==
    ASSUME SessionsTyped, logins < MaxLogins, NEW lag \in 0 .. MaxLag
    PROVE  /\ Opened(lag) \in SessionRow
           /\ Opened(lag).session = logins + 1
           /\ Opened(lag).generation \in Session
           /\ Opened(lag).generation <= logins + 1
           /\ Opened(lag).idle <= Opened(lag).absolute
           /\ Opened(lag).idle + Opened(lag).activity <= Idle
<1> row \in SessionRow /\ logins \in Session BY DEF SessionsTyped
<1> DEFINE newIdle == Least(Idle, Absolute) - lag
<1>1. newIdle \in -MaxLag .. Idle /\ newIdle <= Absolute - lag
      /\ Absolute - lag \in -MaxLag .. Absolute
      /\ newIdle + lag <= Idle
  BY PolicyNumbers DEF Least
<1>2. lag \in 0 .. Lease + MaxLag /\ lag \in 0 .. Throttle + Idle + MaxLag
  BY PolicyNumbers
<1>3. logins + 1 \in Session BY PolicyNumbers DEF Session
<1>4. row.generation + 1 \in Session /\ row.generation + 1 <= logins + 1
  BY PolicyNumbers DEF Session, SessionsTyped, SessionRow
<1> HIDE DEF newIdle
<1>5. Opened(lag) = [session |-> logins + 1, generation |-> row.generation + 1,
                     idle |-> newIdle, absolute |-> Absolute - lag,
                     seen |-> lag, activity |-> lag]
  BY DEF Opened, newIdle
<1> QED BY <1>1, <1>2, <1>3, <1>4, <1>5 DEF SessionRow

LEMMA TickedTyped ==
    ASSUME SessionsTyped, SignedIn,
           NEW newRow,
           newRow = [row EXCEPT !.idle = Left(row.idle),
                                !.absolute = Left(row.absolute),
                                !.seen = Since(row.seen, Lease),
                                !.activity = Since(row.activity, Throttle + Idle)]
    PROVE  /\ newRow \in SessionRow
           /\ newRow.session = row.session
           /\ newRow.generation = row.generation
           /\ newRow.idle = Left(row.idle)
           /\ newRow.idle <= newRow.absolute
           /\ IdleFollowsActivity /\ newRow.idle > 0
                => newRow.idle + newRow.activity <= Idle
<1> row \in SessionRow /\ row.idle <= row.absolute BY DEF SessionsTyped
<1>1. /\ Left(row.idle) \in -MaxLag .. Idle
      /\ Left(row.absolute) \in -MaxLag .. Absolute
      /\ Left(row.idle) <= Left(row.absolute)
  BY PolicyNumbers DEF Left, SessionRow
<1>2. /\ Since(row.seen, Lease) \in 0 .. Lease + MaxLag
      /\ Since(row.activity, Throttle + Idle) \in 0 .. Throttle + Idle + MaxLag
      /\ IdleFollowsActivity /\ Left(row.idle) > 0 =>
           Left(row.idle) + Since(row.activity, Throttle + Idle) <= Idle
  BY PolicyNumbers DEF Since, Left, SessionRow, IdleFollowsActivity
<1> DEFINE i == Left(row.idle)
           a == Left(row.absolute)
           n == Since(row.seen, Lease)
           v == Since(row.activity, Throttle + Idle)
<1>3. newRow = [row EXCEPT !.idle = i, !.absolute = a, !.seen = n, !.activity = v]
  OBVIOUS
<1> HIDE DEF i, a, n, v
<1>4. /\ i \in -MaxLag .. Idle /\ a \in -MaxLag .. Absolute /\ i <= a
      /\ n \in 0 .. Lease + MaxLag /\ v \in 0 .. Throttle + Idle + MaxLag
      /\ IdleFollowsActivity /\ i > 0 => i + v <= Idle
  BY <1>1, <1>2 DEF i, a, n, v
<1>5. /\ newRow \in SessionRow
      /\ newRow.session = row.session
      /\ newRow.generation = row.generation
      /\ newRow.idle = i /\ newRow.absolute = a /\ newRow.activity = v
  BY <1>3, <1>4 DEF SessionRow
<1> QED BY <1>4, <1>5 DEF i

-----------------------------------------------------------------------------
(* Every step keeps the invariant                                          *)

LEMMA InitInv == Init => SessionInv
<1> SUFFICES ASSUME Init PROVE SessionInv OBVIOUS
<1>1. NoCookie \in Cookie /\ NoCookie.session = 0
  BY PolicyNumbers DEF NoCookie, Cookie, Session
<1>2. NoRow \in SessionRow /\ NoRow.session = 0 /\ NoRow.generation = 0
      /\ NoRow.idle = 0 /\ NoRow.absolute = 0
  BY PolicyNumbers DEF NoRow, SessionRow, Session
<1>3. SessionsTyped
  BY <1>1, <1>2, PolicyNumbers DEF Init, SessionsTyped, Session
<1>4. HolderKnows BY <1>1 DEF Init, HolderKnows, MayKnow
<1>5. IdleFollowsActivity BY <1>2 DEF Init, IdleFollowsActivity
<1> QED BY <1>3, <1>4, <1>5 DEF SessionInv

\* A new request knows what its browser knows.
LEMMA IssueKeepsInv ==
    ASSUME SessionInv, NEW kind \in Kind, NEW b \in Browser, NEW c,
           c.session \in Session, c.generation \in Session,
           kind # "takeover" => MayKnow(b, c),
           Issue(kind, b, c)
    PROVE  SessionInv'
<1> DEFINE new == [kind |-> kind, browser |-> b, session |-> c.session,
                   generation |-> c.generation, age |-> 0]
<1>1. new \in Request BY PolicyNumbers DEF Request
<1>2. new.kind # "takeover" => MayKnow(new.browser, new) BY DEF MayKnow
<1>3. requests' = requests \cup {new} BY DEF Issue
<1> HIDE DEF new
<1>4. UNCHANGED <<status, row, logins, holder, jar, tokens, replies>> BY DEF Issue
<1>5. SessionsTyped'
  BY <1>1, <1>3, <1>4 DEF SessionInv, SessionsTyped, SignedIn
<1>6. HolderKnows'
  BY <1>2, <1>3, <1>4 DEF SessionInv, HolderKnows, MayKnow
<1>7. IdleFollowsActivity' BY <1>4 DEF SessionInv, IdleFollowsActivity
<1> QED BY <1>5, <1>6, <1>7 DEF SessionInv

LEMMA SendKeepsInv ==
    ASSUME SessionInv, NEW b \in Browser, NEW kind \in Kind,
           kind # "takeover", Send(kind, b)
    PROVE  SessionInv'
<1>1. row.session \in Session /\ row.generation \in Session
  BY DEF SessionInv, SessionsTyped, SessionRow
<1>2. MayKnow(b, row)
  BY DEF Send, Names, MayKnow, SessionInv, HolderKnows, SessionsTyped
<1>3. Issue(kind, b, row) BY DEF Send
<1> QED BY <1>1, <1>2, <1>3, IssueKeepsInv

LEMMA BrowserKeepsInv ==
    ASSUME SessionInv, NEW b \in Browser,
           SendLogin(b) \/ SendLogout(b) \/ SendWrite(b) \/ SendHeartbeat(b)
    PROVE  SessionInv'
<1>1. /\ jar[b].session \in Session /\ jar[b].generation \in Session
      /\ MayKnow(b, jar[b])
  BY DEF SessionInv, SessionsTyped, HolderKnows, Cookie
<1>2. CASE SendLogin(b)
  BY <1>1, <1>2, IssueKeepsInv DEF SendLogin, Kind
<1>3. CASE SendLogout(b)
  BY <1>1, <1>3, IssueKeepsInv DEF SendLogout, Kind
<1>4. CASE SendWrite(b)
  BY <1>4, SendKeepsInv DEF SendWrite, Kind
<1>5. CASE SendHeartbeat(b)
  BY <1>5, SendKeepsInv DEF SendHeartbeat, Kind
<1> QED BY <1>2, <1>3, <1>4, <1>5

LEMMA SendTakeoverKeepsInv ==
    ASSUME SessionInv, NEW t \in tokens, SendTakeover(t)
    PROVE  SessionInv'
<1>1. t \in Token BY DEF SessionInv, SessionsTyped
<1>2. t.browser \in Browser /\ t.session \in Session /\ t.generation \in Session
  BY <1>1 DEF Token
<1>3. "takeover" \in Kind BY DEF Kind
<1>4. Issue("takeover", t.browser, t) BY DEF SendTakeover
<1> QED BY <1>2, <1>3, <1>4, IssueKeepsInv

LEMMA ReplyKeepsInv ==
    ASSUME SessionInv, NEW p \in replies, Deliver(p) \/ Lose(p)
    PROVE  SessionInv'
<1>1. p \in Reply /\ MayKnow(p.browser, p.cookie)
  BY DEF SessionInv, SessionsTyped, HolderKnows
<1>2. p.browser \in Browser /\ p.cookie \in Cookie BY <1>1 DEF Reply
<1>3. CASE Deliver(p)
  <2>1. jar' \in [Browser -> Cookie] BY <1>2, <1>3 DEF Deliver, SessionInv, SessionsTyped
  <2>2. SessionsTyped'
    BY <1>3, <2>1 DEF Deliver, SessionInv, SessionsTyped, SignedIn
  <2>3. \A b \in Browser : jar'[b] = IF b = p.browser THEN p.cookie ELSE jar[b]
    BY <1>3 DEF Deliver, SessionInv, SessionsTyped
  <2>4. HolderKnows'
    BY <1>1, <1>3, <2>3 DEF Deliver, SessionInv, HolderKnows, MayKnow
  <2>5. IdleFollowsActivity' BY <1>3 DEF Deliver, SessionInv, IdleFollowsActivity
  <2> QED BY <2>2, <2>4, <2>5 DEF SessionInv
<1>4. CASE Lose(p)
  <2>1. SessionsTyped' BY <1>4 DEF Lose, SessionInv, SessionsTyped, SignedIn
  <2>2. HolderKnows' BY <1>4 DEF Lose, SessionInv, HolderKnows, MayKnow
  <2>3. IdleFollowsActivity' BY <1>4 DEF Lose, SessionInv, IdleFollowsActivity
  <2> QED BY <2>1, <2>2, <2>3 DEF SessionInv
<1> QED BY <1>3, <1>4

\* A step that leaves every session as it is, ends requests and may answer a
\* browser with what it may know.
LEMMA SameSessionKeepsInv ==
    ASSUME SessionInv,
           row' \in SessionRow, row'.idle <= row'.absolute,
           row'.session = row.session, row'.generation = row.generation,
           ~ SignedIn => row' = row,
           row'.idle > 0 => row'.idle + row'.activity <= Idle,
           requests' \subseteq requests,
           \A p \in replies' :
             p \in replies \/ (p \in Reply /\ MayKnow(p.browser, p.cookie)),
           UNCHANGED <<status, logins, holder, jar, tokens>>
    PROVE  SessionInv'
<1>1. SessionsTyped' BY DEF SessionInv, SessionsTyped, SignedIn
<1>2. HolderKnows' BY DEF SessionInv, HolderKnows, MayKnow
<1>3. IdleFollowsActivity' BY DEF IdleFollowsActivity
<1> QED BY <1>1, <1>2, <1>3 DEF SessionInv

\* The row is gone: nobody is signed in, and what browsers know is no more.
LEMMA NoSessionKeepsInv ==
    ASSUME SessionInv, row' = NoRow, status' \in {"active", "deactivated"},
           requests' \subseteq requests,
           \A p \in replies' :
             p \in replies \/ (p \in Reply /\ MayKnow(p.browser, p.cookie)),
           UNCHANGED <<logins, holder, jar, tokens>>
    PROVE  SessionInv'
<1>1. /\ NoRow \in SessionRow /\ NoRow.session = NoSession
      /\ NoRow.generation = 0 /\ NoRow.idle = 0 /\ NoRow.absolute = 0
      /\ NoRow.generation <= logins
  BY NoRowTyped DEF SessionInv
<1>2. SessionsTyped' BY <1>1 DEF SessionInv, SessionsTyped, SignedIn
<1>3. HolderKnows' BY DEF SessionInv, HolderKnows, MayKnow
<1>4. IdleFollowsActivity' BY <1>1 DEF IdleFollowsActivity
<1> QED BY <1>2, <1>3, <1>4 DEF SessionInv

\* A new session: no older reference is about it, and its cookie goes to the
\* browser that is the holder now.
LEMMA ReplaceKeepsInv ==
    ASSUME SessionInv, NEW r \in requests, NEW lag \in 0 .. r.age, Replace(r, lag)
    PROVE  SessionInv'
<1>1. r \in Request /\ r.browser \in Browser /\ lag \in 0 .. MaxLag
  BY PolicyNumbers DEF SessionInv, SessionsTyped, Request
<1>2. /\ logins < MaxLogins /\ logins' = logins + 1 /\ logins \in Nat
      /\ row' = Opened(lag) /\ holder' = r.browser
      /\ UNCHANGED <<status, jar, tokens>>
  BY PolicyNumbers DEF Replace, SessionInv, SessionsTyped, Session
<1>3. /\ row' \in SessionRow /\ row'.session = logins'
      /\ row'.generation \in Session /\ row'.generation <= logins'
      /\ row'.idle <= row'.absolute
      /\ row'.idle + row'.activity <= Idle
  BY <1>1, <1>2, OpenedTyped DEF SessionInv
<1>4. PICK c \in Cookie : /\ c.session = logins'
                          /\ replies' = replies \cup
                               {[browser |-> r.browser, cookie |-> c]}
                          /\ requests' = requests \ {r}
  <2> DEFINE c == [session |-> row'.session, generation |-> row'.generation]
  <2>1. c \in Cookie BY <1>3 DEF Cookie, SessionRow
  <2> QED BY <1>3, <2>1 DEF Replace, Answer
<1>5. [browser |-> r.browser, cookie |-> c] \in Reply BY <1>1, <1>4 DEF Reply
<1>6. logins' \in Session BY <1>2, PolicyNumbers DEF Session
<1>7. SessionsTyped'
  BY <1>1, <1>2, <1>3, <1>4, <1>5, <1>6 DEF SessionInv, SessionsTyped, SignedIn
<1>8. \A b \in Browser : MayKnow(b, jar[b])'
  <2> SUFFICES ASSUME NEW b \in Browser PROVE MayKnow(b, jar[b])' OBVIOUS
  <2>1. jar[b].session \in Nat /\ jar[b].session <= logins
    BY PolicyNumbers
       DEF SessionInv, SessionsTyped, HolderKnows, MayKnow, Cookie, Session
  <2> QED BY <1>2, <2>1 DEF MayKnow
<1>9. \A p \in replies' : MayKnow(p.browser, p.cookie)'
  <2> SUFFICES ASSUME NEW p \in replies' PROVE MayKnow(p.browser, p.cookie)' OBVIOUS
  <2>1. CASE p \in replies
    <3>1. p.cookie.session \in Nat /\ p.cookie.session <= logins
      BY <2>1, PolicyNumbers
         DEF SessionInv, SessionsTyped, HolderKnows, MayKnow, Reply, Cookie, Session
    <3> QED BY <1>2, <3>1 DEF MayKnow
  <2>2. CASE p = [browser |-> r.browser, cookie |-> c]
    BY <1>2, <1>4, <2>2 DEF MayKnow
  <2> QED BY <1>4, <2>1, <2>2
<1>10. \A q \in requests' : q.kind # "takeover" => MayKnow(q.browser, q)'
  <2> SUFFICES ASSUME NEW q \in requests', q.kind # "takeover"
               PROVE  MayKnow(q.browser, q)'
    OBVIOUS
  <2>1. q.session \in Nat /\ q.session <= logins
    BY <1>4, PolicyNumbers
       DEF SessionInv, SessionsTyped, HolderKnows, MayKnow, Request, Session
  <2> QED BY <1>2, <2>1 DEF MayKnow
<1>11. IdleFollowsActivity' BY <1>3 DEF IdleFollowsActivity
<1> QED BY <1>7, <1>8, <1>9, <1>10, <1>11 DEF SessionInv, HolderKnows

\* A transaction's lag is within what the model allows.
LEMMA LagBound ==
    ASSUME SessionInv, NEW r \in requests, NEW lag \in 0 .. r.age
    PROVE  lag \in 0 .. MaxLag
BY PolicyNumbers DEF SessionInv, SessionsTyped, Request

LEMMA LoginKeepsInv ==
    ASSUME SessionInv, NEW r \in requests, CommitLogin(r)
    PROVE  SessionInv'
<1> PICK lag \in 0 .. r.age : Resume(r, lag) \/ SignIn(r, lag) \/ Conflict(r, lag)
  BY DEF CommitLogin
<1>1. lag \in 0 .. MaxLag BY LagBound
<1>2. r.browser \in Browser /\ r.session \in Session /\ r.generation \in Session
      /\ MayKnow(r.browser, r)
  BY DEF SessionInv, SessionsTyped, HolderKnows, Request, CommitLogin
<1>3. CASE Resume(r, lag)
  <2>1. SignedIn /\ r.session = row.session /\ row' = Seen(lag)
    BY <1>3 DEF Resume, CookieOk, Names
  <2>2. /\ row' \in SessionRow /\ row'.session = row.session
        /\ row'.generation = row.generation /\ row'.idle <= row'.absolute
        /\ row'.idle > 0 => row'.idle + row'.activity <= Idle
    BY <1>1, <2>1, SeenTyped DEF SessionInv, SessionsTyped, IdleFollowsActivity
  <2> DEFINE c == [session |-> row'.session, generation |-> row'.generation]
  <2>3. c \in Cookie /\ c.session = r.session BY <2>1, <2>2 DEF Cookie, SessionRow
  <2>4. /\ requests' \subseteq requests
        /\ replies' = replies \cup {[browser |-> r.browser, cookie |-> c]}
        /\ UNCHANGED <<status, logins, holder, jar, tokens>>
    BY <1>3 DEF Resume, Answer
  <2> HIDE DEF c
  <2>5. MayKnow(r.browser, c) BY <1>2, <2>3 DEF MayKnow
  <2>6. [browser |-> r.browser, cookie |-> c] \in Reply BY <1>2, <2>3 DEF Reply
  <2>7. \A p \in replies' :
          p \in replies \/ (p \in Reply /\ MayKnow(p.browser, p.cookie))
    BY <2>4, <2>5, <2>6
  <2> QED BY <2>1, <2>2, <2>4, <2>7, SameSessionKeepsInv
<1>4. CASE SignIn(r, lag)
  BY <1>4, ReplaceKeepsInv DEF SignIn
<1>5. CASE Conflict(r, lag)
  <2> DEFINE new == [browser |-> r.browser, session |-> row.session,
                     generation |-> row.generation, age |-> 0]
  <2>1. new \in Token
    BY <1>2, PolicyNumbers DEF SessionInv, SessionsTyped, SessionRow, Token
  <2>2. /\ tokens' = {t \in tokens : t.browser # r.browser} \cup {new}
        /\ requests' \subseteq requests
        /\ UNCHANGED <<status, row, logins, holder, jar, replies>>
    BY <1>5 DEF Conflict
  <2> HIDE DEF new
  <2>3. SessionsTyped'
    BY <2>1, <2>2 DEF SessionInv, SessionsTyped, SignedIn
  <2>4. HolderKnows' BY <2>2 DEF SessionInv, HolderKnows, MayKnow
  <2>5. IdleFollowsActivity' BY <2>2 DEF SessionInv, IdleFollowsActivity
  <2> QED BY <2>3, <2>4, <2>5 DEF SessionInv
<1> QED BY <1>3, <1>4, <1>5

LEMMA LogoutKeepsInv ==
    ASSUME SessionInv, NEW r \in requests, CommitLogout(r)
    PROVE  SessionInv'
<1> DEFINE c == [session |-> NoRow.session, generation |-> NoRow.generation]
<1>1. c \in Cookie /\ c.session = 0
  BY PolicyNumbers DEF NoRow, Cookie, Session
<1>2. /\ requests' \subseteq requests
      /\ replies' = replies \cup {[browser |-> r.browser, cookie |-> c]}
      /\ UNCHANGED <<status, logins, holder, jar, tokens>>
      /\ row' = NoRow \/ row' = row
  BY DEF CommitLogout, Answer
<1> HIDE DEF c
<1>3. MayKnow(r.browser, c)
  BY <1>1 DEF MayKnow, SessionInv, SessionsTyped, Session
<1>4. [browser |-> r.browser, cookie |-> c] \in Reply
  BY <1>1 DEF Reply, SessionInv, SessionsTyped, Request
<1>5. \A p \in replies' :
        p \in replies \/ (p \in Reply /\ MayKnow(p.browser, p.cookie))
  BY <1>2, <1>3, <1>4
<1>6. status' \in {"active", "deactivated"} BY <1>2 DEF SessionInv, SessionsTyped
<1>7. CASE row' = NoRow
  BY <1>2, <1>5, <1>6, <1>7, NoSessionKeepsInv
<1>8. CASE row' = row
  BY <1>2, <1>5, <1>8, SameSessionKeepsInv
     DEF SessionInv, SessionsTyped, IdleFollowsActivity
<1> QED BY <1>2, <1>7, <1>8

LEMMA WriteKeepsInv ==
    ASSUME SessionInv, NEW r \in requests, CommitWrite(r) \/ CommitHeartbeat(r)
    PROVE  SessionInv'
<1>1. /\ SignedIn
      /\ requests' \subseteq requests
      /\ UNCHANGED <<status, logins, holder, jar, tokens, replies>>
  BY DEF CommitWrite, CommitHeartbeat, Names
<1>2. PICK lag \in 0 .. r.age : row' = Touched(lag) \/ row' = Seen(lag)
  BY DEF CommitWrite, CommitHeartbeat
<1>3. lag \in 0 .. MaxLag BY LagBound
<1>4. /\ row' \in SessionRow /\ row'.session = row.session
      /\ row'.generation = row.generation /\ row'.idle <= row'.absolute
      /\ row'.idle > 0 => row'.idle + row'.activity <= Idle
  BY <1>1, <1>2, <1>3, TouchedTyped, SeenTyped
     DEF SessionInv, SessionsTyped, IdleFollowsActivity
<1> QED BY <1>1, <1>4, SameSessionKeepsInv

LEMMA TickKeepsInv == SessionInv /\ Tick => SessionInv'
<1> SUFFICES ASSUME SessionInv, Tick PROVE SessionInv' OBVIOUS
<1>1. UNCHANGED <<status, logins, holder, jar, replies>> BY DEF Tick
<1>2. /\ row' \in SessionRow /\ row'.session = row.session
      /\ row'.generation = row.generation /\ row'.idle <= row'.absolute
      /\ ~ SignedIn => row' = row
  <2>1. CASE SignedIn BY <2>1, TickedTyped DEF Tick, SessionInv
  <2>2. CASE ~ SignedIn BY <2>2 DEF Tick, SessionInv, SessionsTyped
  <2> QED BY <2>1, <2>2
<1>3. requests' \subseteq Request
      /\ \A r \in requests' : r.kind # "takeover" => MayKnow(r.browser, r)
  <2> SUFFICES ASSUME NEW q \in requests'
               PROVE  /\ q \in Request
                      /\ q.kind # "takeover" => MayKnow(q.browser, q)
    OBVIOUS
  <2>1. PICK r \in requests : q = [r EXCEPT !.age = r.age + 1] BY DEF Tick, Older
  <2>2. /\ r \in Request /\ r.age < MaxLag
        /\ r.kind # "takeover" => MayKnow(r.browser, r)
    BY DEF Tick, SessionInv, SessionsTyped, HolderKnows
  <2>3. r.age + 1 \in 0 .. MaxLag BY <2>2, PolicyNumbers DEF Request
  <2>4. /\ q \in Request /\ q.kind = r.kind /\ q.browser = r.browser
        /\ q.session = r.session
    BY <2>1, <2>2, <2>3 DEF Request
  <2> QED BY <2>2, <2>4 DEF MayKnow
<1>4. tokens' \subseteq Token
  <2> SUFFICES ASSUME NEW q \in tokens' PROVE q \in Token OBVIOUS
  <2>1. PICK t \in tokens : t.age < TokenLife /\ q = [t EXCEPT !.age = t.age + 1]
    BY DEF Tick, Older
  <2>2. t \in Token BY DEF SessionInv, SessionsTyped
  <2>3. t.age + 1 \in 0 .. TokenLife BY <2>1, <2>2, PolicyNumbers DEF Token
  <2> QED BY <2>1, <2>2, <2>3 DEF Token
<1>5. SessionsTyped'
  BY <1>1, <1>2, <1>3, <1>4 DEF SessionInv, SessionsTyped, SignedIn
<1>6. HolderKnows'
  BY <1>1, <1>3 DEF SessionInv, HolderKnows, MayKnow
<1>7. IdleFollowsActivity'
  <2>1. CASE SignedIn
    BY <2>1, TickedTyped DEF Tick, SessionInv, IdleFollowsActivity
  <2>2. CASE ~ SignedIn BY <1>2, <2>2 DEF SessionInv, IdleFollowsActivity
  <2> QED BY <2>1, <2>2
<1> QED BY <1>5, <1>6, <1>7 DEF SessionInv

LEMMA NextInv == SessionInv /\ [Next]_vars => SessionInv'
<1> SUFFICES ASSUME SessionInv, [Next]_vars PROVE SessionInv' OBVIOUS
<1>1. ASSUME NEW b \in Browser,
             SendLogin(b) \/ SendLogout(b) \/ SendWrite(b) \/ SendHeartbeat(b)
      PROVE  SessionInv'
  BY <1>1, BrowserKeepsInv
<1>2. ASSUME NEW t \in tokens, SendTakeover(t) PROVE SessionInv'
  BY <1>2, SendTakeoverKeepsInv
<1>3. ASSUME NEW p \in replies, Deliver(p) \/ Lose(p) PROVE SessionInv'
  BY <1>3, ReplyKeepsInv
<1>4. ASSUME NEW r \in requests, Commit(r) PROVE SessionInv'
  <2>1. CASE CommitLogin(r) BY <2>1, LoginKeepsInv
  <2>2. CASE CommitTakeover(r)
    BY <2>2, ReplaceKeepsInv DEF CommitTakeover
  <2>3. CASE CommitLogout(r) BY <2>3, LogoutKeepsInv
  <2>4. CASE CommitWrite(r) \/ CommitHeartbeat(r) BY <2>4, WriteKeepsInv
  <2> QED BY <1>4, <2>1, <2>2, <2>3, <2>4 DEF Commit
<1>5. ASSUME NEW r \in requests, Fail(r) PROVE SessionInv'
  BY <1>5, SameSessionKeepsInv
     DEF Fail, SessionInv, SessionsTyped, IdleFollowsActivity
<1>6. CASE Deactivate
  BY <1>6, NoSessionKeepsInv DEF Deactivate
<1>7. CASE Tick BY <1>7, TickKeepsInv
<1>8. CASE UNCHANGED vars
  BY <1>8, SameSessionKeepsInv
     DEF vars, SessionInv, SessionsTyped, IdleFollowsActivity
<1> QED BY <1>1, <1>2, <1>3, <1>4, <1>5, <1>6, <1>7, <1>8 DEF Next

-----------------------------------------------------------------------------
(* Theorems                                                                *)

\* Every reachable state is well typed, and only the last login's browser
\* knows the last login's session.
THEOREM SessionInvHolds == Spec => []SessionInv
BY InitInv, NextInv, PTL DEF Spec

\* The type invariant the runs check (SessionsTyped).
THEOREM SessionsTypeCorrect == Spec => []SessionsTyped
<1>1. SessionInv => SessionsTyped BY DEF SessionInv
<1> QED BY <1>1, SessionInvHolds, PTL

\* The idle deadline never runs ahead of the user's activity.
THEOREM IdleFollowsActivityHolds == Spec => []IdleFollowsActivity
<1>1. SessionInv => IdleFollowsActivity BY DEF SessionInv
<1> QED BY <1>1, SessionInvHolds, PTL

\* A write that takes effect is the last login's browser's: a request that was
\* overtaken by a takeover, a logout or a deactivation stores nothing.
THEOREM OnlyTheHolderWritesHolds == Spec => OnlyTheHolderWrites
<1>1. SessionInv /\ [Next]_vars =>
        [\A r \in requests :
           CommitWrite(r) => r.browser = holder /\ status = "active"]_vars
  <2> SUFFICES ASSUME SessionInv, NEW r \in requests, CommitWrite(r)
               PROVE  r.browser = holder /\ status = "active"
    OBVIOUS
  <2>1. r.kind # "takeover" /\ status = "active" /\ SignedIn
        /\ r.session = row.session
    BY DEF CommitWrite, Names
  <2>2. MayKnow(r.browser, r) BY <2>1 DEF SessionInv, HolderKnows
  <2>3. row.session = logins /\ logins # NoSession
    BY <2>1 DEF SignedIn, SessionInv, SessionsTyped
  <2> QED BY <2>1, <2>2, <2>3 DEF MayKnow
<1> QED BY <1>1, SessionInvHolds, PTL DEF Spec, OnlyTheHolderWrites

\* What every step but a login, a takeover, a logout or the deactivation leaves
\* of the session.
LEMMA SessionStays ==
    ASSUME SessionInv, SignedIn, [Next]_vars,
           \A r \in requests :
             ~ CommitLogin(r) /\ ~ CommitTakeover(r) /\ ~ CommitLogout(r),
           ~ Deactivate
    PROVE  row'.session = row.session
<1> row \in SessionRow BY DEF SessionInv, SessionsTyped
<1>1. ASSUME NEW b \in Browser,
             SendLogin(b) \/ SendLogout(b) \/ SendWrite(b) \/ SendHeartbeat(b)
      PROVE  row' = row
  BY <1>1 DEF SendLogin, SendLogout, SendWrite, SendHeartbeat, Send, Issue
<1>2. ASSUME NEW t \in tokens, SendTakeover(t) PROVE row' = row
  BY <1>2 DEF SendTakeover, Issue
<1>3. ASSUME NEW p \in replies, Deliver(p) \/ Lose(p) PROVE row' = row
  BY <1>3 DEF Deliver, Lose
<1>4. ASSUME NEW r \in requests, Fail(r) PROVE row' = row
  BY <1>4 DEF Fail
<1>5. ASSUME NEW r \in requests, CommitWrite(r) \/ CommitHeartbeat(r)
      PROVE  row'.session = row.session
  <2>1. PICK lag \in 0 .. r.age : row' = Touched(lag) \/ row' = Seen(lag)
    BY <1>5 DEF CommitWrite, CommitHeartbeat
  <2>2. lag \in 0 .. MaxLag BY LagBound
  <2> QED BY <2>1, <2>2, TouchedTyped, SeenTyped DEF SessionInv
<1>6. CASE Tick BY <1>6, TickedTyped DEF Tick, SessionInv
<1>7. CASE UNCHANGED vars BY <1>7 DEF vars
<1> QED BY <1>1, <1>2, <1>3, <1>4, <1>5, <1>6, <1>7 DEF Next, Commit

\* A session in use ends only by its own browser's logout, a takeover confirmed
\* against it, or the deactivation.
THEOREM EndedForCauseHolds == Spec => EndedForCause
<1> DEFINE Caused ==
      SignedIn /\ Unexpired(0) /\ ~ Stale(0) /\ row'.session # row.session =>
        \/ status' # status
        \/ \E r \in requests \ requests' :
             \/ r.kind = "logout" /\ r.browser = holder
             \/ r.kind = "takeover" /\ r.session = row.session
<1>1. SessionInv /\ [Next]_vars => [Caused]_vars
  <2> SUFFICES ASSUME SessionInv, [Next]_vars, SignedIn, Unexpired(0), ~ Stale(0),
                      row'.session # row.session
               PROVE  \/ status' # status
                      \/ \E r \in requests \ requests' :
                           \/ r.kind = "logout" /\ r.browser = holder
                           \/ r.kind = "takeover" /\ r.session = row.session
    OBVIOUS
  <2>1. row \in SessionRow BY DEF SessionInv, SessionsTyped
  <2>2. ASSUME NEW r \in requests, CommitLogin(r) PROVE FALSE
    <3>1. PICK lag \in 0 .. r.age :
            Resume(r, lag) \/ SignIn(r, lag) \/ Conflict(r, lag)
      BY <2>2 DEF CommitLogin
    <3>2. lag \in 0 .. MaxLag BY LagBound
    <3>3. CASE Resume(r, lag)
      BY <3>2, <3>3, SeenTyped DEF Resume, SessionInv
    <3>4. CASE SignIn(r, lag)
      BY <2>1, <3>2, <3>4, PolicyNumbers
         DEF SignIn, Vacant, Unexpired, IdleOver, AbsoluteOver, Stale, SessionRow
    <3>5. CASE Conflict(r, lag) BY <3>5 DEF Conflict
    <3> QED BY <3>1, <3>3, <3>4, <3>5
  <2>3. ASSUME NEW r \in requests, CommitTakeover(r)
        PROVE  /\ r \in requests \ requests'
               /\ r.kind = "takeover" /\ r.session = row.session
    BY <2>3 DEF CommitTakeover, Replace, Answer, Names
  <2>4. ASSUME NEW r \in requests, CommitLogout(r)
        PROVE  /\ r \in requests \ requests'
               /\ r.kind = "logout" /\ r.browser = holder
    <3>1. r.kind = "logout" /\ r \in requests \ requests' /\ Names(r)
      BY <2>4 DEF CommitLogout, Answer, LogsOut
    <3>2. MayKnow(r.browser, r) BY <3>1 DEF SessionInv, HolderKnows
    <3>3. r.session = logins /\ logins # NoSession
      BY <3>1 DEF Names, SignedIn, SessionInv, SessionsTyped
    <3> QED BY <3>1, <3>2, <3>3 DEF MayKnow
  <2>5. CASE Deactivate BY <2>5 DEF Deactivate
  <2> QED BY <2>2, <2>3, <2>4, <2>5, SessionStays
<1>2. Spec => [][Caused]_vars
  BY <1>1, SessionInvHolds, PTL DEF Spec
<1> QED BY <1>2 DEF EndedForCause

\* The absolute deadline is final, whatever still commits after it.
THEOREM AbsoluteIsFinalHolds == Spec => AbsoluteIsFinal
<1> DEFINE Over == SignedIn /\ row.absolute <= 0 /\ row'.session = row.session
                     => row'.idle <= 0
<1>1. SessionInv /\ SessionInv' /\ [Next]_vars => [Over]_vars
  <2> SUFFICES ASSUME SessionInv, SessionInv', [Next]_vars, SignedIn,
                      row.absolute <= 0, row'.session = row.session
               PROVE  row'.idle <= 0
    OBVIOUS
  <2>1. row \in SessionRow /\ row.idle <= row.absolute /\ row.idle <= 0
        /\ row.session = logins /\ logins \in Nat
    BY PolicyNumbers
       DEF SessionInv, SessionsTyped, SignedIn, SessionRow, Session
  <2>2. ASSUME NEW r \in requests, NEW lag \in 0 .. r.age, Replace(r, lag)
        PROVE  FALSE
    <3>1. lag \in 0 .. MaxLag BY LagBound
    <3>2. row'.session = logins + 1
      BY <2>2, <3>1, OpenedTyped DEF Replace, SessionInv
    <3> QED BY <2>1, <3>2
  <2>3. ASSUME NEW r \in requests, CommitLogin(r) PROVE row'.idle <= 0
    <3>1. PICK lag \in 0 .. r.age :
            Resume(r, lag) \/ SignIn(r, lag) \/ Conflict(r, lag)
      BY <2>3 DEF CommitLogin
    <3>2. lag \in 0 .. MaxLag BY LagBound
    <3> QED BY <2>1, <2>2, <3>1, <3>2, SeenTyped
            DEF Resume, SignIn, Conflict, SessionInv
  <2>4. ASSUME NEW r \in requests, CommitTakeover(r) PROVE row'.idle <= 0
    BY <2>2, <2>4 DEF CommitTakeover
  <2>5. ASSUME NEW r \in requests, CommitLogout(r) PROVE row'.idle <= 0
    BY <2>1, <2>5 DEF CommitLogout, NoRow
  <2>6. ASSUME NEW r \in requests, CommitWrite(r) \/ CommitHeartbeat(r)
        PROVE  row'.idle <= 0
    <3>1. PICK lag \in 0 .. r.age : row' = Touched(lag) \/ row' = Seen(lag)
      BY <2>6 DEF CommitWrite, CommitHeartbeat
    <3>2. lag \in 0 .. MaxLag BY LagBound
    <3>3. CASE row' = Touched(lag)
      <4>1. row'.idle <= row.absolute /\ row' \in SessionRow
        BY <3>2, <3>3, TouchedTyped DEF SessionInv
      <4> QED BY <2>1, <4>1, PolicyNumbers DEF SessionRow
    <3>4. CASE row' = Seen(lag)
      BY <2>1, <3>2, <3>4, SeenTyped DEF SessionInv
    <3> QED BY <3>1, <3>3, <3>4
  <2>7. CASE Tick
    <3>1. row'.idle = Left(row.idle) BY <2>7, TickedTyped DEF Tick, SessionInv
    <3> QED BY <2>1, <3>1, PolicyNumbers DEF Left, SessionRow
  <2>8. CASE Deactivate BY <2>8 DEF Deactivate, NoRow
  <2>9. CASE row' = row BY <2>1, <2>9
  <2>10. \/ \E r \in requests : \/ CommitLogin(r) \/ CommitTakeover(r)
                                \/ CommitLogout(r) \/ CommitWrite(r)
                                \/ CommitHeartbeat(r)
         \/ Tick \/ Deactivate \/ row' = row
    BY DEF Next, vars, Commit, SendLogin, SendLogout, SendWrite, SendHeartbeat,
           SendTakeover, Send, Issue, Deliver, Lose, Fail
  <2> QED BY <2>3, <2>4, <2>5, <2>6, <2>7, <2>8, <2>9, <2>10
<1>2. Spec => [][Over]_vars
  BY <1>1, SessionInvHolds, PTL DEF Spec
<1> QED BY <1>2 DEF AbsoluteIsFinal

=============================================================================
