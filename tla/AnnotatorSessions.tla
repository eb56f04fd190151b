-------------------------- MODULE AnnotatorSessions --------------------------
(***************************************************************************)
(* The web session of one annotator name: the row of active_sessions, the  *)
(* browsers that sign in under the name, and the requests they have under  *)
(* way.  Names do not share state, so one is enough.                       *)
(*                                                                         *)
(* A request is answered in steps: login_required looks at the session     *)
(* without a lock, the transaction follows later, and the cookie reaches   *)
(* the browser later still or never.  now() is the start of a transaction, *)
(* which may have waited for a lock, so every commit judges the deadlines  *)
(* as they were some ticks ago: its lag.  The row keeps the time left to   *)
(* its deadlines and the time since its events rather than clock readings. *)
(***************************************************************************)
EXTENDS Integers, FiniteSets

CONSTANTS
    Browser,      \* whoever signs in under the name; each has one cookie jar
    Idle,         \* policy.idle_seconds, in ticks of the clock, as all below
    Absolute,     \* policy.absolute_seconds
    Lease,        \* policy.presence_lease_seconds
    Throttle,     \* policy.activity_throttle_seconds
    TokenLife,    \* policy.takeover_token_seconds
    MaxLag,       \* the longest a request takes from its check to its commit
    MaxLogins,    \* bound: how many sessions are ever created
    MaxInFlight   \* bound: requests and answers under way at a time

ASSUME PolicyAssumption ==
    /\ {Idle, Absolute, Lease, TokenLife, MaxLag} \subseteq Nat \ {0}
    /\ {Throttle, MaxLogins, MaxInFlight} \subseteq Nat

VARIABLES
    status,    \* annotators.status of the name
    row,       \* its row of active_sessions
    logins,    \* how many sessions were created: session n is the nth login's
    holder,    \* history: the browser the last login or takeover was answered to
    jar,       \* the signed cookie each browser holds
    tokens,    \* takeover confirmations that the login pages still show
    requests,  \* requests under way, checked but not committed
    replies    \* answers under way that will set or clear a cookie

vars == <<status, row, logins, holder, jar, tokens, requests, replies>>

NoSession == 0
Session == 0 .. MaxLogins
Kind == {"login", "takeover", "logout", "write", "activity", "presence"}

Cookie == [session : Session, generation : Session]
Token == [browser : Browser, session : Session, generation : Session,
          age : 0 .. TokenLife]
Request == [kind : Kind, browser : Browser, session : Session,
            generation : Session, age : 0 .. MaxLag]
Reply == [browser : Browser, cookie : Cookie]
SessionRow == [session : Session, generation : Session,
               idle : -MaxLag .. Idle, absolute : -MaxLag .. Absolute,
               seen : 0 .. Lease + MaxLag, activity : 0 .. Throttle + Idle + MaxLag]

NoCookie == [session |-> NoSession, generation |-> 0]
NoRow == [session |-> NoSession, generation |-> 0,
          idle |-> 0, absolute |-> 0, seen |-> 0, activity |-> 0]

SignedIn == row.session # NoSession

-----------------------------------------------------------------------------
(* The row, as a transaction that started "lag" ticks ago reads it         *)

Least(m, n) == IF m <= n THEN m ELSE n

IdleOver(lag) == row.idle + lag <= 0
AbsoluteOver(lag) == row.absolute + lag <= 0
Unexpired(lag) == ~ IdleOver(lag) /\ ~ AbsoluteOver(lag)

\* Nobody has been seen for a whole presence lease.
Stale(lag) == row.seen - lag >= Lease

ForgotSessionId(c) == SignedIn /\ c.generation = row.generation

\* The cookie, fence or token "c" is about the session in the row.
Names(c) ==
    /\ SignedIn
    /\ c.session = row.session
    /\ c.generation = row.generation

\* _replace_active_session: the nth login's session, with new deadlines.
Opened(lag) ==
    [session |-> logins + 1, generation |-> row.generation + 1,
     idle |-> Least(Idle, Absolute) - lag, absolute |-> Absolute - lag,
     seen |-> lag, activity |-> lag]

SeenIsActivity(lag) ==
    [row EXCEPT !.seen = lag, !.idle = Least(Idle - lag, row.absolute)]

\* The browser is there: says nothing of its user.
Seen(lag) == [row EXCEPT !.seen = lag]

SlidingDeadline(lag) ==
    [row EXCEPT !.seen = lag, !.activity = lag,
                !.idle = Idle - lag, !.absolute = Absolute - lag]
UncappedDeadline(lag) ==
    [row EXCEPT !.seen = lag, !.activity = lag, !.idle = Idle - lag]

\* The user is there: the idle deadline moves, never past the absolute one.
Touched(lag) ==
    [row EXCEPT !.seen = lag, !.activity = lag,
                !.idle = Least(Idle - lag, row.absolute)]

\* An activity heartbeat counts once per throttle interval.
Throttled(lag) == row.activity - lag <= Throttle

-----------------------------------------------------------------------------
Init ==
    /\ status = "active"
    /\ row = NoRow
    /\ logins = 0
    /\ holder \in Browser
    /\ jar = [b \in Browser |-> NoCookie]
    /\ tokens = {}
    /\ requests = {}
    /\ replies = {}

-----------------------------------------------------------------------------
(* Browsers                                                                *)

Issue(kind, b, c) ==
    /\ Cardinality(requests) + Cardinality(replies) < MaxInFlight
    /\ requests' = requests \cup
         {[kind |-> kind, browser |-> b, session |-> c.session,
           generation |-> c.generation, age |-> 0]}
    /\ UNCHANGED <<status, row, logins, holder, jar, tokens, replies>>

\* POST /api/login and POST /api/logout carry whatever cookie the browser has.
SendLogin(b) == Issue("login", b, jar[b])

SendLogout(b) == jar[b] # NoCookie /\ Issue("logout", b, jar[b])

\* The login page's "continue here": it may be sent more than once.
SendTakeover(t) == Issue("takeover", t.browser, t)

\* login_required lets a request pass and hands it the fence it read.
Send(kind, b) ==
    /\ status = "active"
    /\ Names(jar[b])
    /\ Unexpired(0)
    /\ Issue(kind, b, row)

SendWrite(b) == Send("write", b)
SendHeartbeat(b) == \E kind \in {"activity", "presence"} : Send(kind, b)

\* The Set-Cookie of an answer takes effect, or the answer is lost.
Deliver(p) ==
    /\ jar' = [jar EXCEPT ![p.browser] = p.cookie]
    /\ replies' = replies \ {p}
    /\ UNCHANGED <<status, row, logins, holder, tokens, requests>>

Lose(p) ==
    /\ replies' = replies \ {p}
    /\ UNCHANGED <<status, row, logins, holder, jar, tokens, requests>>

-----------------------------------------------------------------------------
(* Transactions                                                            *)

Answer(r, newRow) ==
    /\ requests' = requests \ {r}
    /\ replies' = replies \cup
         {[browser |-> r.browser, cookie |-> [session |-> newRow.session,
                                              generation |-> newRow.generation]]}

\* A new session for r's browser, whatever session there was.
Replace(r, lag) ==
    /\ logins < MaxLogins
    /\ logins' = logins + 1
    /\ row' = Opened(lag)
    /\ holder' = r.browser
    /\ Answer(r, row')
    /\ UNCHANGED <<status, jar, tokens>>

CookieOk(r, lag) == Names(r) /\ Unexpired(lag)

Resume(r, lag) ==
    /\ CookieOk(r, lag)
    /\ row' = Seen(lag)
    /\ Answer(r, row')
    /\ UNCHANGED <<status, logins, holder, jar, tokens>>

\* Nobody holds the name any more: no session, an expired or a stale one.
Vacant(lag) == SignedIn => ~ Unexpired(lag) \/ Stale(lag)

SignIn(r, lag) ==
    /\ ~ CookieOk(r, lag)
    /\ Vacant(lag)
    /\ Replace(r, lag)

\* ActiveSessionConflict: the page is given a token for the session it met.
Conflict(r, lag) ==
    /\ ~ CookieOk(r, lag)
    /\ ~ Vacant(lag)
    /\ requests' = requests \ {r}
    /\ tokens' = {t \in tokens : t.browser # r.browser} \cup
         {[browser |-> r.browser, session |-> row.session,
           generation |-> row.generation, age |-> 0]}
    /\ UNCHANGED <<status, row, logins, holder, jar, replies>>

CommitLogin(r) ==
    /\ r.kind = "login"
    /\ status = "active"
    /\ \E lag \in 0 .. r.age :
         Resume(r, lag) \/ SignIn(r, lag) \/ Conflict(r, lag)

CommitTakeover(r) ==
    /\ r.kind = "takeover"
    /\ status = "active"
    /\ Names(r)
    /\ \E lag \in 0 .. r.age : Replace(r, lag)

LogsOutAnyone(r) == SignedIn

\* The DELETE's WHERE: only the session the cookie is about.
LogsOut(r) == Names(r)

CommitLogout(r) ==
    /\ r.kind = "logout"
    /\ row' = IF LogsOut(r) THEN NoRow ELSE row
    /\ Answer(r, NoRow)
    /\ UNCHANGED <<status, logins, holder, jar, tokens>>

\* claim, save_draft, complete, abandon, reopen_completed, submit_cross_check:
\* the annotator is locked, the fence checked, the work done, the row touched.
CommitWrite(r) ==
    /\ r.kind = "write"
    /\ status = "active"
    /\ Names(r)
    /\ \E lag \in 0 .. r.age : Unexpired(lag) /\ row' = Touched(lag)
    /\ requests' = requests \ {r}
    /\ UNCHANGED <<status, logins, holder, jar, tokens, replies>>

\* session_heartbeat locks nothing but the row, and asks no annotator status.
CommitHeartbeat(r) ==
    /\ r.kind \in {"activity", "presence"}
    /\ Names(r)
    /\ \E lag \in 0 .. r.age :
         /\ Unexpired(lag)
         /\ row' = IF r.kind = "activity" /\ ~ Throttled(lag)
                   THEN Touched(lag) ELSE Seen(lag)
    /\ requests' = requests \ {r}
    /\ UNCHANGED <<status, logins, holder, jar, tokens, replies>>

\* A request is refused, or fails for reasons of its own: nothing is stored.
Fail(r) ==
    /\ requests' = requests \ {r}
    /\ UNCHANGED <<status, row, logins, holder, jar, tokens, replies>>

Commit(r) ==
    \/ CommitLogin(r)
    \/ CommitTakeover(r)
    \/ CommitLogout(r)
    \/ CommitWrite(r)
    \/ CommitHeartbeat(r)

\* The part of admin_deactivate that ends the session.
Deactivate ==
    /\ status = "active"
    /\ status' = "deactivated"
    /\ row' = NoRow
    /\ UNCHANGED <<logins, holder, jar, tokens, requests, replies>>

-----------------------------------------------------------------------------
(* Time: counters stop where nothing can tell the difference any more       *)

Left(n) == IF n > -MaxLag THEN n - 1 ELSE n
Since(n, limit) == IF n < limit + MaxLag THEN n + 1 ELSE n

Older(S) == {[x EXCEPT !.age = x.age + 1] : x \in S}

Tick ==
    /\ \A r \in requests : r.age < MaxLag
    /\ requests' = Older(requests)
    /\ tokens' = Older({t \in tokens : t.age < TokenLife})
    /\ row' = IF SignedIn
              THEN [row EXCEPT !.idle = Left(row.idle),
                               !.absolute = Left(row.absolute),
                               !.seen = Since(row.seen, Lease),
                               !.activity = Since(row.activity, Throttle + Idle)]
              ELSE row
    /\ UNCHANGED <<status, logins, holder, jar, replies>>

-----------------------------------------------------------------------------
Next ==
    \/ \E b \in Browser : \/ SendLogin(b)
                          \/ SendLogout(b)
                          \/ SendWrite(b)
                          \/ SendHeartbeat(b)
    \/ \E t \in tokens : SendTakeover(t)
    \/ \E p \in replies : Deliver(p) \/ Lose(p)
    \/ \E r \in requests : Commit(r) \/ Fail(r)
    \/ Deactivate
    \/ Tick

Spec == Init /\ [][Next]_vars

\* A request ends: no handler waits for anything but a free connection, which
\* db.POOL_TIMEOUT limits, and locks that other such requests hold.  Its user
\* need never send another, nor need an answer arrive.
EndLate == \E r \in requests : r.age = MaxLag /\ (Commit(r) \/ Fail(r))

\* Time passes and requests end; nothing is asked of people or networks.
FairSpec == Spec /\ WF_vars(Tick) /\ WF_vars(EndLate)

=============================================================================
