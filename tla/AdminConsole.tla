------------------------------ MODULE AdminConsole ------------------------------
(***************************************************************************)
(* The administrator's console and the server side of its writes: forms    *)
(* that withdraw an annotation, deactivate an annotator or set a claim     *)
(* scope; a network that loses requests and answers; the administrator's   *)
(* session rows; the log of operations that makes a retry harmless.        *)
(*                                                                         *)
(* One browser with the console in one tab; another tab of the browser     *)
(* shares its cookies.  A request goes through the server in the steps     *)
(* between which others can run: it is sent, its session is looked up and  *)
(* touched, its transaction begins (now() is fixed there), the transaction *)
(* takes effect under the advisory lock of its operation id, a refusal is  *)
(* recorded in a transaction of its own, the answer travels back.          *)
(***************************************************************************)
EXTENDS Naturals, FiniteSets, FiniteSetsExt

CONSTANTS
    Annotator,    \* the annotators the console lists
    None,         \* no session, no form
    Idle,         \* ADMIN_SESSION_IDLE_SECONDS, in ticks
    Absolute,     \* ADMIN_SESSION_ABSOLUTE_SECONDS, in ticks
    MaxTime,      \* bound: ticks of the clock
    MaxSessions,  \* bound: sessions signed in
    MaxForms,     \* bound: forms opened
    MaxRequests,  \* bound: forms submitted
    MaxVersion    \* bound: versions an annotator publishes, revisions of a scope

ASSUME LifetimesAssumption ==
    /\ {Idle, Absolute} \subseteq Nat \ {0}
    /\ {MaxTime, MaxSessions, MaxForms, MaxRequests, MaxVersion} \subseteq Nat

VARIABLES
    now,        \* the clock
    session,    \* admin_sessions
    cookie,     \* the session named by the browser's cookies
    page,       \* the console's memory
    signIn,     \* the sign-in under way
    request,    \* the writes submitted, as far as they have got
    person,     \* annotators: status, published work and claim scope
    applied     \* admin_actions: the completed rows and what they did

vars == <<now, session, cookie, page, signIn, request, person, applied>>

Session == 1 .. MaxSessions
Form == 1 .. MaxForms
Slot == 1 .. MaxRequests
Version == 0 .. MaxVersion

NoSession == [made |-> FALSE, revoked |-> FALSE, idle |-> 0, absolute |-> 0]
NoRequest == [stage |-> "none", answer |-> "none"]
Gone == [stage |-> "gone", answer |-> "none"]
Signed(s) == session[s].made

-----------------------------------------------------------------------------
\* Sessions.

\* Where a sign-in or a touch puts the idle deadline.
IdleDeadline(at, absolute) == Min({at + Idle, absolute})

LiveAt(s, at) ==
    /\ Signed(s) /\ ~ session[s].revoked
    /\ session[s].idle > at /\ session[s].absolute > at

Fresh(at) == [made |-> TRUE, revoked |-> FALSE, absolute |-> at + Absolute,
              idle |-> IdleDeadline(at, at + Absolute)]

\* revoke_admin_session of the session a cookie names, if it names one.
WithoutSession(s) == IF s = None THEN session ELSE [session EXCEPT ![s].revoked = TRUE]

SignedOutPage == [page EXCEPT !.view = "login", !.csrf = None, !.form = None]

\* The key is accepted: the old session ends in one transaction ...
SignInBegins ==
    /\ page.view = "login" /\ signIn = "no"
    /\ \E s \in Session : ~ Signed(s)
    /\ session' = WithoutSession(cookie)
    /\ signIn' = "revoked"
    /\ UNCHANGED <<now, cookie, page, request, person, applied>>

\* ... and the new one begins in the next.  The cookies arrive with the answer,
\* or the answer is lost and the new session stays with nobody.
SignInEnds ==
    /\ signIn = "revoked" /\ signIn' = "no"
    /\ \E s \in Session :
        /\ ~ Signed(s) /\ \A t \in 1 .. s - 1 : Signed(t)
        /\ session' = [session EXCEPT ![s] = Fresh(now)]
        /\ \/ cookie' = s /\ page' = [page EXCEPT !.view = "app", !.csrf = s]
           \/ UNCHANGED <<cookie, page>>
    /\ UNCHANGED <<now, request, person, applied>>

\* The server fails between the two, or before.
SignInFails ==
    /\ signIn = "revoked" /\ signIn' = "no"
    /\ UNCHANGED <<now, session, cookie, page, request, person, applied>>

\* Another tab signs in: the cookies change under this one, whose CSRF token stays.
OtherTabSignsIn ==
    /\ page.view = "app"
    /\ \E s \in Session :
        /\ ~ Signed(s) /\ \A t \in 1 .. s - 1 : Signed(t)
        /\ session' = [WithoutSession(cookie) EXCEPT ![s] = Fresh(now)]
        /\ cookie' = s
    /\ UNCHANGED <<now, page, signIn, request, person, applied>>

\* The console goes to its login view whatever the answer was; the session ends,
\* and the cookies go, only as far as the request and its answer got.
SignOut ==
    /\ page.view = "app" /\ page' = SignedOutPage
    /\ \/ /\ cookie # None /\ LiveAt(cookie, now) /\ page.csrf = cookie
          /\ session' = WithoutSession(cookie)
          /\ cookie' \in {None, cookie}
       \/ UNCHANGED <<session, cookie>>
    /\ UNCHANGED <<now, signIn, request, person, applied>>

\* The page is loaded again: GET /api/admin/session says whether the cookies are
\* good.  Answers to what it had sent have nowhere to go.
Reload ==
    /\ signIn = "no"
    /\ IF cookie # None /\ LiveAt(cookie, now)
       THEN /\ page' = [page EXCEPT !.view = "app", !.csrf = cookie, !.form = None]
            /\ session' = [session EXCEPT ![cookie].idle =
                               IdleDeadline(now, session[cookie].absolute)]
       ELSE page' = SignedOutPage /\ UNCHANGED session
    /\ request' = [n \in Slot |->
           CASE request[n].stage \in {"none", "gone"} -> request[n]
             [] request[n].stage = "answered"        -> Gone
             [] OTHER -> [request[n] EXCEPT !.answer = "deaf"]]
    /\ UNCHANGED <<now, cookie, signIn, person, applied>>

-----------------------------------------------------------------------------
\* The console's forms.  A dialog draws its operation id when it opens; the scope
\* editor draws one for each submission and relies on the revision it was loaded with.

OpenForm(kind, a, expected, ready) ==
    /\ page.view = "app" /\ page.form = None /\ page.opened < MaxForms
    /\ page' = [page EXCEPT !.opened = @ + 1,
           !.form = [id |-> page.opened + 1, kind |-> kind, whom |-> a,
                     expected |-> expected, ready |-> ready, busy |-> FALSE]]
    /\ UNCHANGED <<now, session, cookie, signIn, request, person, applied>>

\* The console opens a form on rows it has loaded; they may change from then on.
OpenRevoke(a) ==
    person[a].published # 0 /\ OpenForm("revoke", a, person[a].published, FALSE)

OpenDeactivate(a) ==
    person[a].active /\ OpenForm("deactivate", a, person[a].published, FALSE)

\* The scope editor is bound to the revision that came with the annotator's page.
OpenScope(a) == OpenForm("scope", a, person[a].scope, TRUE)

\* The preview's answer; one with conflicts leaves the button disabled.
PreviewRevoke ==
    /\ page.form # None /\ page.form.kind = "revoke" /\ ~ page.form.ready
    /\ page.form.expected = person[page.form.whom].published
    /\ page' = [page EXCEPT !.form.ready = TRUE]
    /\ UNCHANGED <<now, session, cookie, signIn, request, person, applied>>

PreviewDeactivate ==
    /\ page.form # None /\ page.form.kind = "deactivate" /\ ~ page.form.ready
    /\ page' = [page EXCEPT !.form.ready = TRUE]
    /\ UNCHANGED <<now, session, cookie, signIn, request, person, applied>>

Cancel ==
    /\ page.form # None /\ page' = [page EXCEPT !.form = None]
    /\ UNCHANGED <<now, session, cookie, signIn, request, person, applied>>

Send(n, op, reason) ==
    LET f == page.form IN
    /\ request[n].stage = "none" /\ \A m \in 1 .. n - 1 : request[m].stage # "none"
    /\ request' = [request EXCEPT ![n] =
           [stage |-> "sent", answer |-> "none", op |-> op, kind |-> f.kind,
            whom |-> f.whom, expected |-> f.expected, reason |-> reason,
            cookie |-> cookie, csrf |-> page.csrf, at |-> 0]]
    /\ page' = [page EXCEPT !.form.busy = TRUE]
    /\ UNCHANGED <<now, session, cookie, signIn, person, applied>>

\* A dialog's button is disabled while it waits for an answer until a keystroke in the
\* form enables it again, maybe with another reason: busy does not hold it back.
SubmitRevoke(n, reason) ==
    /\ page.form # None /\ page.form.kind = "revoke" /\ page.form.ready
    /\ Send(n, <<page.form.id, 0>>, reason)

SubmitDeactivate(n, reason) ==
    /\ page.form # None /\ page.form.kind = "deactivate" /\ page.form.ready
    /\ Send(n, <<page.form.id, 0>>, reason)

\* The scope editor stays shut until the answer is there.
SubmitScope(n, reason) ==
    /\ page.form # None /\ page.form.kind = "scope" /\ ~ page.form.busy
    /\ Send(n, <<page.form.id, n>>, reason)

-----------------------------------------------------------------------------
\* The server.

\* The answer goes out, if somebody is left to hear it.
Answered(n, answer) ==
    request' = [request EXCEPT ![n] = IF @.answer = "deaf" THEN Gone
                    ELSE [@ EXCEPT !.stage = "answered", !.answer = answer, !.at = 0]]

\* admin_required and admin_write_required: the session is found live and touched,
\* then the CSRF token of the request is compared with the session's.
Admit(n) ==
    LET s == request[n].cookie IN
    /\ request[n].stage = "sent"
    /\ IF s = None \/ ~ LiveAt(s, now)
       THEN Answered(n, "signed out") /\ UNCHANGED session
       ELSE /\ session' = [session EXCEPT ![s].idle = IdleDeadline(now, session[s].absolute)]
            /\ IF request[n].csrf = s
               THEN request' = [request EXCEPT ![n].stage = "admitted"]
               ELSE Answered(n, "csrf")
    /\ UNCHANGED <<now, cookie, page, signIn, person, applied>>

\* The key, or the name, typed for a deactivation is not right.
Mistyped(n) ==
    /\ request[n].stage = "admitted" /\ request[n].kind = "deactivate"
    /\ request' = [request EXCEPT ![n].stage = "refused"]
    /\ UNCHANGED <<now, session, cookie, page, signIn, person, applied>>

Begin(n) ==
    /\ request[n].stage = "admitted"
    /\ request' = [request EXCEPT ![n].stage = "begun", ![n].at = now]
    /\ UNCHANGED <<now, session, cookie, page, signIn, person, applied>>

ForgotPrior(r) == {}

\* The completed row of an operation id, of which there is at most one.
Prior(r) == {a \in applied : a.op = r.op}

SameRequest(r, a) ==
    /\ a.session = r.cookie /\ a.kind = r.kind
    /\ <<a.whom, a.expected, a.reason>> = <<r.whom, r.expected, r.reason>>

ForgotRevoked(r) == session[r.cookie].idle > r.at /\ session[r.cookie].absolute > r.at

\* _begin_admin_action looks again, under the row's lock but with the time the
\* transaction began at.
SessionHolds(r) == LiveAt(r.cookie, r.at)

\* What each write needs of the rows it locks ...
RevokeFits(r) == person[r.whom].published = r.expected

DeactivateFits(r) == person[r.whom].active

ForgotRevision(r) == TRUE

ScopeFits(r) == person[r.whom].scope = r.expected

CanApply(r) ==
    CASE r.kind = "revoke"     -> RevokeFits(r)
      [] r.kind = "deactivate" -> DeactivateFits(r)
      [] r.kind = "scope"      -> ScopeFits(r)

\* ... and makes of them.
RevokedWork(p) == [p EXCEPT !.published = 0]

Offboarded(p) == [p EXCEPT !.published = 0, !.active = FALSE]

Rescoped(p) == [p EXCEPT !.scope = @ + 1]

Changed(r, p) ==
    CASE r.kind = "revoke"     -> RevokedWork(p)
      [] r.kind = "deactivate" -> Offboarded(p)
      [] r.kind = "scope"      -> Rescoped(p)

\* The row of the log, with what it withdrew and who asked.
Entry(n) ==
    LET r == request[n] IN
    [by |-> n, op |-> r.op, kind |-> r.kind, whom |-> r.whom, expected |-> r.expected,
     reason |-> r.reason, session |-> r.cookie,
     withdrew |-> person[r.whom].published]

Refused(n) ==
    /\ request' = [request EXCEPT ![n].stage = "refused", ![n].at = 0]
    /\ UNCHANGED <<person, applied>>

\* The transaction of admin_revoke, admin_deactivate or admin_set_scene_scope.
Apply(n) ==
    LET r == request[n] IN
    /\ r.stage = "begun"
    /\ IF Prior(r) # {}
       THEN IF \A a \in Prior(r) : SameRequest(r, a)
            THEN Answered(n, "done") /\ UNCHANGED <<person, applied>>
            ELSE Refused(n)
       ELSE IF SessionHolds(r) /\ CanApply(r)
            THEN /\ r.kind = "scope" => person[r.whom].scope < MaxVersion
                 /\ person' = [person EXCEPT ![r.whom] = Changed(r, @)]
                 /\ applied' = applied \cup {Entry(n)}
                 /\ \/ Answered(n, "done")
                    \/ Answered(n, "failed")
            ELSE Refused(n)
    /\ UNCHANGED <<now, session, cookie, page, signIn>>

\* The connection breaks before the commit: a plain server error, nothing recorded.
Breaks(n) ==
    /\ request[n].stage = "begun" /\ Answered(n, "failed")
    /\ UNCHANGED <<now, session, cookie, page, signIn, person, applied>>

\* audit_admin_write_failures writes its own row, or fails to, and the refusal goes out.
Record(n) ==
    /\ request[n].stage = "refused" /\ Answered(n, "refused")
    /\ UNCHANGED <<now, session, cookie, page, signIn, person, applied>>

\* The request, or its answer, is lost on the way.
Lose(n) ==
    /\ request[n].stage \in {"sent", "answered"}
    /\ request[n].answer # "lost" /\ Answered(n, "lost")
    /\ UNCHANGED <<now, session, cookie, page, signIn, person, applied>>

-----------------------------------------------------------------------------
\* The answer reaches the console.

Heard(n, kind) ==
    /\ request[n].stage = "answered" /\ request[n].kind = kind
    /\ request[n].answer # "signed out"
    /\ request' = [request EXCEPT ![n] = Gone]
    /\ UNCHANGED <<now, session, cookie, signIn, person, applied>>

\* A form that was answered closes, or takes input again.
AfterAnswer(n) ==
    IF request[n].answer = "done" THEN None ELSE [page.form EXCEPT !.busy = FALSE]

\* Whether the form on the screen is the one that sent the request.
StillCurrent(n) == page.form # None /\ page.form.id = request[n].op[1]

\* The revoke dialog asks whether it still is the one that sent the request ...
RevokeAnswered(n) ==
    /\ Heard(n, "revoke")
    /\ page' = IF StillCurrent(n) THEN [page EXCEPT !.form = AfterAnswer(n)] ELSE page

\* ... the deactivate dialog does not ...
DeactivateAnswered(n) ==
    /\ Heard(n, "deactivate")
    /\ page' = IF page.form # None /\ page.form.kind = "deactivate"
               THEN [page EXCEPT !.form = AfterAnswer(n)] ELSE page

\* ... and the scope editor compares the load it was bound by.
ScopeAnswered(n) ==
    /\ Heard(n, "scope")
    /\ page' = IF StillCurrent(n) THEN [page EXCEPT !.form = AfterAnswer(n)] ELSE page

\* Any 401 takes the console to its login view.
SignedOut(n) ==
    /\ request[n].stage = "answered" /\ request[n].answer = "signed out"
    /\ request' = [request EXCEPT ![n] = Gone]
    /\ page' = SignedOutPage
    /\ UNCHANGED <<now, session, cookie, signIn, person, applied>>

-----------------------------------------------------------------------------
\* An annotator hands in work while the account is active.
Publish(a) ==
    /\ person[a].active /\ person[a].published = 0 /\ person[a].last < MaxVersion
    /\ person' = [person EXCEPT ![a].published = person[a].last + 1, ![a].last = @ + 1]
    /\ UNCHANGED <<now, session, cookie, page, signIn, request, applied>>

Tick ==
    /\ now < MaxTime /\ now' = now + 1
    /\ UNCHANGED <<session, cookie, page, signIn, request, person, applied>>

Init ==
    /\ now = 0 /\ cookie = None /\ signIn = "no" /\ applied = {}
    /\ session = [s \in Session |-> NoSession]
    /\ person = [a \in Annotator |-> [active |-> TRUE, published |-> 1, last |-> 1, scope |-> 0]]
    /\ page = [view |-> "login", csrf |-> None, form |-> None, opened |-> 0]
    /\ request = [n \in Slot |-> NoRequest]

Handle(n) ==
    \/ Admit(n) \/ Mistyped(n) \/ Begin(n) \/ Apply(n) \/ Breaks(n) \/ Record(n)
    \/ Lose(n) \/ SignedOut(n)
    \/ RevokeAnswered(n) \/ DeactivateAnswered(n) \/ ScopeAnswered(n)

Next ==
    \/ SignInBegins \/ SignInEnds \/ SignInFails \/ OtherTabSignsIn \/ SignOut \/ Reload
    \/ PreviewRevoke \/ PreviewDeactivate \/ Cancel \/ Tick
    \/ \E a \in Annotator : Publish(a) \/ OpenRevoke(a) \/ OpenDeactivate(a) \/ OpenScope(a)
    \/ \E n \in Slot : Handle(n)
    \/ \E n \in Slot, reason \in BOOLEAN :
           SubmitRevoke(n, reason) \/ SubmitDeactivate(n, reason) \/ SubmitScope(n, reason)

Spec == Init /\ [][Next]_vars
=============================================================================
