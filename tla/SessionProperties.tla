-------------------------- MODULE SessionProperties --------------------------
(***************************************************************************)
(* What the session of an annotator name promises.                         *)
(***************************************************************************)
EXTENDS AnnotatorSessions

\* The type invariant, with what the columns promise each other: the session in
\* the row is the last one created, and the idle deadline never lies behind the
\* absolute one.
SessionsTyped ==
    /\ status \in {"active", "deactivated"}
    /\ row \in SessionRow
    /\ logins \in Session
    /\ row.session \in {NoSession, logins}
    /\ row.generation <= logins
    /\ row.idle <= row.absolute
    /\ ~ SignedIn => row = NoRow
    /\ holder \in Browser
    /\ jar \in [Browser -> Cookie]
    /\ tokens \subseteq Token
    /\ requests \subseteq Request
    /\ replies \subseteq Reply

-----------------------------------------------------------------------------
(* Who may write, and who may end a session                                *)

\* A write that takes effect was sent by the browser that signed in last, and
\* the annotator is still active: a request that had passed login_required
\* before a takeover, a logout or a new login changes nothing after it
\* (_require_session_fence).
OnlyTheHolderWrites ==
    [][\A r \in requests :
         CommitWrite(r) => r.browser = holder /\ status = "active"]_vars

\* A session in use is ended by its own browser, by a takeover that was
\* confirmed against this very session, or by the deactivation; never by a
\* late logout of the session before it, a token shown for another session or
\* a second login (login_or_resume, force_takeover, logout).
EndedForCause ==
    [][SignedIn /\ Unexpired(0) /\ ~ Stale(0) /\ row'.session # row.session =>
         \/ status' # status
         \/ \E r \in requests \ requests' :
              \/ r.kind = "logout" /\ r.browser = holder
              \/ r.kind = "takeover" /\ r.session = row.session]_vars

-----------------------------------------------------------------------------
(* Deadlines                                                               *)

\* Once the absolute deadline is over the session never counts as live again,
\* however late a heartbeat or write commits that began before it: the idle
\* deadline, which every check reads too, stays behind the absolute one
\* (_touch_real_activity, session_heartbeat).
AbsoluteIsFinal ==
    [][SignedIn /\ row.absolute <= 0 /\ row'.session = row.session
         => row'.idle <= 0]_vars

\* While a session is live its idle deadline is at most policy.idle_seconds after
\* the user's last real activity: open pages, heartbeats without activity and
\* resumed logins do not keep it, even if their transactions commit late.
IdleFollowsActivity == row.idle > 0 => row.idle + row.activity <= Idle

\* No browser keeps the name by its heartbeats and writes alone: whoever has
\* it, a login of somebody else succeeds in the end without a takeover.
NameComesFree ==
    \A s \in 1 .. MaxLogins :
      row.session = s ~> Vacant(0) \/ row.session # s

=============================================================================
