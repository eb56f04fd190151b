---------------------------- MODULE AdminProperties ----------------------------
(***************************************************************************)
(* What the administrator's console and the log of operations promise.     *)
(***************************************************************************)
EXTENDS AdminConsole

\* A dialog, and a scope editor between two loads, changes the corpus at most once,
\* however often it was submitted, retried after an answer that got lost, or edited in
\* between (_begin_admin_action, expected_revision).
OncePerForm ==
    \A a, b \in applied : a.op[1] = b.op[1] => a = b

\* Nothing is withdrawn by a revocation but the version the administrator was shown
\* when the dialog opened, even when the annotator published again since.
WithdrawsWhatWasShown ==
    \A a \in applied : a.kind = "revoke" => a.withdrew = a.expected

\* A form writes once, and what it showed.
WritesAsShown == OncePerForm /\ WithdrawsWhatWasShown

\* An administrator who is told a write was done has had exactly that write done: same
\* person, same expected row, same reason, whoever else used the operation id.
DoneMeansDone ==
    \A n \in Slot : request[n].stage = "answered" /\ request[n].answer = "done" =>
        \E a \in applied :
            /\ a.op = request[n].op /\ a.kind = request[n].kind /\ a.whom = request[n].whom
            /\ a.expected = request[n].expected /\ a.reason = request[n].reason

\* A write sent again after its answer got lost is recognised: its transaction never
\* refuses what an identical earlier request of the session has done.
RetryIsRecognised ==
    \A n \in Slot :
         request[n].stage = "begun" /\ request'[n].stage = "refused" =>
         \A a \in applied : a.op = request[n].op => ~ SameRequest(request[n], a)

\* An answer that arrives late leaves a form alone that did not send it, unless it
\* sends the console to the login view or comes from the deactivate dialog.
LateAnswerHarmless ==
    \A n \in Slot :
         /\ RevokeAnswered(n) \/ ScopeAnswered(n)
         /\ page.form # None /\ page.form.id # request[n].op[1]
         => page'.form = page.form

\* An answer is about the write of the form that asked, in the log and on the page.
AnswersFitForms ==
    /\ []DoneMeansDone
    /\ [][RetryIsRecognised /\ LateAnswerHarmless]_vars

\* A write commits only for a session that is not ended at that moment: one that was
\* admitted before a sign-out, or before another sign-in, has no effect after it.
SignedOutStaysOut ==
    [][\A a \in applied' \ applied : ~ session[a.session].revoked]_vars
=============================================================================
