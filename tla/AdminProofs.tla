------------------------------ MODULE AdminProofs ------------------------------
(***************************************************************************)
(* The administrator's console writes once per form, and what the form     *)
(* showed; an answer is about the form that asked; nothing commits for a   *)
(* session that has ended.  For any number of annotators, sessions, forms  *)
(* and submissions, with whatever requests, retries and answers overtake   *)
(* each other.                                                             *)
(*                                                                         *)
(* The argument: everything that carries a form's id, which is the form on *)
(* the screen, its requests and the rows of the log, is about the same     *)
(* write (AboutOneWrite).  A dialog's requests share an operation id, so   *)
(* the log recognises the second; a scope editor's do not, but the first   *)
(* leaves a revision that no other of them expects (ScopeMovedOn).         *)
(***************************************************************************)
EXTENDS AdminProperties, TLAPS

Kind == {"revoke", "deactivate", "scope"}

Forms == [id : Nat, kind : Kind, whom : Annotator, expected : Nat,
          ready : BOOLEAN, busy : BOOLEAN]

Pages == [view : {"login", "app"}, csrf : Session \cup {None},
          form : Forms \cup {None}, opened : Nat]

Requests == [stage : {"sent", "admitted", "begun", "refused", "answered"},
             answer : {"none", "deaf", "signed out", "csrf", "done", "failed",
                       "refused", "lost"},
             op : Nat \X Nat, kind : Kind, whom : Annotator, expected : Nat,
             reason : BOOLEAN, cookie : Session \cup {None},
             csrf : Session \cup {None}, at : Nat]

Persons == [active : BOOLEAN, published : Nat, last : Nat, scope : Nat]

Entries == [by : Slot, op : Nat \X Nat, kind : Kind, whom : Annotator,
            expected : Nat, reason : BOOLEAN, session : Session \cup {None},
            withdrew : Nat]

ConsoleTyped ==
    /\ now \in Nat
    /\ cookie \in Session \cup {None}
    /\ page \in Pages
    /\ request \in [Slot -> Requests \cup {NoRequest, Gone}]
    /\ person \in [Annotator -> Persons]
    /\ applied \in SUBSET Entries

Live(n) == request[n].stage \notin {"none", "gone"}

\* Two of a form, its requests and its rows of the log are about one write.
Same(v, w) == v.kind = w.kind /\ v.whom = w.whom /\ v.expected = w.expected

\* An operation id is a form's, and a dialog has one only.
OfAForm(w) ==
    /\ w.op[1] <= page.opened
    /\ w.kind # "scope" => w.op = <<w.op[1], 0>>

\* What carries a form's id is about that form's write.
AboutOneWrite ==
    /\ page.form # None => page.form.id <= page.opened
    /\ \A n \in Slot : Live(n) => OfAForm(request[n])
    /\ \A a \in applied : OfAForm(a)
    /\ \A n \in Slot : page.form # None /\ Live(n) /\ request[n].op[1] = page.form.id =>
           Same(request[n], page.form)
    /\ \A a \in applied : page.form # None /\ a.op[1] = page.form.id => Same(a, page.form)
    /\ \A m, n \in Slot : Live(m) /\ Live(n) /\ request[m].op[1] = request[n].op[1] =>
           Same(request[m], request[n])
    /\ \A n \in Slot : \A a \in applied : Live(n) /\ request[n].op[1] = a.op[1] =>
           Same(a, request[n])

\* A scope that was written is past the revision its form expected.
ScopeMovedOn ==
    \A a \in applied : a.kind = "scope" => person[a.whom].scope > a.expected

ConsoleInv ==
    /\ ConsoleTyped /\ AboutOneWrite /\ ScopeMovedOn
    /\ WritesAsShown /\ DoneMeansDone

-----------------------------------------------------------------------------
(* Steps that write nothing and ask for nothing                            *)

\* The log has the write that request r was for.
Recorded(r) ==
    \E a \in applied : a.op = r.op /\ Same(a, r) /\ a.reason = r.reason

\* The form on the screen is gone or still about the same write.
QuietPage ==
    /\ page' \in Pages /\ page'.opened = page.opened
    /\ page'.form # None =>
         /\ page.form # None /\ page'.form.id = page.form.id
         /\ Same(page'.form, page.form)

\* No request is new, and none is newly told "done" unless the log has its write.
QuietRequests ==
    /\ request' \in [Slot -> Requests \cup {NoRequest, Gone}]
    /\ \A n \in Slot : Live(n)' =>
         /\ Live(n) /\ request'[n].op = request[n].op
         /\ Same(request'[n], request[n])
         /\ request'[n].reason = request[n].reason
         /\ request'[n].stage = "answered" /\ request'[n].answer = "done" =>
              \/ request[n].stage = "answered" /\ request[n].answer = "done"
              \/ Recorded(request[n])

\* Nor does anything enter the log.
Quiet ==
    /\ now' \in Nat /\ cookie' \in Session \cup {None}
    /\ person' \in [Annotator -> Persons]
    /\ \A a \in Annotator : person'[a].scope >= person[a].scope
    /\ applied' = applied
    /\ QuietPage /\ QuietRequests

LEMMA LiveIsRequest ==
    ASSUME ConsoleTyped, NEW n \in Slot, Live(n)
    PROVE  request[n] \in Requests
  BY DEF ConsoleTyped, Live, NoRequest, Gone

LEMMA QuietKeeps ==
    ASSUME ConsoleInv, Quiet
    PROVE  ConsoleInv'
  <1> USE DEF ConsoleInv
  <1>1. AboutOneWrite'
    <2>1. (page.form # None => page.form.id <= page.opened)'
      BY DEF Quiet, QuietPage, QuietRequests, AboutOneWrite
    <2>2. (\A n \in Slot : Live(n) => OfAForm(request[n]))'
      BY DEF Quiet, QuietPage, QuietRequests, AboutOneWrite, OfAForm, Same
    <2>3. (\A a \in applied : OfAForm(a))'
      BY DEF Quiet, QuietPage, QuietRequests, AboutOneWrite, OfAForm
    <2>4. (\A n \in Slot : page.form # None /\ Live(n) /\ request[n].op[1] = page.form.id =>
             Same(request[n], page.form))'
      BY DEF Quiet, QuietPage, QuietRequests, AboutOneWrite, Same
    <2>5. (\A a \in applied : page.form # None /\ a.op[1] = page.form.id => Same(a, page.form))'
      BY DEF Quiet, QuietPage, QuietRequests, AboutOneWrite, Same
    <2>6. (\A m, n \in Slot : Live(m) /\ Live(n) /\ request[m].op[1] = request[n].op[1] =>
             Same(request[m], request[n]))'
      BY DEF Quiet, QuietPage, QuietRequests, AboutOneWrite, Same
    <2>7. (\A n \in Slot : \A a \in applied : Live(n) /\ request[n].op[1] = a.op[1] =>
             Same(a, request[n]))'
      BY DEF Quiet, QuietPage, QuietRequests, AboutOneWrite, Same
    <2> QED
      BY <2>1, <2>2, <2>3, <2>4, <2>5, <2>6, <2>7 DEF AboutOneWrite
  <1>2. ScopeMovedOn'
    <2> SUFFICES ASSUME NEW a \in applied, a.kind = "scope"
                 PROVE  person'[a.whom].scope > a.expected
      BY DEF Quiet, ScopeMovedOn
    <2>1. a.whom \in Annotator /\ a.expected \in Nat
      BY DEF ConsoleTyped, Entries
    <2>2. person[a.whom].scope \in Nat /\ person'[a.whom].scope \in Nat
      BY <2>1 DEF ConsoleTyped, Quiet, Persons
    <2> QED
      BY <2>1, <2>2 DEF Quiet, ScopeMovedOn
  <1>3. WritesAsShown'
    BY DEF Quiet, WritesAsShown, OncePerForm, WithdrawsWhatWasShown
  <1>4. DoneMeansDone'
    <2> SUFFICES ASSUME NEW n \in Slot,
                        request'[n].stage = "answered", request'[n].answer = "done"
                 PROVE  \E a \in applied :
                          /\ a.op = request'[n].op /\ a.kind = request'[n].kind
                          /\ a.whom = request'[n].whom
                          /\ a.expected = request'[n].expected
                          /\ a.reason = request'[n].reason
      BY DEF DoneMeansDone, Quiet
    <2>1. Live(n)'
      BY DEF Live
    <2> QED
      BY <2>1 DEF DoneMeansDone, Quiet, QuietRequests, Recorded, Same
  <1>5. ConsoleTyped'
    BY DEF ConsoleTyped, Quiet, QuietPage, QuietRequests
  <1> QED
    BY <1>1, <1>2, <1>3, <1>4, <1>5
-----------------------------------------------------------------------------
(* Requests on their way                                                   *)

\* A request goes on to stage and answer, or is gone.
LEMMA OneGoesOn ==
    ASSUME ConsoleTyped, NEW n \in Slot, Live(n), NEW r,
           request' = [request EXCEPT ![n] = r],
           \/ r = Gone
           \/ /\ r \in Requests /\ r.op = request[n].op
              /\ Same(r, request[n]) /\ r.reason = request[n].reason
              /\ r.stage = "answered" /\ r.answer = "done" => Recorded(request[n])
    PROVE  QuietRequests
  <1>1. request' \in [Slot -> Requests \cup {NoRequest, Gone}]
    BY DEF ConsoleTyped
  <1>2. ASSUME NEW m \in Slot, m # n
        PROVE  request'[m] = request[m]
    BY <1>2 DEF ConsoleTyped
  <1>3. request'[n] = r
    BY DEF ConsoleTyped
  <1>4. ~ Live(n)' \/ r # Gone
    BY <1>3 DEF Live, Gone
  <1> QED
    BY <1>1, <1>2, <1>3, <1>4 DEF QuietRequests, Live, Same

LEMMA StaysQuiet ==
    ASSUME ConsoleTyped
    PROVE  /\ UNCHANGED page => QuietPage
           /\ UNCHANGED request => QuietRequests
           /\ UNCHANGED person => /\ person' \in [Annotator -> Persons]
                                 /\ \A a \in Annotator : person'[a].scope >= person[a].scope
  <1>1. UNCHANGED page => QuietPage
    BY DEF QuietPage, ConsoleTyped, Same
  <1>2. UNCHANGED request => QuietRequests
    BY DEF QuietRequests, ConsoleTyped, Same, Live
  <1>3. \A a \in Annotator : person[a].scope >= person[a].scope
    BY DEF ConsoleTyped, Persons
  <1> QED
    BY <1>1, <1>2, <1>3 DEF ConsoleTyped

\* The answer goes out: "done" only for what the log has.
LEMMA AnsweredIsQuiet ==
    ASSUME ConsoleTyped, NEW n \in Slot, Live(n),
           NEW x \in {"signed out", "csrf", "done", "failed", "refused", "lost"},
           Answered(n, x), x = "done" => Recorded(request[n])
    PROVE  QuietRequests
  <1>1. request[n] \in Requests
    BY LiveIsRequest
  <1> DEFINE q == [request[n] EXCEPT !.stage = "answered", !.answer = x, !.at = 0]
  <1>2. /\ q \in Requests /\ q.op = request[n].op /\ q.answer = x
        /\ Same(q, request[n]) /\ q.reason = request[n].reason
    BY <1>1 DEF Requests, Same
  <1>3. request' = [request EXCEPT ![n] = IF request[n].answer = "deaf" THEN Gone ELSE q]
    BY DEF Answered, ConsoleTyped
  <1> HIDE DEF q
  <1>4. CASE request[n].answer = "deaf"
    BY <1>3, <1>4, OneGoesOn
  <1>5. CASE request[n].answer # "deaf"
    BY <1>2, <1>3, <1>5, OneGoesOn
  <1> QED
    BY <1>4, <1>5

\* A request goes on to another stage, unanswered.
LEMMA StageIsQuiet ==
    ASSUME ConsoleTyped, NEW n \in Slot, Live(n), NEW at \in Nat,
           NEW s \in {"admitted", "begun", "refused"},
           request' = [request EXCEPT ![n].stage = s, ![n].at = at]
    PROVE  QuietRequests
  <1>1. request[n] \in Requests
    BY LiveIsRequest
  <1> DEFINE q == [request[n] EXCEPT !.stage = s, !.at = at]
  <1>2. /\ q \in Requests /\ q.op = request[n].op /\ q.stage # "answered"
        /\ Same(q, request[n]) /\ q.reason = request[n].reason
    BY <1>1 DEF Requests, Same
  <1>3. request' = [request EXCEPT ![n] = q]
    BY DEF ConsoleTyped
  <1> HIDE DEF q
  <1> QED
    BY <1>2, <1>3, OneGoesOn

\* The same, if only the stage is written.
LEMMA StageAloneIsQuiet ==
    ASSUME ConsoleTyped, NEW n \in Slot, Live(n),
           NEW s \in {"admitted", "refused"},
           request' = [request EXCEPT ![n].stage = s]
    PROVE  QuietRequests
  <1>1. request[n] \in Requests
    BY LiveIsRequest
  <1>2. request[n].at \in Nat
    BY <1>1 DEF Requests
  <1>3. [request EXCEPT ![n].stage = s] = [request EXCEPT ![n].stage = s, ![n].at = request[n].at]
    BY <1>1 DEF Requests, ConsoleTyped
  <1> QED
    BY <1>2, <1>3, StageIsQuiet

-----------------------------------------------------------------------------
(* Which steps are quiet                                                   *)

\* The form goes, or only its state changes.
LEMMA FormGoes ==
    ASSUME ConsoleTyped, NEW v \in {"login", "app"}, NEW c \in Session \cup {None},
           page' = [page EXCEPT !.view = v, !.csrf = c, !.form = None]
    PROVE  QuietPage
  BY DEF ConsoleTyped, Pages, QuietPage

LEMMA FormStays ==
    ASSUME ConsoleTyped, NEW ready \in BOOLEAN, NEW busy \in BOOLEAN, page.form # None,
           page' = [page EXCEPT !.form = [page.form EXCEPT !.ready = ready, !.busy = busy]]
    PROVE  QuietPage
  <1>1. page.form \in Forms /\ page \in Pages
    BY DEF ConsoleTyped, Pages
  <1> DEFINE f == [page.form EXCEPT !.ready = ready, !.busy = busy]
  <1>2. f \in Forms /\ f.id = page.form.id /\ Same(f, page.form)
    BY <1>1 DEF Forms, Same
  <1>3. page' = [page EXCEPT !.form = f]
    OBVIOUS
  <1> HIDE DEF f
  <1>4. page' \in Pages /\ page'.opened = page.opened /\ page'.form = f
    BY <1>1, <1>2, <1>3 DEF Pages
  <1> QED
    BY <1>2, <1>4 DEF QuietPage

LEMMA SessionStepsQuiet ==
    ASSUME ConsoleTyped,
           SignInBegins \/ SignInEnds \/ SignInFails \/ OtherTabSignsIn \/ SignOut
    PROVE  Quiet
  <1>1. /\ now' \in Nat /\ applied' = applied /\ UNCHANGED <<request, person>>
    BY DEF SignInBegins, SignInEnds, SignInFails, OtherTabSignsIn, SignOut, ConsoleTyped
  <1>2. CASE SignInBegins \/ SignInFails \/ OtherTabSignsIn
    <2>1. cookie' \in Session \cup {None} /\ UNCHANGED page
      BY <1>2 DEF SignInBegins, SignInFails, OtherTabSignsIn, ConsoleTyped
    <2> QED
      BY <1>1, <2>1, StaysQuiet DEF Quiet
  <1>3. CASE SignInEnds
    <2>1. PICK s \in Session :
            \/ cookie' = s /\ page' = [page EXCEPT !.view = "app", !.csrf = s]
            \/ UNCHANGED <<cookie, page>>
      BY <1>3 DEF SignInEnds
    <2>2. page' = [page EXCEPT !.view = "app", !.csrf = s] => QuietPage
      BY DEF ConsoleTyped, Pages, QuietPage, Same
    <2>3. cookie' \in Session \cup {None}
      BY <2>1 DEF ConsoleTyped
    <2> QED
      BY <1>1, <2>1, <2>2, <2>3, StaysQuiet DEF Quiet
  <1>4. CASE SignOut
    <2>1. QuietPage
      BY <1>4, FormGoes DEF SignOut, SignedOutPage
    <2>2. cookie' \in Session \cup {None}
      BY <1>4 DEF SignOut, ConsoleTyped
    <2> QED
      BY <1>1, <2>1, <2>2, StaysQuiet DEF Quiet
  <1> QED
    BY <1>2, <1>3, <1>4

\* What a request becomes when the page that sent it is loaded again.
Unheard(r) ==
    CASE r.stage \in {"none", "gone"} -> r
      [] r.stage = "answered"         -> Gone
      [] OTHER -> [r EXCEPT !.answer = "deaf"]

LEMMA ReloadQuiet ==
    ASSUME ConsoleTyped, Reload
    PROVE  Quiet
  <1>1. /\ now' \in Nat /\ applied' = applied /\ UNCHANGED person
        /\ cookie' \in Session \cup {None}
    BY DEF Reload, ConsoleTyped
  <1>2. QuietPage
    <2>1. CASE page' = SignedOutPage
      BY <2>1, FormGoes DEF SignedOutPage
    <2>2. CASE page' = [page EXCEPT !.view = "app", !.csrf = cookie, !.form = None]
      BY <2>2, FormGoes DEF ConsoleTyped
    <2> QED
      BY <2>1, <2>2 DEF Reload
  <1>3. request' = [n \in Slot |-> Unheard(request[n])]
    BY DEF Reload, Unheard
  <1>4. ASSUME NEW n \in Slot
        PROVE  /\ request'[n] \in Requests \cup {NoRequest, Gone}
               /\ Live(n)' => /\ Live(n) /\ request'[n].op = request[n].op
                              /\ Same(request'[n], request[n])
                              /\ request'[n].reason = request[n].reason
                              /\ request'[n].stage # "answered"
    <2>1. request'[n] = Unheard(request[n])
      BY <1>3
    <2>2. CASE ~ Live(n)
      BY <2>1, <2>2 DEF Live, Unheard, ConsoleTyped
    <2>3. CASE Live(n) /\ request[n].stage = "answered"
      BY <2>1, <2>3 DEF Live, Unheard, Gone
    <2>4. CASE Live(n) /\ request[n].stage # "answered"
      <3>1. request'[n] = [request[n] EXCEPT !.answer = "deaf"]
        BY <2>1, <2>4 DEF Live, Unheard
      <3>2. request[n] \in Requests
        BY <2>4, LiveIsRequest
      <3> QED
        BY <2>4, <3>1, <3>2 DEF Requests, Same
    <2> QED
      BY <2>2, <2>3, <2>4
  <1>5. QuietRequests
    BY <1>3, <1>4 DEF QuietRequests
  <1> QED
    BY <1>1, <1>2, <1>5, StaysQuiet DEF Quiet

LEMMA PageStepsQuiet ==
    ASSUME ConsoleTyped, PreviewRevoke \/ PreviewDeactivate \/ Cancel \/ Tick
    PROVE  Quiet
  <1>1. /\ applied' = applied /\ UNCHANGED <<request, person>>
        /\ cookie' \in Session \cup {None}
    BY DEF PreviewRevoke, PreviewDeactivate, Cancel, Tick, ConsoleTyped
  <1>2. now' \in Nat
    BY DEF PreviewRevoke, PreviewDeactivate, Cancel, Tick, ConsoleTyped
  <1>3. CASE PreviewRevoke \/ PreviewDeactivate
    <2>1. page.form # None /\ page' = [page EXCEPT !.form.ready = TRUE]
      BY <1>3 DEF PreviewRevoke, PreviewDeactivate
    <2>2. page.form \in Forms /\ page \in Pages
      BY <2>1 DEF ConsoleTyped, Pages
    <2>3. [page.form EXCEPT !.ready = TRUE]
            = [page.form EXCEPT !.ready = TRUE, !.busy = page.form.busy]
      BY <2>2 DEF Forms
    <2>4. page.form.busy \in BOOLEAN
      BY <2>2 DEF Forms
    <2>5. page' = [page EXCEPT !.form = [page.form EXCEPT !.ready = TRUE]]
      BY <2>1, <2>2 DEF Pages
    <2> QED
      BY <1>1, <1>2, <2>1, <2>3, <2>4, <2>5, FormStays, StaysQuiet DEF Quiet
  <1>4. CASE Cancel
    <2>1. page' = [page EXCEPT !.view = page.view, !.csrf = page.csrf, !.form = None]
      BY <1>4 DEF Cancel, ConsoleTyped, Pages
    <2>2. page.view \in {"login", "app"} /\ page.csrf \in Session \cup {None}
      BY DEF ConsoleTyped, Pages
    <2> QED
      BY <1>1, <1>2, <2>1, <2>2, FormGoes, StaysQuiet DEF Quiet
  <1>5. CASE Tick
    BY <1>1, <1>2, <1>5, StaysQuiet DEF Quiet, Tick
  <1> QED
    BY <1>3, <1>4, <1>5

LEMMA ServerStepsQuiet ==
    ASSUME ConsoleTyped, NEW n \in Slot,
           Admit(n) \/ Mistyped(n) \/ Begin(n) \/ Breaks(n) \/ Record(n) \/ Lose(n)
    PROVE  Quiet
  <1>1. /\ applied' = applied /\ UNCHANGED <<page, person>>
        /\ cookie' \in Session \cup {None} /\ now' \in Nat /\ now \in Nat
    BY DEF Admit, Mistyped, Begin, Breaks, Record, Lose, ConsoleTyped
  <1>2. Live(n)
    BY DEF Live, Admit, Mistyped, Begin, Breaks, Record, Lose
  <1>3. QuietRequests
    <2>1. CASE Admit(n)
      <3>1. \/ Answered(n, "signed out") \/ Answered(n, "csrf")
            \/ request' = [request EXCEPT ![n].stage = "admitted"]
        BY <2>1 DEF Admit
      <3> QED
        BY <1>2, <3>1, AnsweredIsQuiet, StageAloneIsQuiet
    <2>2. CASE Mistyped(n)
      BY <1>2, <2>2, StageAloneIsQuiet DEF Mistyped
    <2>3. CASE Begin(n)
      BY <1>1, <1>2, <2>3, StageIsQuiet DEF Begin
    <2>4. CASE Breaks(n) \/ Record(n) \/ Lose(n)
      BY <1>2, <2>4, AnsweredIsQuiet DEF Breaks, Record, Lose
    <2> QED
      BY <2>1, <2>2, <2>3, <2>4
  <1> QED
    BY <1>1, <1>3, StaysQuiet DEF Quiet

LEMMA AnswersQuiet ==
    ASSUME ConsoleTyped, NEW n \in Slot,
           \/ SignedOut(n) \/ RevokeAnswered(n) \/ DeactivateAnswered(n) \/ ScopeAnswered(n)
    PROVE  Quiet
  <1>1. /\ applied' = applied /\ UNCHANGED person
        /\ cookie' \in Session \cup {None} /\ now' \in Nat
        /\ request' = [request EXCEPT ![n] = Gone]
        /\ request[n].stage = "answered"
    BY DEF SignedOut, RevokeAnswered, DeactivateAnswered, ScopeAnswered, Heard, ConsoleTyped
  <1>2. QuietRequests
    BY <1>1, OneGoesOn DEF Live
  <1>3. QuietPage
    <2>1. CASE page' = SignedOutPage
      BY <2>1, FormGoes DEF SignedOutPage
    <2>2. CASE page' = page
      BY <2>2, StaysQuiet
    <2>3. CASE page.form # None /\ page' = [page EXCEPT !.form = AfterAnswer(n)]
      <3>1. page.form \in Forms /\ page \in Pages
        BY <2>3 DEF ConsoleTyped, Pages
      <3>2. CASE request[n].answer = "done"
        <4>1. page' = [page EXCEPT !.view = page.view, !.csrf = page.csrf, !.form = None]
          BY <2>3, <3>1, <3>2 DEF AfterAnswer, Pages
        <4>2. page.view \in {"login", "app"} /\ page.csrf \in Session \cup {None}
          BY <3>1 DEF Pages
        <4> QED
          BY <4>1, <4>2, FormGoes
      <3>3. CASE request[n].answer # "done"
        <4>1. [page.form EXCEPT !.busy = FALSE]
                = [page.form EXCEPT !.ready = page.form.ready, !.busy = FALSE]
          BY <3>1 DEF Forms
        <4>2. page.form.ready \in BOOLEAN
          BY <3>1 DEF Forms
        <4>3. page' = [page EXCEPT !.form = [page.form EXCEPT !.busy = FALSE]]
          BY <2>3, <3>3 DEF AfterAnswer
        <4> QED
          BY <2>3, <4>1, <4>2, <4>3, FormStays
      <3> QED
        BY <3>2, <3>3
    <2> QED
      BY <2>1, <2>2, <2>3
         DEF SignedOut, RevokeAnswered, DeactivateAnswered, ScopeAnswered, StillCurrent
  <1> QED
    BY <1>1, <1>2, <1>3, StaysQuiet DEF Quiet

LEMMA PublishQuiet ==
    ASSUME ConsoleTyped, NEW a \in Annotator, Publish(a)
    PROVE  Quiet
  <1>1. /\ applied' = applied /\ UNCHANGED <<request, page>>
        /\ cookie' \in Session \cup {None} /\ now' \in Nat
    BY DEF Publish, ConsoleTyped
  <1>2. person[a] \in Persons /\ person[a].last + 1 \in Nat
    BY DEF ConsoleTyped, Persons
  <1> DEFINE p == [person[a] EXCEPT !.published = person[a].last + 1,
                                    !.last = person[a].last + 1]
  <1>3. p \in Persons /\ p.scope = person[a].scope
    BY <1>2 DEF Persons
  <1>4. person' = [person EXCEPT ![a] = p]
    BY <1>2 DEF Publish, ConsoleTyped, Persons
  <1> HIDE DEF p
  <1>5. person' \in [Annotator -> Persons]
    BY <1>3, <1>4 DEF ConsoleTyped
  <1>6. \A b \in Annotator : person'[b].scope >= person[b].scope
    BY <1>3, <1>4 DEF ConsoleTyped, Persons
  <1> QED
    BY <1>1, <1>5, <1>6, StaysQuiet DEF Quiet

-----------------------------------------------------------------------------
(* A form opens, a request is sent                                         *)

LEMMA OpenKeeps ==
    ASSUME ConsoleInv, NEW k \in Kind, NEW a \in Annotator, NEW e \in Nat,
           NEW ready \in BOOLEAN, OpenForm(k, a, e, ready)
    PROVE  ConsoleInv'
  <1> USE DEF ConsoleInv
  <1> DEFINE f == [id |-> page.opened + 1, kind |-> k, whom |-> a,
                   expected |-> e, ready |-> ready, busy |-> FALSE]
  <1>1. page \in Pages /\ page.opened \in Nat /\ page.opened + 1 \in Nat
    BY DEF ConsoleTyped, Pages
  <1>2. f \in Forms /\ f.id = page.opened + 1
    BY <1>1 DEF Forms
  <1>3. page' = [page EXCEPT !.opened = page.opened + 1, !.form = f]
    BY <1>1 DEF OpenForm, Pages
  <1>4. UNCHANGED <<now, session, cookie, signIn, request, person, applied>>
    BY DEF OpenForm
  <1> HIDE DEF f
  <1>5. page' \in Pages /\ page'.opened = page.opened + 1 /\ page'.form = f
    BY <1>1, <1>2, <1>3 DEF Pages
  <1>6. \A n \in Slot : Live(n)' <=> Live(n)
    BY <1>4 DEF Live
  <1>7. \A n \in Slot : Live(n) =>
          request[n].op[1] \in Nat /\ request[n].op[1] <= page.opened /\ OfAForm(request[n])
    BY LiveIsRequest DEF AboutOneWrite, OfAForm, Requests
  <1>8. \A b \in applied : b.op[1] \in Nat /\ b.op[1] <= page.opened /\ OfAForm(b)
    BY DEF AboutOneWrite, OfAForm, ConsoleTyped, Entries
  <1>9. AboutOneWrite'
    <2>1. (page.form # None => page.form.id <= page.opened)'
      BY <1>1, <1>2, <1>5
    <2>2. (\A n \in Slot : Live(n) => OfAForm(request[n]))'
      BY <1>1, <1>4, <1>5, <1>6, <1>7 DEF OfAForm
    <2>3. (\A b \in applied : OfAForm(b))'
      BY <1>1, <1>4, <1>5, <1>8 DEF OfAForm
    <2>4. \A n \in Slot : Live(n)' => request'[n].op[1] # page'.form.id
      BY <1>1, <1>2, <1>4, <1>5, <1>6, <1>7
    <2>5. \A b \in applied' : b.op[1] # page'.form.id
      BY <1>1, <1>2, <1>4, <1>5, <1>8
    <2>6. (\A m, n \in Slot : Live(m) /\ Live(n) /\ request[m].op[1] = request[n].op[1] =>
             Same(request[m], request[n]))'
      BY <1>4, <1>6 DEF AboutOneWrite, Same
    <2>7. (\A n \in Slot : \A b \in applied : Live(n) /\ request[n].op[1] = b.op[1] =>
             Same(b, request[n]))'
      BY <1>4, <1>6 DEF AboutOneWrite, Same
    <2> QED
      BY <2>1, <2>2, <2>3, <2>4, <2>5, <2>6, <2>7 DEF AboutOneWrite
  <1>10. ConsoleTyped'
    BY <1>4, <1>5 DEF ConsoleTyped
  <1>11. ScopeMovedOn' /\ WritesAsShown' /\ DoneMeansDone'
    BY <1>4 DEF ScopeMovedOn, WritesAsShown, OncePerForm, WithdrawsWhatWasShown, DoneMeansDone
  <1> QED
    BY <1>9, <1>10, <1>11

\* An operation id of the form on the screen.
LEMMA SendKeeps ==
    ASSUME ConsoleInv, NEW n \in Slot, NEW m \in Nat, NEW reason \in BOOLEAN,
           page.form # None, page.form.kind # "scope" => m = 0,
           Send(n, <<page.form.id, m>>, reason)
    PROVE  ConsoleInv'
  <1> USE DEF ConsoleInv
  <1>1. page.form \in Forms /\ page \in Pages
    BY DEF ConsoleTyped, Pages
  <1> DEFINE r == [stage |-> "sent", answer |-> "none", op |-> <<page.form.id, m>>,
                   kind |-> page.form.kind, whom |-> page.form.whom,
                   expected |-> page.form.expected, reason |-> reason,
                   cookie |-> cookie, csrf |-> page.csrf, at |-> 0]
  <1>2. /\ r \in Requests /\ r.op = <<page.form.id, m>> /\ r.stage = "sent"
        /\ Same(r, page.form)
    BY <1>1 DEF Requests, Forms, Same, ConsoleTyped, Pages
  <1>3. /\ request' = [request EXCEPT ![n] = r]
        /\ page' = [page EXCEPT !.form.busy = TRUE]
        /\ UNCHANGED <<now, session, cookie, signIn, person, applied>>
    BY DEF Send
  <1> HIDE DEF r
  <1>4. /\ page' \in Pages /\ page'.opened = page.opened
        /\ page'.form # None =>
             page'.form.id = page.form.id /\ Same(page'.form, page.form)
    <2>1. page' = [page EXCEPT !.form = [page.form EXCEPT !.busy = TRUE]]
      BY <1>1, <1>3 DEF Pages
    <2>2. [page.form EXCEPT !.busy = TRUE]
            = [page.form EXCEPT !.ready = page.form.ready, !.busy = TRUE]
      BY <1>1 DEF Forms
    <2>3. page.form.ready \in BOOLEAN
      BY <1>1 DEF Forms
    <2> QED
      BY <2>1, <2>2, <2>3, FormStays DEF QuietPage
  <1>5. request' \in [Slot -> Requests \cup {NoRequest, Gone}] /\ request'[n] = r
    BY <1>2, <1>3 DEF ConsoleTyped
  <1>6. \A i \in Slot : i # n => request'[i] = request[i] /\ (Live(i)' <=> Live(i))
    BY <1>3 DEF ConsoleTyped, Live
  <1>7. page.form.id \in Nat /\ page.form.id <= page.opened /\ r.op[1] = page.form.id
    BY <1>1, <1>2 DEF Forms, AboutOneWrite
  <1>8. AboutOneWrite'
    <2>1. (page.form # None => page.form.id <= page.opened)'
      BY <1>4, <1>7
    <2>2. OfAForm(request[n])'
      BY <1>2, <1>4, <1>5, <1>7 DEF OfAForm, Same
    <2>3. (\A i \in Slot : Live(i) => OfAForm(request[i]))'
      BY <1>4, <1>5, <1>6, <2>2 DEF OfAForm, AboutOneWrite
    <2>4. (\A b \in applied : OfAForm(b))'
      BY <1>3, <1>4 DEF OfAForm, AboutOneWrite
    <2>5. (\A i \in Slot : page.form # None /\ Live(i) /\ request[i].op[1] = page.form.id =>
             Same(request[i], page.form))'
      <3> SUFFICES ASSUME NEW i \in Slot, Live(i)', request'[i].op[1] = page.form.id
                   PROVE  Same(request'[i], page.form)
        BY <1>4 DEF Same
      <3> QED
        BY <1>2, <1>5, <1>6 DEF AboutOneWrite
    <2>6. (\A b \in applied : page.form # None /\ b.op[1] = page.form.id => Same(b, page.form))'
      BY <1>3, <1>4 DEF AboutOneWrite, Same
    <2>7. (\A i, j \in Slot : Live(i) /\ Live(j) /\ request[i].op[1] = request[j].op[1] =>
             Same(request[i], request[j]))'
      BY <1>2, <1>5, <1>6, <1>7 DEF AboutOneWrite, Same
    <2>8. (\A i \in Slot : \A b \in applied : Live(i) /\ request[i].op[1] = b.op[1] =>
             Same(b, request[i]))'
      BY <1>2, <1>3, <1>5, <1>6, <1>7 DEF AboutOneWrite, Same
    <2> QED
      BY <2>1, <2>3, <2>4, <2>5, <2>6, <2>7, <2>8 DEF AboutOneWrite
  <1>9. ConsoleTyped'
    BY <1>3, <1>4, <1>5 DEF ConsoleTyped
  <1>10. DoneMeansDone'
    BY <1>2, <1>3, <1>5, <1>6 DEF DoneMeansDone
  <1>11. ScopeMovedOn' /\ WritesAsShown'
    BY <1>3 DEF ScopeMovedOn, WritesAsShown, OncePerForm, WithdrawsWhatWasShown
  <1> QED
    BY <1>8, <1>9, <1>10, <1>11

-----------------------------------------------------------------------------
(* The transaction of a write                                              *)

\* The transaction takes effect.
Writes(n) ==
    LET r == request[n] IN
    /\ r.stage = "begun" /\ Prior(r) = {} /\ SessionHolds(r) /\ CanApply(r)
    /\ person' = [person EXCEPT ![r.whom] = Changed(r, person[r.whom])]
    /\ applied' = applied \cup {Entry(n)}
    /\ Answered(n, "done") \/ Answered(n, "failed")
    /\ UNCHANGED <<now, session, cookie, page, signIn>>

\* Or it recognises a write that was done, or refuses.
LEMMA ApplyCases ==
    ASSUME ConsoleTyped, NEW n \in Slot, Apply(n)
    PROVE  \/ Writes(n)
           \/ /\ Quiet
              /\ request'[n].stage = "refused" =>
                   \/ Prior(request[n]) = {}
                   \/ \E a \in Prior(request[n]) : ~ SameRequest(request[n], a)
  <1>1. Live(n) /\ request[n] \in Requests
    BY LiveIsRequest DEF Apply, Live
  <1>2. ASSUME UNCHANGED <<person, applied>>, QuietRequests
        PROVE  Quiet
    BY <1>2, StaysQuiet DEF Apply, Quiet, ConsoleTyped
  <1>3. CASE Prior(request[n]) # {} /\ \A a \in Prior(request[n]) : SameRequest(request[n], a)
    <2>1. Answered(n, "done") /\ UNCHANGED <<person, applied>>
      BY <1>3 DEF Apply
    <2>2. Recorded(request[n])
      BY <1>3 DEF Prior, SameRequest, Recorded, Same
    <2>3. QuietRequests
      BY <1>1, <2>1, <2>2, AnsweredIsQuiet
    <2>4. request'[n].stage # "refused"
      BY <1>1, <2>1 DEF Answered, ConsoleTyped, Gone, Requests
    <2> QED
      BY <1>2, <2>1, <2>3, <2>4
  <1>4. CASE Refused(n)
    <2>1. QuietRequests
      BY <1>1, <1>4, StageIsQuiet DEF Refused
    <2>2. UNCHANGED <<person, applied>>
      BY <1>4 DEF Refused
    <2>3. CASE \E a \in Prior(request[n]) : ~ SameRequest(request[n], a)
      BY <1>2, <2>1, <2>2, <2>3
    <2>4. CASE Prior(request[n]) = {}
      BY <1>2, <2>1, <2>2, <2>4
    <2> QED
      BY <1>2, <1>3, <2>1, <2>2, <2>3, <2>4
  <1>5. CASE ~ Refused(n) /\ Prior(request[n]) = {}
    BY <1>5 DEF Apply, Writes
  <1>6. CASE ~ Refused(n) /\ \E a \in Prior(request[n]) : ~ SameRequest(request[n], a)
    BY <1>6 DEF Apply
  <1> QED
    BY <1>3, <1>4, <1>5, <1>6

LEMMA ChangedPerson ==
    ASSUME NEW r \in Requests, NEW p \in Persons
    PROVE  /\ Changed(r, p) \in Persons
           /\ Changed(r, p).scope >= p.scope
           /\ r.kind = "scope" => Changed(r, p).scope > p.scope
  <1>1. r.kind \in Kind
    BY DEF Requests
  <1>2. p.scope \in Nat /\ p.scope + 1 \in Nat /\ p.scope + 1 > p.scope /\ p.scope >= p.scope
    BY DEF Persons
  <1>3. RevokedWork(p) \in Persons /\ RevokedWork(p).scope = p.scope
    BY DEF Persons, RevokedWork
  <1>4. Offboarded(p) \in Persons /\ Offboarded(p).scope = p.scope
    BY DEF Persons, Offboarded
  <1>5. Rescoped(p) \in Persons /\ Rescoped(p).scope = p.scope + 1
    BY <1>2 DEF Persons, Rescoped
  <1>6. CASE r.kind = "revoke"
    BY <1>2, <1>3, <1>6 DEF Changed
  <1>7. CASE r.kind = "deactivate"
    BY <1>2, <1>4, <1>7 DEF Changed
  <1>8. CASE r.kind = "scope"
    BY <1>2, <1>5, <1>8 DEF Changed
  <1> QED
    BY <1>1, <1>6, <1>7, <1>8 DEF Kind

LEMMA WriteKeeps ==
    ASSUME ConsoleInv, NEW n \in Slot, Writes(n)
    PROVE  ConsoleInv'
  <1> USE DEF ConsoleInv
  <1> DEFINE r == request[n]
             e == Entry(n)
  <1>1. r \in Requests /\ Live(n)
    BY LiveIsRequest DEF Writes, Live
  <1>2. r.whom \in Annotator /\ person[r.whom] \in Persons
    BY <1>1 DEF Requests, ConsoleTyped
  <1>3. /\ e \in Entries /\ e.op = r.op /\ Same(e, r) /\ e.reason = r.reason
        /\ e.withdrew = person[r.whom].published
    BY <1>1, <1>2 DEF Requests, Persons, Entries, Entry, Same
  <1>4. /\ applied' = applied \cup {e} /\ UNCHANGED <<now, cookie, page>>
        /\ person' = [person EXCEPT ![r.whom] = Changed(r, person[r.whom])]
        /\ \A a \in applied : a.op # r.op
        /\ CanApply(r)
    BY DEF Writes, Prior
  <1>5. /\ request' \in [Slot -> Requests \cup {NoRequest, Gone}]
        /\ \A m \in Slot : m # n => request'[m] = request[m]
        /\ Live(n)' => request'[n].op = r.op /\ Same(request'[n], r) /\ request'[n].reason = r.reason
    <2>1. PICK x \in {"done", "failed"} : Answered(n, x)
      BY DEF Writes
    <2> DEFINE q == [r EXCEPT !.stage = "answered", !.answer = x, !.at = 0]
    <2>2. /\ q \in Requests /\ q.op = r.op /\ Same(q, r) /\ q.reason = r.reason
      BY <1>1 DEF Requests, Same
    <2>3. request' = [request EXCEPT ![n] = IF r.answer = "deaf" THEN Gone ELSE q]
      BY <2>1 DEF Answered, ConsoleTyped
    <2> HIDE DEF q, r
    <2>4. request'[n] = Gone \/ request'[n] = q
      BY <2>3 DEF ConsoleTyped
    <2>5. ~ Live(n)' \/ request'[n] # Gone
      BY DEF Live, Gone
    <2> QED
      BY <2>2, <2>3, <2>4, <2>5 DEF ConsoleTyped
  <1> HIDE DEF r, e
  <1>6. /\ person' \in [Annotator -> Persons]
        /\ \A a \in Annotator : person'[a].scope >= person[a].scope
        /\ r.kind = "scope" => person'[r.whom].scope > person[r.whom].scope
    <2>1. /\ Changed(r, person[r.whom]) \in Persons
          /\ Changed(r, person[r.whom]).scope >= person[r.whom].scope
          /\ r.kind = "scope" => Changed(r, person[r.whom]).scope > person[r.whom].scope
      BY <1>1, <1>2, ChangedPerson
    <2>2. \A a \in Annotator : person[a].scope >= person[a].scope
      BY DEF ConsoleTyped, Persons
    <2> HIDE DEF Changed
    <2> QED
      BY <1>2, <1>4, <2>1, <2>2 DEF ConsoleTyped
  <1>7. \A m \in Slot : m # n => (Live(m)' <=> Live(m))
    BY <1>5 DEF Live
  <1>8. /\ OfAForm(r)
        /\ \A a \in applied : a.op[1] = r.op[1] => Same(a, r)
        /\ \A m \in Slot : Live(m) /\ request[m].op[1] = r.op[1] => Same(request[m], r)
        /\ page.form # None /\ r.op[1] = page.form.id => Same(r, page.form)
    BY <1>1 DEF AboutOneWrite, r
  \* No write of this form is in the log.
  <1>9. ASSUME NEW a \in applied, a.op[1] = r.op[1]
        PROVE  FALSE
    <2>1. Same(a, r) /\ OfAForm(a)
      BY <1>8, <1>9 DEF AboutOneWrite
    <2>2. CASE r.kind # "scope"
      <3>1. a.op = <<a.op[1], 0>> /\ r.op = <<r.op[1], 0>>
        BY <1>8, <2>1, <2>2 DEF OfAForm, Same
      <3> QED
        BY <1>4, <1>9, <3>1
    <2>3. CASE r.kind = "scope"
      <3>1. person[r.whom].scope = r.expected
        BY <1>4, <2>3 DEF CanApply, ScopeFits
      <3>2. person[r.whom].scope > r.expected
        BY <2>1, <2>3 DEF ScopeMovedOn, Same
      <3>3. person[r.whom].scope \in Nat
        BY <1>2 DEF Persons
      <3> QED
        BY <3>1, <3>2, <3>3
    <2> QED
      BY <2>2, <2>3
  <1>10. AboutOneWrite'
    <2>1. (page.form # None => page.form.id <= page.opened)'
      BY <1>4 DEF AboutOneWrite
    <2>2. (\A i \in Slot : Live(i) => OfAForm(request[i]))'
      BY <1>4, <1>5, <1>7, <1>8 DEF OfAForm, AboutOneWrite, Same
    <2>3. (\A b \in applied : OfAForm(b))'
      BY <1>3, <1>4, <1>8 DEF OfAForm, AboutOneWrite, Same
    <2>4. (\A i \in Slot : page.form # None /\ Live(i) /\ request[i].op[1] = page.form.id =>
             Same(request[i], page.form))'
      BY <1>4, <1>5, <1>7, <1>8 DEF AboutOneWrite, Same
    <2>5. (\A b \in applied : page.form # None /\ b.op[1] = page.form.id => Same(b, page.form))'
      BY <1>3, <1>4, <1>8 DEF AboutOneWrite, Same
    <2>6. (\A i, j \in Slot : Live(i) /\ Live(j) /\ request[i].op[1] = request[j].op[1] =>
             Same(request[i], request[j]))'
      BY <1>5, <1>7, <1>8 DEF AboutOneWrite, Same
    <2>7. (\A i \in Slot : \A b \in applied : Live(i) /\ request[i].op[1] = b.op[1] =>
             Same(b, request[i]))'
      BY <1>3, <1>4, <1>5, <1>7, <1>8 DEF AboutOneWrite, Same
    <2> QED
      BY <2>1, <2>2, <2>3, <2>4, <2>5, <2>6, <2>7 DEF AboutOneWrite
  <1>11. ScopeMovedOn'
    <2> SUFFICES ASSUME NEW a \in applied', a.kind = "scope"
                 PROVE  person'[a.whom].scope > a.expected
      BY DEF ScopeMovedOn
    <2>1. a \in Entries
      BY <1>3, <1>4 DEF ConsoleTyped
    <2>2. /\ a.whom \in Annotator /\ a.expected \in Nat
          /\ person[a.whom].scope \in Nat /\ person'[a.whom].scope \in Nat
      BY <1>6, <2>1 DEF Entries, ConsoleTyped, Persons
    <2>3. CASE a \in applied
      BY <1>6, <2>2, <2>3 DEF ScopeMovedOn
    <2>4. CASE a = e
      <3>1. person[r.whom].scope = r.expected
        BY <1>3, <1>4, <2>4 DEF CanApply, ScopeFits, Same
      <3> QED
        BY <1>3, <1>6, <2>2, <2>4, <3>1 DEF Same
    <2> QED
      BY <1>4, <2>3, <2>4
  <1>12. WritesAsShown'
    <2>1. OncePerForm'
      BY <1>3, <1>4, <1>9 DEF WritesAsShown, OncePerForm
    <2>2. WithdrawsWhatWasShown'
      <3>1. e.kind = "revoke" => e.withdrew = e.expected
        BY <1>3, <1>4 DEF CanApply, RevokeFits, Same
      <3> QED
        BY <1>4, <3>1 DEF WritesAsShown, WithdrawsWhatWasShown
    <2> QED
      BY <2>1, <2>2 DEF WritesAsShown
  <1>13. DoneMeansDone'
    <2> SUFFICES ASSUME NEW m \in Slot,
                        request'[m].stage = "answered", request'[m].answer = "done"
                 PROVE  \E a \in applied' :
                          /\ a.op = request'[m].op /\ a.kind = request'[m].kind
                          /\ a.whom = request'[m].whom
                          /\ a.expected = request'[m].expected
                          /\ a.reason = request'[m].reason
      BY DEF DoneMeansDone
    <2>1. CASE m = n
      <3>1. Live(n)'
        BY <2>1 DEF Live
      <3> QED
        BY <1>3, <1>4, <1>5, <2>1, <3>1 DEF Same
    <2>2. CASE m # n
      BY <1>4, <1>5, <2>2 DEF DoneMeansDone
    <2> QED
      BY <2>1, <2>2
  <1>14. ConsoleTyped'
    BY <1>3, <1>4, <1>5, <1>6 DEF ConsoleTyped
  <1> QED
    BY <1>10, <1>11, <1>12, <1>13, <1>14

-----------------------------------------------------------------------------
(* The invariant                                                           *)

LEMMA InitConsole == Init => ConsoleInv
  <1> SUFFICES ASSUME Init PROVE ConsoleInv
    OBVIOUS
  <1>1. ConsoleTyped
    BY DEF Init, ConsoleTyped, Pages, Persons
  <1>2. \A n \in Slot : ~ Live(n) /\ request[n].stage # "answered"
    BY DEF Init, Live, NoRequest
  <1>3. AboutOneWrite
    BY <1>2 DEF Init, AboutOneWrite
  <1>4. DoneMeansDone
    BY <1>2 DEF DoneMeansDone
  <1>5. ScopeMovedOn /\ WritesAsShown
    BY DEF Init, ScopeMovedOn, WritesAsShown, OncePerForm, WithdrawsWhatWasShown
  <1> QED
    BY <1>1, <1>3, <1>4, <1>5 DEF ConsoleInv

LEMMA FormStepsKeep ==
    ASSUME ConsoleInv, NEW a \in Annotator, OpenRevoke(a) \/ OpenDeactivate(a) \/ OpenScope(a)
    PROVE  ConsoleInv'
  <1>1. person[a].published \in Nat /\ person[a].scope \in Nat
    BY DEF ConsoleInv, ConsoleTyped, Persons
  <1> QED
    BY <1>1, OpenKeeps DEF OpenRevoke, OpenDeactivate, OpenScope, Kind

LEMMA SubmitStepsKeep ==
    ASSUME ConsoleInv, NEW n \in Slot, NEW reason \in BOOLEAN,
           SubmitRevoke(n, reason) \/ SubmitDeactivate(n, reason) \/ SubmitScope(n, reason)
    PROVE  ConsoleInv'
  <1>1. n \in Nat /\ 0 \in Nat
    BY DEF Slot
  <1>2. CASE SubmitScope(n, reason)
    BY <1>1, <1>2, SendKeeps DEF SubmitScope
  <1>3. CASE SubmitRevoke(n, reason) \/ SubmitDeactivate(n, reason)
    BY <1>1, <1>3, SendKeeps DEF SubmitRevoke, SubmitDeactivate
  <1> QED
    BY <1>2, <1>3

LEMMA StepKeeps == ConsoleInv /\ [Next]_vars => ConsoleInv'
  <1> SUFFICES ASSUME ConsoleInv, [Next]_vars PROVE ConsoleInv'
    OBVIOUS
  <1>1. ConsoleTyped
    BY DEF ConsoleInv
  <1>2. CASE UNCHANGED vars
    BY <1>1, <1>2, QuietKeeps, StaysQuiet DEF Quiet, vars, ConsoleTyped
  <1>3. CASE SignInBegins \/ SignInEnds \/ SignInFails \/ OtherTabSignsIn \/ SignOut
    BY <1>1, <1>3, QuietKeeps, SessionStepsQuiet
  <1>4. CASE Reload
    BY <1>1, <1>4, QuietKeeps, ReloadQuiet
  <1>5. CASE PreviewRevoke \/ PreviewDeactivate \/ Cancel \/ Tick
    BY <1>1, <1>5, QuietKeeps, PageStepsQuiet
  <1>6. ASSUME NEW a \in Annotator, Publish(a)
        PROVE  ConsoleInv'
    BY <1>1, <1>6, QuietKeeps, PublishQuiet
  <1>7. ASSUME NEW a \in Annotator, OpenRevoke(a) \/ OpenDeactivate(a) \/ OpenScope(a)
        PROVE  ConsoleInv'
    BY <1>7, FormStepsKeep
  <1>8. ASSUME NEW n \in Slot, Handle(n)
        PROVE  ConsoleInv'
    <2>1. CASE Apply(n)
      BY <1>1, <2>1, ApplyCases, WriteKeeps, QuietKeeps
    <2>2. CASE Admit(n) \/ Mistyped(n) \/ Begin(n) \/ Breaks(n) \/ Record(n) \/ Lose(n)
      BY <1>1, <2>2, QuietKeeps, ServerStepsQuiet
    <2>3. CASE SignedOut(n) \/ RevokeAnswered(n) \/ DeactivateAnswered(n) \/ ScopeAnswered(n)
      BY <1>1, <2>3, QuietKeeps, AnswersQuiet
    <2> QED
      BY <1>8, <2>1, <2>2, <2>3 DEF Handle
  <1>9. ASSUME NEW n \in Slot, NEW reason \in BOOLEAN,
               SubmitRevoke(n, reason) \/ SubmitDeactivate(n, reason) \/ SubmitScope(n, reason)
        PROVE  ConsoleInv'
    BY <1>9, SubmitStepsKeep
  <1> QED
    BY <1>2, <1>3, <1>4, <1>5, <1>6, <1>7, <1>8, <1>9 DEF Next

\* A form's requests and rows of the log are about one write, and a scope that was
\* written is past what its form expected.
THEOREM ConsoleInvHolds == Spec => []ConsoleInv
  BY InitConsole, StepKeeps, PTL DEF Spec

\* A form writes once, and what it showed, however often it is submitted or retried.
THEOREM WritesAsShownHolds == Spec => []WritesAsShown
  <1>1. ConsoleInv => WritesAsShown
    BY DEF ConsoleInv
  <1> QED
    BY <1>1, ConsoleInvHolds, PTL

-----------------------------------------------------------------------------
(* Answers                                                                 *)

\* A transaction that began is refused by itself only.
LEMMA RefusedByApply ==
    ASSUME ConsoleTyped, Next, NEW n \in Slot,
           request[n].stage = "begun", request'[n].stage = "refused"
    PROVE  Apply(n)
  <1>1. CASE Reload
    <2>1. Live(n)
      BY DEF Live
    <2>2. request'[n] = [request[n] EXCEPT !.answer = "deaf"]
      BY <1>1 DEF Reload
    <2> QED
      BY <2>1, <2>2, LiveIsRequest DEF Requests
  <1>2. CASE \/ SignInBegins \/ SignInEnds \/ SignInFails \/ OtherTabSignsIn \/ SignOut
             \/ PreviewRevoke \/ PreviewDeactivate \/ Cancel \/ Tick
    BY <1>2 DEF SignInBegins, SignInEnds, SignInFails, OtherTabSignsIn, SignOut,
                PreviewRevoke, PreviewDeactivate, Cancel, Tick
  <1>3. ASSUME NEW a \in Annotator, Publish(a) \/ OpenRevoke(a) \/ OpenDeactivate(a) \/ OpenScope(a)
        PROVE  FALSE
    BY <1>3 DEF Publish, OpenRevoke, OpenDeactivate, OpenScope, OpenForm
  <1>4. ASSUME NEW m \in Slot, NEW reason \in BOOLEAN,
               SubmitRevoke(m, reason) \/ SubmitDeactivate(m, reason) \/ SubmitScope(m, reason)
        PROVE  FALSE
    <2>1. PICK op : Send(m, op, reason)
      BY <1>4 DEF SubmitRevoke, SubmitDeactivate, SubmitScope
    <2>2. m # n /\ request'[n] = request[n]
      BY <2>1 DEF Send, ConsoleTyped
    <2> QED
      BY <2>2
  <1>5. ASSUME NEW m \in Slot, Handle(m)
        PROVE  Apply(n)
    <2>1. CASE m = n
      <3>1. ~ (Admit(n) \/ Mistyped(n) \/ Begin(n) \/ Record(n) \/ Lose(n) \/ SignedOut(n))
        BY DEF Admit, Mistyped, Begin, Record, Lose, SignedOut
      <3>2. ~ (RevokeAnswered(n) \/ DeactivateAnswered(n) \/ ScopeAnswered(n))
        BY DEF RevokeAnswered, DeactivateAnswered, ScopeAnswered, Heard
      <3>3. ~ Breaks(n)
        <4>1. request[n] \in Requests
          BY LiveIsRequest DEF Live
        <4>2. [request[n] EXCEPT !.stage = "answered", !.answer = "failed", !.at = 0].stage
                = "answered"
          BY <4>1 DEF Requests
        <4>3. Gone.stage = "gone"
          BY DEF Gone
        <4> QED
          BY <4>2, <4>3 DEF Breaks, Answered, ConsoleTyped
      <3> QED
        BY <1>5, <2>1, <3>1, <3>2, <3>3 DEF Handle
    <2>2. CASE m # n
      <3>1. request' = [request EXCEPT ![m] = request'[m]]
        <4>1. CASE Apply(m)
          BY <4>1 DEF Apply, Answered, Refused, ConsoleTyped
        <4>2. CASE Admit(m) \/ Mistyped(m) \/ Begin(m) \/ Breaks(m) \/ Record(m) \/ Lose(m)
          BY <4>2 DEF Admit, Mistyped, Begin, Breaks, Record, Lose, Answered, ConsoleTyped
        <4>3. CASE SignedOut(m) \/ RevokeAnswered(m) \/ DeactivateAnswered(m) \/ ScopeAnswered(m)
          BY <4>3 DEF SignedOut, RevokeAnswered, DeactivateAnswered, ScopeAnswered, Heard, ConsoleTyped
        <4> QED
          BY <1>5, <4>1, <4>2, <4>3 DEF Handle
      <3> QED
        BY <2>2, <3>1 DEF ConsoleTyped
    <2> QED
      BY <2>1, <2>2
  <1> QED
    BY <1>1, <1>2, <1>3, <1>4, <1>5 DEF Next

LEMMA RetriesRecognised ==
    ASSUME ConsoleInv, Next
    PROVE  RetryIsRecognised
  <1> SUFFICES ASSUME NEW n \in Slot, request[n].stage = "begun", request'[n].stage = "refused",
                      NEW a \in applied, a.op = request[n].op, SameRequest(request[n], a)
               PROVE  FALSE
    BY DEF RetryIsRecognised
  <1>1. ConsoleTyped /\ OncePerForm
    BY DEF ConsoleInv, WritesAsShown
  <1>2. Apply(n) /\ request[n] \in Requests
    BY <1>1, RefusedByApply, LiveIsRequest DEF Live
  <1>3. a \in Prior(request[n])
    BY DEF Prior
  <1>4. \A b \in Prior(request[n]) : b = a
    BY <1>1 DEF Prior, OncePerForm
  <1>5. ~ Writes(n)
    BY <1>3 DEF Writes
  <1> QED
    BY <1>1, <1>2, <1>3, <1>4, <1>5, ApplyCases

\* An answer is about the write of the form that asked: "done" means that very write is
\* in the log, a retry is recognised, and a late answer leaves another form alone.
THEOREM AnswersFitFormsHolds == Spec => AnswersFitForms
  <1>1. ConsoleInv => DoneMeansDone
    BY DEF ConsoleInv
  <1>2. ConsoleInv /\ [Next]_vars => [RetryIsRecognised /\ LateAnswerHarmless]_vars
    <2> SUFFICES ASSUME ConsoleInv, Next PROVE RetryIsRecognised /\ LateAnswerHarmless
      OBVIOUS
    <2>1. LateAnswerHarmless
      BY DEF LateAnswerHarmless, RevokeAnswered, ScopeAnswered, StillCurrent
    <2> QED
      BY <2>1, RetriesRecognised
  <1> QED
    BY <1>1, <1>2, ConsoleInvHolds, PTL DEF Spec, AnswersFitForms

\* A write commits only for a session that is not ended at that moment.
THEOREM SignedOutStaysOutHolds == Spec => SignedOutStaysOut
  <1> DEFINE Heeded == \A a \in applied' \ applied : ~ session[a.session].revoked
  <1>1. ConsoleInv /\ [Next]_vars => [Heeded]_vars
    <2> SUFFICES ASSUME ConsoleInv, Next, NEW a \in applied' \ applied
                 PROVE  ~ session[a.session].revoked
      OBVIOUS
    <2>1. ConsoleTyped
      BY DEF ConsoleInv
    <2>2. PICK n \in Slot : Apply(n)
      <3>1. CASE \E n \in Slot : Handle(n)
        BY <3>1 DEF Handle, Admit, Mistyped, Begin, Breaks, Record, Lose, SignedOut,
                    RevokeAnswered, DeactivateAnswered, ScopeAnswered, Heard
      <3>2. CASE \E b \in Annotator :
                   Publish(b) \/ OpenRevoke(b) \/ OpenDeactivate(b) \/ OpenScope(b)
        BY <3>2 DEF Publish, OpenRevoke, OpenDeactivate, OpenScope, OpenForm
      <3>3. CASE \E n \in Slot, reason \in BOOLEAN :
                   SubmitRevoke(n, reason) \/ SubmitDeactivate(n, reason) \/ SubmitScope(n, reason)
        BY <3>3 DEF SubmitRevoke, SubmitDeactivate, SubmitScope, Send
      <3>4. CASE \/ SignInBegins \/ SignInEnds \/ SignInFails \/ OtherTabSignsIn \/ SignOut
                 \/ Reload \/ PreviewRevoke \/ PreviewDeactivate \/ Cancel \/ Tick
        BY <3>4 DEF SignInBegins, SignInEnds, SignInFails, OtherTabSignsIn, SignOut, Reload,
                    PreviewRevoke, PreviewDeactivate, Cancel, Tick
      <3> QED
        BY <3>1, <3>2, <3>3, <3>4 DEF Next
    <2>3. Writes(n)
      BY <2>1, <2>2, ApplyCases DEF Quiet
    <2>4. a = Entry(n)
      BY <2>3 DEF Writes
    <2>5. a.session = request[n].cookie
      BY <2>4 DEF Entry
    <2> QED
      BY <2>3, <2>5 DEF Writes, SessionHolds, LiveAt
  <1> QED
    BY <1>1, ConsoleInvHolds, PTL DEF Spec, SignedOutStaysOut
=============================================================================
