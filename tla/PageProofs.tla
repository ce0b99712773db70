----------------------------- MODULE PageProofs -----------------------------
(***************************************************************************)
(* Proofs about Page, for any number of browsers, forms, lost answers and  *)
(* changes of DEBUG.                                                       *)
(***************************************************************************)
EXTENDS Page, TLAPS

Stages == {"shown", "sent", "raised", "routed", "answered"}
Errors == HandlerErrors \cup {NotFound, MethodNotAllowed}
Responses == {r \in [status : {0, 200, 303, 400, 404, 405, 500}, to : {"none", "/done"},
                     page : BOOLEAN, details : BOOLEAN] : r.status = 303 => r.to = "/done"}
Tab == [stage : Stages, get : BOOLEAN, uri : Uris, form : Forms \cup {NoForm}, error : Errors,
        response : Responses]

Types ==
  /\ debug \in Values /\ detailed \in {{}, {TRUE}, {FALSE}}
  /\ tab \in [Browsers -> Tab]
  /\ applied \in [Forms -> Nat] /\ lost \in [Forms -> 0..Losses]

\* What a page says follows from its error and the decision d, and past the
\* middleware a 405 is a page of MethodNotAllowed.
PageOK(q, d) ==
  /\ q.response.page =>
       /\ d # {} /\ q.stage \in {"shown", "routed", "answered"}
       /\ q.response.status = q.error.status
       /\ q.response.details <=> (d = {TRUE} \/ UserVisible(q.error))
  /\ q.response.status = 405 =>
       q.stage = "routed" \/ (q.response.page /\ q.error = MethodNotAllowed)

\* A tab that holds a form posts it.
FormOK(q) == q.form # NoForm <=> (~q.get /\ q.uri = "/form")

\* The answer that takes the form out of the tab is on its way.
Redirecting(q) == q.stage \in {"routed", "answered"} /\ q.response.status = 303

\* While a tab holds a form, every time it was carried out but the one on its
\* way has been lost.
AccountOK(q, a, l) ==
  q.form # NoForm => a[q.form] <= l[q.form] + (IF Redirecting(q) THEN 1 ELSE 0)

HeldOnce ==
  \A b, c \in Browsers : tab[b].form = tab[c].form /\ tab[b].form # NoForm => b = c

PageInv ==
  /\ Types
  /\ \A b \in Browsers : PageOK(tab[b], detailed) /\ FormOK(tab[b]) /\ AccountOK(tab[b], applied, lost)
  /\ HeldOnce
  /\ SubmittedOnce

\* The errors, and that none of them is taken for a redirect.
LEMMA ErrorStatus ==
  \A e \in Errors : e.status \in {404, 405, 500} /\ UserVisible(e) \in BOOLEAN
<1>1. \A e \in Errors : e.status \in {404, 405, 500}
  BY DEF Errors, HandlerErrors, NotFound, MethodNotAllowed, Error
<1>2. ASSUME NEW e \in Errors PROVE UserVisible(e) \in BOOLEAN
  <2>1. CASE e.visible = "default"
    BY <2>1 DEF UserVisible
  <2>2. CASE e.visible # "default"
    BY <2>2 DEF UserVisible
  <2> QED
    BY <2>1, <2>2
<1> QED
  BY <1>1, <1>2

LEMMA ResponseTypes ==
  /\ NoResponse \in Responses /\ AfterSubmit \in Responses
  /\ \A s \in {200, 400, 404, 405} : Response(s, "none") \in Responses
  /\ \A e \in Errors, d \in BOOLEAN : Rendered(e, d) \in Responses
<1>1. \A s \in {0, 200, 400, 404, 405}, to \in {"none", "/done"} : Response(s, to) \in Responses
  BY DEF Response, Responses
<1>2. ASSUME NEW e \in Errors, NEW d \in BOOLEAN PROVE Rendered(e, d) \in Responses
  <2>1. Response(e.status, "none") \in Responses
    BY ErrorStatus DEF Response, Responses
  <2>2. ASSUME NEW r \in Responses, NEW t \in BOOLEAN
        PROVE  [r EXCEPT !.page = t] \in Responses /\ [r EXCEPT !.details = t] \in Responses
    BY DEF Responses
  <2>3. [Response(e.status, "none") EXCEPT !.page = TRUE] \in Responses
    BY <2>1, <2>2
  <2>4. [[Response(e.status, "none") EXCEPT !.page = TRUE] EXCEPT !.details = d] \in Responses
    BY <2>2, <2>3
  <2> QED
    BY <2>4 DEF Rendered
<1> QED
  BY <1>1, <1>2 DEF NoResponse, AfterSubmit, Response, Responses

LEMMA PageInitInv == PageInit => PageInv
<1> SUFFICES ASSUME PageInit PROVE PageInv
  OBVIOUS
<1>1. Types
  BY PageAssumption, ResponseTypes DEF PageInit, Types, Tab, Stages, Uris, Errors
<1>2. \A b \in Browsers : /\ PageOK(tab[b], detailed) /\ FormOK(tab[b]) /\ AccountOK(tab[b], applied, lost)
                         /\ tab[b].form = NoForm
  BY DEF PageInit, PageOK, FormOK, AccountOK, Response
<1>3. SubmittedOnce
  BY DEF PageInit, SubmittedOnce
<1> QED
  BY <1>1, <1>2, <1>3 DEF PageInv, HeldOnce

\* Whatever happens to one tab and leaves the forms' accounts alone.
LEMMA TabStep ==
  ASSUME PageInv, NEW b \in Browsers, NEW q \in Tab,
         tab' = [tab EXCEPT ![b] = q], UNCHANGED <<debug, applied, lost>>,
         detailed' \in {{}, {TRUE}, {FALSE}}, detailed # {} => detailed' = detailed,
         PageOK(q, detailed'), FormOK(q), AccountOK(q, applied, lost),
         q.form # NoForm => \A c \in Browsers \ {b} : tab[c].form # q.form
  PROVE  PageInv'
<1>1. Types'
  BY DEF PageInv, Types
<1>2. \A c \in Browsers : tab'[c] = IF c = b THEN q ELSE tab[c]
  BY DEF PageInv, Types
<1>3. ASSUME NEW c \in Browsers PROVE PageOK(tab'[c], detailed')
  <2>1. CASE c = b
    BY <1>2, <2>1
  <2>2. CASE c # b
    <3>1. tab'[c] = tab[c] /\ PageOK(tab[c], detailed)
      BY <1>2, <2>2 DEF PageInv
    <3>2. CASE detailed = {}
      BY <3>1, <3>2 DEF PageOK
    <3>3. CASE detailed' = detailed
      BY <3>1, <3>3
    <3> QED
      BY <3>2, <3>3
  <2> QED
    BY <2>1, <2>2
<1>4. \A c \in Browsers : FormOK(tab'[c]) /\ AccountOK(tab'[c], applied', lost')
  BY <1>2 DEF PageInv
<1>5. HeldOnce' /\ SubmittedOnce'
  BY <1>2 DEF PageInv, HeldOnce, SubmittedOnce
<1> QED
  BY <1>1, <1>3, <1>4, <1>5 DEF PageInv

\* The user's actions show no page and begin no redirect.
LEMMA UserInv ==
  \A b \in Browsers :
    PageInv /\ (\/ \E uri \in Uris : Visit(b, uri)
                \/ \E form \in Forms : Submit(b, form)
                \/ PostElsewhere(b) \/ Reload(b)) => PageInv'
<1> SUFFICES ASSUME NEW b \in Browsers, PageInv,
                    \/ \E uri \in Uris : Visit(b, uri)
                    \/ \E form \in Forms : Submit(b, form)
                    \/ PostElsewhere(b) \/ Reload(b)
             PROVE  PageInv'
  OBVIOUS
<1>1. tab[b] \in Tab /\ detailed \in {{}, {TRUE}, {FALSE}} /\ FormOK(tab[b])
  BY DEF PageInv, Types
<1>2. ASSUME NEW get \in BOOLEAN, NEW uri \in Uris, NEW form \in Forms \cup {NoForm},
             Request(b, get, uri, form), form # NoForm <=> (~get /\ uri = "/form"),
             form # NoForm => /\ applied[form] <= lost[form]
                              /\ \A c \in Browsers \ {b} : tab[c].form # form
      PROVE  PageInv'
  <2> DEFINE q == [tab[b] EXCEPT !.stage = "sent", !.get = get, !.uri = uri, !.form = form,
                                 !.response = NoResponse]
  <2>1. /\ q \in Tab /\ q.stage = "sent" /\ q.get = get /\ q.uri = uri /\ q.form = form
        /\ q.response = NoResponse
    <3>1. NoResponse \in Responses
      BY ResponseTypes
    <3> QED
      BY <1>1, <3>1 DEF Tab, Stages
  <2>2. tab' = [tab EXCEPT ![b] = q] /\ UNCHANGED <<debug, detailed, applied, lost>>
    BY <1>2 DEF Request
  <2> HIDE DEF q
  <2>3. PageOK(q, detailed')
    BY <2>1 DEF PageOK, NoResponse, Response
  <2>4. form # NoForm => lost[form] \in Nat
    BY DEF PageInv, Types
  <2>5. FormOK(q) /\ AccountOK(q, applied, lost)
    BY <1>2, <2>1, <2>4 DEF FormOK, AccountOK, Redirecting
  <2> QED
    BY <1>1, <1>2, <2>1, <2>2, <2>3, <2>5, TabStep
<1>3. \A form \in Forms : form # NoForm
  BY PageAssumption
<1>4. CASE \E uri \in Uris : Visit(b, uri)
  BY <1>2, <1>4 DEF Visit
<1>5. ASSUME NEW form \in Forms, Submit(b, form) PROVE PageInv'
  <2>1. /\ Request(b, FALSE, "/form", form) /\ applied[form] = 0 /\ lost[form] = 0
        /\ \A c \in Browsers : tab[c].form # form
    BY <1>5, Zenon DEF Submit
  <2>2. applied[form] <= lost[form]
    BY <2>1
  <2>3. form \in Forms \cup {NoForm} /\ "/form" \in Uris /\ FALSE \in BOOLEAN
    BY DEF Uris
  <2>4. form # NoForm <=> (~FALSE /\ "/form" = "/form")
    BY <1>3
  <2> QED
    BY <1>2, <2>1, <2>2, <2>3, <2>4
<1>6. CASE PostElsewhere(b)
  BY <1>2, <1>6 DEF PostElsewhere, Uris
<1>7. CASE Reload(b)
  <2>1. ~Redirecting(tab[b]) /\ Request(b, tab[b].get, tab[b].uri, tab[b].form)
    BY <1>7 DEF Reload, Redirecting
  <2>2. tab[b].form # NoForm => /\ applied[tab[b].form] <= lost[tab[b].form] + 0
                                /\ \A c \in Browsers \ {b} : tab[c].form # tab[b].form
    BY <2>1 DEF PageInv, AccountOK, HeldOnce
  <2>3. tab[b].form # NoForm => lost[tab[b].form] \in Nat
    BY <1>1 DEF PageInv, Types, Tab
  <2> QED
    BY <1>1, <1>2, <2>1, <2>2, <2>3 DEF Tab, FormOK
<1> QED
  BY <1>4, <1>5, <1>6, <1>7

\* The answers of handlers and of the router are no pages; the form's account
\* is settled in advance when it was carried out.
LEMMA HandleInv == \A b \in Browsers : PageInv /\ Handle(b) => PageInv'
<1> SUFFICES ASSUME NEW b \in Browsers, PageInv, Handle(b) PROVE PageInv'
  OBVIOUS
<1>1. /\ tab[b] \in Tab /\ tab[b].stage = "sent" /\ detailed \in {{}, {TRUE}, {FALSE}}
      /\ PageOK(tab[b], detailed) /\ FormOK(tab[b]) /\ AccountOK(tab[b], applied, lost)
      /\ ~Redirecting(tab[b]) /\ UNCHANGED <<debug, detailed, lost>>
  BY DEF PageInv, Types, Handle, Redirecting
<1>2. /\ \A c \in Browsers \ {b} : tab[b].form # NoForm => tab[c].form # tab[b].form
      /\ tab[b].form # NoForm => /\ tab[b].form \in Forms /\ lost[tab[b].form] \in Nat
                                 /\ applied[tab[b].form] \in Nat
                                 /\ applied[tab[b].form] <= lost[tab[b].form]
  BY <1>1 DEF PageInv, Types, HeldOnce, AccountOK, Tab
<1>3. ASSUME NEW r \in Responses, ~r.page, r.status # 303, Respond(b, r), UNCHANGED applied
      PROVE  PageInv'
  <2> DEFINE q == [tab[b] EXCEPT !.stage = "routed", !.response = r]
  <2>2. /\ q \in Tab /\ q.stage = "routed" /\ q.response = r
        /\ q.get = tab[b].get /\ q.uri = tab[b].uri /\ q.form = tab[b].form
    BY <1>1, <1>3 DEF Tab, Stages
  <2>3. tab' = [tab EXCEPT ![b] = q]
    BY <1>1, <1>3 DEF Respond, PageInv, Types
  <2> HIDE DEF q
  <2>5. PageOK(q, detailed')
    BY <1>3, <2>2, Zenon DEF PageOK
  <2>6. FormOK(q) /\ AccountOK(q, applied, lost)
    BY <1>1, <1>2, <1>3, <2>2 DEF FormOK, AccountOK, Redirecting
  <2>7. UNCHANGED <<debug, applied, lost>> /\ detailed' = detailed
    BY <1>1, <1>3
  <2>8. q.form # NoForm => \A c \in Browsers \ {b} : tab[c].form # q.form
    BY <1>2, <2>2
  <2> QED
    BY <1>1, <2>2, <2>3, <2>5, <2>6, <2>7, <2>8, TabStep
<1>4. ASSUME NEW e \in Errors, Raise(b, e), UNCHANGED applied PROVE PageInv'
  <2> DEFINE q == [tab[b] EXCEPT !.stage = "raised", !.error = e]
  <2>1. /\ q \in Tab /\ q.stage = "raised" /\ q.response = tab[b].response
        /\ q.get = tab[b].get /\ q.uri = tab[b].uri /\ q.form = tab[b].form
    BY <1>1 DEF Tab, Stages
  <2>2. tab' = [tab EXCEPT ![b] = q]
    BY <1>1, <1>4 DEF Raise, PageInv, Types
  <2> HIDE DEF q
  <2>3. PageOK(q, detailed') /\ FormOK(q) /\ AccountOK(q, applied, lost)
    <3>1. ~tab[b].response.page /\ tab[b].response.status # 405
      BY <1>1 DEF PageOK
    <3>2. PageOK(q, detailed')
      BY <2>1, <3>1, Zenon DEF PageOK
    <3>3. FormOK(q) /\ AccountOK(q, applied, lost)
      BY <1>1, <1>2, <2>1 DEF FormOK, AccountOK, Redirecting
    <3> QED
      BY <3>2, <3>3
  <2>4. UNCHANGED <<debug, applied, lost>> /\ detailed' = detailed
    BY <1>1, <1>4
  <2>5. q.form # NoForm => \A c \in Browsers \ {b} : tab[c].form # q.form
    BY <1>2, <2>1
  <2> QED
    BY <1>1, <2>1, <2>2, <2>3, <2>4, <2>5, TabStep
<1> DEFINE CarriedOut == /\ ~tab[b].get /\ tab[b].uri = "/form" /\ Respond(b, AfterSubmit)
                         /\ applied' = [applied EXCEPT ![tab[b].form] = @ + 1]
<1>5. CASE CarriedOut
  <2> DEFINE f == tab[b].form
             q == [tab[b] EXCEPT !.stage = "routed", !.response = AfterSubmit]
  <2>1. /\ q \in Tab /\ q.stage = "routed" /\ q.response = AfterSubmit
        /\ q.get = tab[b].get /\ q.uri = tab[b].uri /\ q.form = f
    <3>1. AfterSubmit \in Responses
      BY ResponseTypes
    <3> QED
      BY <1>1, <3>1 DEF Tab, Stages
  <2>2. /\ tab' = [tab EXCEPT ![b] = q] /\ f # NoForm /\ f \in Forms
        /\ lost[f] \in Nat /\ applied[f] \in Nat /\ applied[f] <= lost[f]
    BY <1>1, <1>2, <1>5 DEF Respond, FormOK, PageInv, Types
  <2> HIDE DEF q
  <2>3. /\ \A c \in Browsers : tab'[c] = IF c = b THEN q ELSE tab[c]
        /\ \A g \in Forms : applied'[g] = IF g = f THEN applied[f] + 1 ELSE applied[g]
    BY <1>5, <2>2 DEF PageInv, Types
  <2>4. Types'
    <3>1. applied' = [applied EXCEPT ![f] = applied[f] + 1] /\ applied[f] + 1 \in Nat
      BY <1>5, <2>2
    <3>2. applied' \in [Forms -> Nat]
      BY <3>1 DEF PageInv, Types
    <3> QED
      BY <1>1, <2>1, <2>2, <3>2 DEF PageInv, Types
  <2>5. /\ AfterSubmit.status = 303 /\ ~AfterSubmit.page
    BY DEF AfterSubmit, Response
  <2>6. PageOK(q, detailed') /\ FormOK(q) /\ AccountOK(q, applied', lost')
    <3>0. ~q.response.page /\ q.response.status # 405
      BY <2>1, <2>5
    <3>1. PageOK(q, detailed')
      BY <3>0, Zenon DEF PageOK
    <3>2. FormOK(q)
      BY <1>1, <2>1 DEF FormOK
    <3>3. lost' = lost /\ applied'[f] = applied[f] + 1 /\ Redirecting(q)
      BY <1>1, <2>1, <2>2, <2>3, <2>5 DEF Redirecting
    <3>4. AccountOK(q, applied', lost')
      BY <2>1, <2>2, <3>3 DEF AccountOK
    <3> QED
      BY <3>1, <3>2, <3>4
  <2>7. ASSUME NEW c \in Browsers, c # b
        PROVE  PageOK(tab'[c], detailed') /\ FormOK(tab'[c]) /\ AccountOK(tab'[c], applied', lost')
    <3>1. /\ tab'[c] = tab[c] /\ tab[c].form \in Forms \cup {NoForm} /\ tab[c].form # f
          /\ PageOK(tab[c], detailed) /\ FormOK(tab[c]) /\ AccountOK(tab[c], applied, lost)
      BY <1>2, <2>2, <2>3, <2>7 DEF PageInv, Types, Tab
    <3> QED
      BY <1>1, <2>3, <3>1 DEF AccountOK
  <2>8. HeldOnce'
    BY <2>1, <2>3 DEF PageInv, HeldOnce
  <2>9. SubmittedOnce'
    BY <1>1, <2>2, <2>3 DEF PageInv, SubmittedOnce
  <2> QED
    BY <2>3, <2>4, <2>6, <2>7, <2>8, <2>9 DEF PageInv
<1>6. NotFound \in Errors /\ HandlerErrors \subseteq Errors
  BY DEF Errors
<1>7. CASE UNCHANGED applied /\ \E s \in {200, 400, 404, 405} : Respond(b, Response(s, "none"))
  <2>1. \A s \in {200, 400, 404, 405} : Response(s, "none") \in Responses
    BY ResponseTypes
  <2>2. \A s \in {200, 400, 404, 405} :
          ~Response(s, "none").page /\ Response(s, "none").status # 303
    BY DEF Response
  <2> QED
    BY <1>3, <1>7, <2>1, <2>2
<1>8. CASE UNCHANGED applied /\ \E e \in Errors : Raise(b, e)
  BY <1>4, <1>8
<1>9. \/ UNCHANGED applied /\ \E s \in {200, 400, 404, 405} : Respond(b, Response(s, "none"))
      \/ UNCHANGED applied /\ \E e \in Errors : Raise(b, e)
      \/ CarriedOut
  BY <1>6 DEF Handle, BareStatuses
<1> QED
  BY <1>5, <1>7, <1>8, <1>9

\* A rendered page agrees with the decision, whoever takes it; past the
\* middleware it is one of MethodNotAllowed.
LEMMA ErrorPageInv ==
  ASSUME PageInv, NEW b \in Browsers, NEW e \in Errors, NEW stage \in {"routed", "answered"},
         stage = "answered" => e = MethodNotAllowed,
         ErrorPage(b, e, stage), ~Redirecting(tab[b]), UNCHANGED <<debug, applied, lost>>
  PROVE  PageInv'
<1> DEFINE d == detailed' = {TRUE} \/ UserVisible(e)
           q == [tab[b] EXCEPT !.stage = stage, !.error = e, !.response = Rendered(e, d)]
<1>1. /\ tab[b] \in Tab /\ detailed \in {{}, {TRUE}, {FALSE}}
      /\ FormOK(tab[b]) /\ AccountOK(tab[b], applied, lost)
  BY DEF PageInv, Types
<1>2. /\ detailed' \in {{TRUE}, {FALSE}} /\ (detailed # {} => detailed' = detailed)
  <2>1. IsOn(debug) \in BOOLEAN
    BY DEF IsOn
  <2> QED
    BY <1>1, <2>1 DEF ErrorPage
<1>3. d \in BOOLEAN
  BY Zenon
<1>4. Rendered(e, d) \in Responses
  BY <1>3, ResponseTypes
<1>5. /\ Rendered(e, d).status = e.status /\ Rendered(e, d).page /\ (Rendered(e, d).details <=> d)
  BY DEF Rendered, Response
<1>6. tab' = [tab EXCEPT ![b] = q]
  BY <1>1 DEF ErrorPage, PageInv, Types
<1> HIDE DEF d
<1>7. /\ q \in Tab /\ q.stage = stage /\ q.error = e /\ q.response = Rendered(e, d)
      /\ q.get = tab[b].get /\ q.uri = tab[b].uri /\ q.form = tab[b].form
  BY <1>1, <1>4 DEF Tab, Stages
<1> HIDE DEF q
<1>8. PageOK(q, detailed')
  BY <1>2, <1>5, <1>7 DEF PageOK, d
<1>9. FormOK(q) /\ AccountOK(q, applied, lost)
  <2>1. q.response.status # 303
    BY <1>5, <1>7, ErrorStatus
  <2> QED
    BY <1>1, <1>7, <2>1 DEF FormOK, AccountOK, Redirecting
<1>10. q.form # NoForm => \A c \in Browsers \ {b} : tab[c].form # q.form
  BY <1>7 DEF PageInv, HeldOnce
<1> QED
  BY <1>2, <1>6, <1>7, <1>8, <1>9, <1>10, TabStep

\* The middleware leaves alone what is no 405.
LEMMA LayersInv == \A b \in Browsers : PageInv /\ (Render(b) \/ Middleware(b)) => PageInv'
<1> SUFFICES ASSUME NEW b \in Browsers, PageInv, Render(b) \/ Middleware(b) PROVE PageInv'
  OBVIOUS
<1>1. /\ tab[b] \in Tab /\ detailed \in {{}, {TRUE}, {FALSE}} /\ PageOK(tab[b], detailed)
      /\ FormOK(tab[b]) /\ AccountOK(tab[b], applied, lost)
  BY DEF PageInv, Types
<1>2. tab[b].error \in Errors /\ MethodNotAllowed \in Errors
  BY <1>1 DEF Tab, Errors
<1>3. CASE Render(b)
  <2>1. ErrorPage(b, tab[b].error, "routed") /\ ~Redirecting(tab[b]) /\ UNCHANGED <<debug, applied, lost>>
    BY <1>3 DEF Render, Redirecting
  <2> QED
    BY <1>2, <2>1, ErrorPageInv
<1>4. CASE Middleware(b) /\ tab[b].response.status = 405
  <2>1. ErrorPage(b, MethodNotAllowed, "answered") /\ ~Redirecting(tab[b]) /\ UNCHANGED <<debug, applied, lost>>
    BY <1>4 DEF Middleware, Redirecting
  <2> QED
    BY <1>2, <2>1, ErrorPageInv
<1>5. CASE Middleware(b) /\ tab[b].response.status # 405
  <2> DEFINE q == [tab[b] EXCEPT !.stage = "answered"]
  <2>1. /\ q \in Tab /\ q.stage = "answered" /\ q.response = tab[b].response /\ q.error = tab[b].error
        /\ q.get = tab[b].get /\ q.uri = tab[b].uri /\ q.form = tab[b].form
    BY <1>1 DEF Tab, Stages
  <2>2. /\ tab' = [tab EXCEPT ![b] = q] /\ tab[b].stage = "routed"
        /\ UNCHANGED <<debug, detailed, applied, lost>>
    BY <1>1, <1>5 DEF Middleware
  <2> HIDE DEF q
  <2>3. PageOK(q, detailed')
    BY <1>1, <1>5, <2>1, <2>2 DEF PageOK
  <2>4. FormOK(q) /\ AccountOK(q, applied, lost)
    BY <1>1, <2>1, <2>2 DEF FormOK, AccountOK, Redirecting
  <2>5. q.form # NoForm => \A c \in Browsers \ {b} : tab[c].form # q.form
    BY <2>1 DEF PageInv, HeldOnce
  <2> QED
    BY <1>1, <2>1, <2>2, <2>3, <2>4, <2>5, TabStep
<1> QED
  BY <1>3, <1>4, <1>5

\* The browser follows a redirect without the form, or shows the answer.
LEMMA DeliverInv == \A b \in Browsers : PageInv /\ Deliver(b) => PageInv'
<1> SUFFICES ASSUME NEW b \in Browsers, PageInv, Deliver(b) PROVE PageInv'
  OBVIOUS
<1>1. /\ tab[b] \in Tab /\ detailed \in {{}, {TRUE}, {FALSE}} /\ PageOK(tab[b], detailed)
      /\ FormOK(tab[b]) /\ AccountOK(tab[b], applied, lost)
  BY DEF PageInv, Types
<1>2. tab[b].stage = "answered" /\ UNCHANGED <<debug, detailed, applied, lost>>
  BY DEF Deliver
<1>3. tab[b].response.status # 307 /\ (tab[b].response.status = 303 => tab[b].response.to = "/done")
  BY <1>1 DEF Tab, Responses
<1>4. CASE tab[b].response.status = 303
  <2> DEFINE get == tab[b].get \/ tab[b].response.status = 303
             to == tab[b].response.to
             form == IF tab[b].response.status = 303 THEN NoForm ELSE tab[b].form
             q == [tab[b] EXCEPT !.stage = "sent", !.uri = to, !.get = get, !.form = form]
  <2>1. get \in BOOLEAN /\ to = "/done" /\ form = NoForm
    BY <1>3, <1>4, Zenon
  <2>2. tab' = [tab EXCEPT ![b] = q]
    BY <1>4 DEF Deliver, Followed
  <2> HIDE DEF get, to, form
  <2>3. /\ q \in Tab /\ q.stage = "sent" /\ q.response = tab[b].response /\ q.uri = "/done" /\ q.form = NoForm
    BY <1>1, <2>1 DEF Tab, Stages, Uris
  <2>4. ~tab[b].response.page
    <3>1. tab[b].error.status # 303
      BY <1>1, ErrorStatus DEF Tab
    <3> QED
      BY <1>1, <1>4, <3>1, Zenon DEF PageOK
  <2> HIDE DEF q
  <2>5. ~q.response.page /\ q.response.status # 405
    BY <1>4, <2>3, <2>4
  <2>6. PageOK(q, detailed')
    BY <2>5, Zenon DEF PageOK
  <2>7. FormOK(q) /\ AccountOK(q, applied, lost)
    BY <2>3 DEF FormOK, AccountOK
  <2> QED
    BY <1>1, <1>2, <2>3, <2>2, <2>6, <2>7, TabStep
<1>5. CASE tab[b].response.status # 303
  <2> DEFINE q == [tab[b] EXCEPT !.stage = "shown"]
  <2>1. /\ q \in Tab /\ q.stage = "shown" /\ q.response = tab[b].response /\ q.error = tab[b].error
        /\ q.get = tab[b].get /\ q.uri = tab[b].uri /\ q.form = tab[b].form
    BY <1>1 DEF Tab, Stages
  <2>2. tab' = [tab EXCEPT ![b] = q]
    BY <1>1, <1>3, <1>5 DEF Deliver
  <2> HIDE DEF q
  <2>3. PageOK(q, detailed')
    BY <1>1, <1>2, <2>1 DEF PageOK
  <2>4. FormOK(q) /\ AccountOK(q, applied, lost)
    BY <1>1, <1>5, <2>1 DEF FormOK, AccountOK, Redirecting
  <2>5. q.form # NoForm => \A c \in Browsers \ {b} : tab[c].form # q.form
    BY <2>1 DEF PageInv, HeldOnce
  <2> QED
    BY <1>1, <1>2, <2>1, <2>2, <2>3, <2>4, <2>5, TabStep
<1> QED
  BY <1>3, <1>4, <1>5

\* A lost answer is accounted for.
LEMMA LoseInv == \A b \in Browsers : PageInv /\ Lose(b) => PageInv'
<1> SUFFICES ASSUME NEW b \in Browsers, PageInv, Lose(b) PROVE PageInv'
  OBVIOUS
<1> DEFINE f == tab[b].form
           q == [tab[b] EXCEPT !.stage = "shown", !.response = NoResponse]
<1>1. /\ tab[b] \in Tab /\ detailed \in {{}, {TRUE}, {FALSE}}
      /\ FormOK(tab[b]) /\ AccountOK(tab[b], applied, lost)
      /\ f \in Forms /\ f # NoForm /\ lost[f] < Losses /\ UNCHANGED <<debug, detailed, applied>>
  BY DEF PageInv, Types, Lose, Tab
<1>2. /\ q \in Tab /\ q.stage = "shown" /\ q.response = NoResponse
      /\ q.get = tab[b].get /\ q.uri = tab[b].uri /\ q.form = f
  BY <1>1, ResponseTypes DEF Tab, Stages
<1>3. tab' = [tab EXCEPT ![b] = q] /\ lost' = [lost EXCEPT ![f] = lost[f] + 1]
  BY <1>1 DEF Lose, PageInv, Types
<1> HIDE DEF q
<1>4. lost[f] \in Nat /\ applied[f] \in Nat /\ lost[f] + 1 \in 0..Losses
  BY <1>1, PageAssumption DEF PageInv, Types
<1>5. /\ \A c \in Browsers : tab'[c] = IF c = b THEN q ELSE tab[c]
      /\ \A g \in Forms : lost'[g] = IF g = f THEN lost[f] + 1 ELSE lost[g]
  BY <1>3 DEF PageInv, Types
<1>6. Types'
  BY <1>1, <1>2, <1>3, <1>4 DEF PageInv, Types
<1>7. PageOK(q, detailed') /\ FormOK(q) /\ AccountOK(q, applied', lost')
  <2>1. ~q.response.page /\ q.response.status # 405 /\ ~Redirecting(q)
    BY <1>2 DEF NoResponse, Response, Redirecting
  <2>2. PageOK(q, detailed')
    BY <2>1, Zenon DEF PageOK
  <2>3. FormOK(q)
    BY <1>1, <1>2 DEF FormOK
  <2>4. applied[f] <= lost'[f]
    BY <1>1, <1>4, <1>5 DEF AccountOK
  <2>5. lost'[f] \in Nat
    BY <1>1, <1>4, <1>5
  <2>6. AccountOK(q, applied', lost')
    BY <1>1, <1>2, <2>1, <2>4, <2>5 DEF AccountOK
  <2> QED
    BY <2>2, <2>3, <2>6
<1>8. ASSUME NEW c \in Browsers, c # b
      PROVE  PageOK(tab'[c], detailed') /\ FormOK(tab'[c]) /\ AccountOK(tab'[c], applied', lost')
  <2>1. /\ tab'[c] = tab[c] /\ tab[c].form \in Forms \cup {NoForm} /\ tab[c].form # f
        /\ PageOK(tab[c], detailed) /\ FormOK(tab[c]) /\ AccountOK(tab[c], applied, lost)
    BY <1>1, <1>5, <1>8 DEF PageInv, Types, Tab, HeldOnce
  <2> QED
    BY <1>1, <1>5, <2>1 DEF AccountOK
<1>9. HeldOnce'
  BY <1>2, <1>5 DEF PageInv, HeldOnce
<1>10. SubmittedOnce'
  BY <1>1, <1>4, <1>5 DEF PageInv, SubmittedOnce
<1> QED
  BY <1>5, <1>6, <1>7, <1>8, <1>9, <1>10 DEF PageInv

LEMMA PageInvStep == PageInv /\ [PageNext]_pageVars => PageInv'
<1> SUFFICES ASSUME PageInv, [PageNext]_pageVars PROVE PageInv'
  OBVIOUS
<1>1. CASE SwitchDebug
  BY <1>1 DEF SwitchDebug, PageInv, Types, HeldOnce, SubmittedOnce
<1>2. CASE UNCHANGED pageVars
  BY <1>2 DEF pageVars, PageInv, Types, HeldOnce, SubmittedOnce
<1> QED
  BY <1>1, <1>2, UserInv, HandleInv, LayersInv, DeliverInv, LoseInv DEF PageNext

LEMMA PageInvariant == PageSpec => []PageInv
  BY PageInitInv, PageInvStep, PTL DEF PageSpec

\* Type correctness of the requests and of the decision (PageTypeOK).
THEOREM PageTypeCorrect == PageSpec => []PageTypeOK
<1>1. PageInv => PageTypeOK
  BY DEF PageInv, Types, Tab, Stages, PageOK, FormOK, PageTypeOK
<1> QED
  BY <1>1, PageInvariant, PTL

\* All error pages of the process agree on showing details (OneDecision).
THEOREM PagesAgree == PageSpec => []OneDecision
<1>1. ASSUME PageInv, NEW b \in Browsers, tab[b].response.page
      PROVE  /\ tab[b].response.details \in BOOLEAN
             /\ tab[b].response.details <=> (detailed = {TRUE} \/ UserVisible(tab[b].error))
             /\ UserVisible(tab[b].error) \in BOOLEAN
  <2>1. tab[b].response \in Responses /\ tab[b].error \in Errors /\ PageOK(tab[b], detailed)
    BY <1>1 DEF PageInv, Types, Tab
  <2>2. tab[b].response.details \in BOOLEAN
    BY <2>1 DEF Responses
  <2> QED
    BY <1>1, <2>1, <2>2, ErrorStatus, Zenon DEF PageOK
<1>2. PageInv => OneDecision
  BY <1>1, Zenon DEF OneDecision
<1> QED
  BY <1>2, PageInvariant, PTL

\* A form is carried out once more than its answers were lost, at most
\* (SubmittedOnce).
THEOREM FormsAreSubmittedOnce == PageSpec => []SubmittedOnce
<1>1. PageInv => SubmittedOnce
  BY DEF PageInv
<1> QED
  BY <1>1, PageInvariant, PTL

\* Every 405 a browser shows is the page that names the refused method,
\* whoever answered it (NotAllowedIsExplained).
THEOREM NotAllowedExplained == PageSpec => []NotAllowedIsExplained
<1>1. UserVisible(MethodNotAllowed)
  BY DEF UserVisible, MethodNotAllowed, Error
<1>2. ASSUME PageInv, NEW b \in Browsers, tab[b].stage = "shown", tab[b].response.status = 405
      PROVE  tab[b].response.page /\ tab[b].response.details /\ tab[b].error = MethodNotAllowed
  <2>1. PageOK(tab[b], detailed)
    BY <1>2 DEF PageInv
  <2>2. tab[b].response.page /\ tab[b].error = MethodNotAllowed
    BY <1>2, <2>1, Zenon DEF PageOK
  <2> QED
    BY <1>1, <2>1, <2>2, Zenon DEF PageOK
<1>3. PageInv => NotAllowedIsExplained
  BY <1>2 DEF NotAllowedIsExplained
<1> QED
  BY <1>3, PageInvariant, PTL
=============================================================================
