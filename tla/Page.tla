-------------------------------- MODULE Page --------------------------------
(***************************************************************************)
(* src/src/page.rs: browsers fill in a form of an application whose        *)
(* handlers answer with RedirectOnSuccess or an error page, behind the     *)
(* MethodNotAllowed middleware.  Requests are served at the same time, and *)
(* the first error page of the process decides whether pages have details. *)
(***************************************************************************)
EXTENDS Integers, FiniteSets

CONSTANTS
  Browsers,
  Forms,        \* what the users submit, each once
  Losses,       \* how many responses are lost
  Switches      \* how often DEBUG changes

NoForm == "no form"

ASSUME PageAssumption == Losses \in Nat /\ Switches \in Nat /\ NoForm \notin Forms

VARIABLES
  debug,        \* the value of DEBUG
  switches,     \* its changes so far
  detailed,     \* DETAILED_ERRORS
  tab,          \* the request each browser has under way, or shows the answer of
  applied,      \* how often the handler has carried out each form
  lost          \* how often the answer to each form was lost

pageVars == <<debug, switches, detailed, tab, applied, lost>>

\* A value of DEBUG: absent or not Unicode, "1", "true" with blanks, or another.
Values == {"none", "1", " true ", "yes"}
IsOn(value) == value \in {"1", " true "}

Uris == {"/form", "/done", "/nowhere"}

\* AppError: what an error says of itself, and the defaults.
Error(status, visible) == [status |-> status, visible |-> visible]
UserVisible(e) == IF e.visible = "default" THEN e.status # 500 ELSE e.visible = "shown"
NotFound == Error(404, "default")
MethodNotAllowed == Error(405, "default")
HandlerErrors == {Error(500, "default"), Error(500, "shown"), Error(405, "hidden")}

\* What handlers and extractors answer without an error page: a page or a
\* RedirectOnSuccess::Page of any status, a rejection, a 405 of their own.
BareStatuses == {200, 400, 405}

\* A response: `page' if ErrorPage has rendered it, with or without details.
Response(status, to) == [status |-> status, to |-> to, page |-> FALSE, details |-> FALSE]
NoResponse == Response(0, "none")
Rendered(e, details) == [Response(e.status, "none") EXCEPT !.page = TRUE, !.details = details]

\* Mutant: a redirect keeps the method, and the browser sends the form on.
AfterSubmitKeepingMethod == Response(307, "/form")

\* RedirectOnSuccess: Redirect::to makes the browser GET another page.
AfterSubmit == Response(303, "/done")

PageInit ==
  /\ debug \in Values
  /\ switches = 0
  /\ detailed = {}
  /\ tab = [b \in Browsers |-> [stage |-> "shown", get |-> TRUE, uri |-> "/done", form |-> NoForm,
                                error |-> NotFound, response |-> Response(200, "none")]]
  /\ applied = [f \in Forms |-> 0]
  /\ lost = [f \in Forms |-> 0]

Request(b, get, uri, form) ==
  /\ tab' = [tab EXCEPT ![b] = [@ EXCEPT !.stage = "sent", !.get = get, !.uri = uri, !.form = form,
                                         !.response = NoResponse]]
  /\ UNCHANGED <<debug, switches, detailed, applied, lost>>

\* The user follows a link, submits the form that is shown, posts where only
\* GET is allowed, or reloads.
Visit(b, uri) == tab[b].stage = "shown" /\ Request(b, TRUE, uri, NoForm)

Submit(b, form) ==
  /\ tab[b].stage = "shown" /\ tab[b].uri = "/form" /\ tab[b].response.status = 200
  /\ \A other \in Browsers : tab[other].form # form   \* nobody else submits it
  /\ applied[form] = 0 /\ lost[form] = 0
  /\ Request(b, FALSE, "/form", form)

PostElsewhere(b) == tab[b].stage = "shown" /\ Request(b, FALSE, "/done", NoForm)

Reload(b) == tab[b].stage = "shown" /\ Request(b, tab[b].get, tab[b].uri, tab[b].form)

\* The response of a handler or of the router, on its way through the layers.
Respond(b, response) == tab' = [tab EXCEPT ![b].stage = "routed", ![b].response = response]
Raise(b, e) == tab' = [tab EXCEPT ![b].stage = "raised", ![b].error = e]

\* The form is carried out, comes back, is refused bare, or an error is raised.
\* The router answers what has no handler, unknown paths by a fallback to
\* NotFound or bare.
Handle(b) ==
  /\ tab[b].stage = "sent"
  /\ CASE tab[b].uri = "/nowhere" ->
            (Raise(b, NotFound) \/ Respond(b, Response(404, "none"))) /\ UNCHANGED applied
       [] ~tab[b].get /\ tab[b].uri = "/done" -> Respond(b, Response(405, "none")) /\ UNCHANGED applied
       [] ~tab[b].get /\ tab[b].uri = "/form" ->
            \/ /\ Respond(b, AfterSubmit)
               /\ applied' = [applied EXCEPT ![tab[b].form] = @ + 1]
            \/ \E s \in BareStatuses : Respond(b, Response(s, "none")) /\ UNCHANGED applied
            \/ \E e \in HandlerErrors : Raise(b, e) /\ UNCHANGED applied
       [] OTHER -> /\ \/ \E s \in BareStatuses : Respond(b, Response(s, "none"))
                      \/ \E e \in HandlerErrors : Raise(b, e)
                   /\ UNCHANGED applied
  /\ UNCHANGED <<debug, switches, detailed, lost>>

\* Mutant: DEBUG is looked at for every page.
ErrorPageAnew(b, e, stage) ==
  /\ detailed' = {IsOn(debug)}
  /\ tab' = [tab EXCEPT ![b].stage = stage, ![b].error = e,
                        ![b].response = Rendered(e, IsOn(debug) \/ UserVisible(e))]

\* ErrorPage::into_response: get_or_init() reads DEBUG for the first page, one
\* caller at a time, and keeps the outcome for all of them.
ErrorPage(b, e, stage) ==
  /\ detailed' = IF detailed = {} THEN {IsOn(debug)} ELSE detailed
  /\ tab' = [tab EXCEPT ![b].stage = stage, ![b].error = e,
                        ![b].response = Rendered(e, detailed' = {TRUE} \/ UserVisible(e))]

Render(b) ==
  /\ tab[b].stage = "raised"
  /\ ErrorPage(b, tab[b].error, "routed")
  /\ UNCHANGED <<debug, switches, applied, lost>>

\* Mutant: only the responses of handlers are looked at, not the router's.
MiddlewareOfPages(b) ==
  /\ tab[b].stage = "routed"
  /\ IF tab[b].response.status = 405 /\ tab[b].response.page
     THEN ErrorPage(b, MethodNotAllowed, "answered")
     ELSE tab' = [tab EXCEPT ![b].stage = "answered"] /\ UNCHANGED detailed
  /\ UNCHANGED <<debug, switches, applied, lost>>

\* MethodNotAllowed::middleware: whatever has status 405 is replaced.
Middleware(b) ==
  /\ tab[b].stage = "routed"
  /\ IF tab[b].response.status = 405
     THEN ErrorPage(b, MethodNotAllowed, "answered")
     ELSE tab' = [tab EXCEPT ![b].stage = "answered"] /\ UNCHANGED detailed
  /\ UNCHANGED <<debug, switches, applied, lost>>

\* The browser shows the response, or follows it: after 303 with GET, after
\* 307 with the request it made.
Followed(q) ==
  [q EXCEPT !.stage = "sent", !.uri = q.response.to, !.get = @ \/ q.response.status = 303,
            !.form = IF q.response.status = 303 THEN NoForm ELSE @]

Deliver(b) ==
  /\ tab[b].stage = "answered"
  /\ tab' = [tab EXCEPT ![b] = IF @.response.status \in {303, 307} THEN Followed(@)
                               ELSE [@ EXCEPT !.stage = "shown"]]
  /\ UNCHANGED <<debug, switches, detailed, applied, lost>>

\* The response is lost; the user sees nothing and may reload.
Lose(b) ==
  /\ tab[b].stage = "answered"
  /\ tab[b].form # NoForm
  /\ lost[tab[b].form] < Losses
  /\ lost' = [lost EXCEPT ![tab[b].form] = @ + 1]
  /\ tab' = [tab EXCEPT ![b].stage = "shown", ![b].response = NoResponse]
  /\ UNCHANGED <<debug, switches, detailed, applied>>

\* The process changes its environment.
SwitchDebug ==
  /\ switches < Switches
  /\ switches' = switches + 1
  /\ debug' \in Values \ {debug}
  /\ UNCHANGED <<detailed, tab, applied, lost>>

PageNext ==
  \/ SwitchDebug
  \/ \E b \in Browsers :
       \/ \E uri \in Uris : Visit(b, uri)
       \/ \E form \in Forms : Submit(b, form)
       \/ PostElsewhere(b) \/ Reload(b)
       \/ Handle(b) \/ Middleware(b) \/ Render(b)
       \/ Deliver(b) \/ Lose(b)

PageSpec == PageInit /\ [][PageNext]_pageVars

PageTypeOK ==
  /\ detailed \in {{}, {TRUE}, {FALSE}}
  /\ \A b \in Browsers :
       /\ tab[b].stage \in {"shown", "sent", "raised", "routed", "answered"}
       /\ tab[b].response.page => tab[b].response.status = tab[b].error.status /\ detailed # {}
       /\ tab[b].form # NoForm => ~tab[b].get
  /\ lost \in [Forms -> 0..Losses]

-----------------------------------------------------------------------------
\* One decision holds for the process: all error pages under way or shown, in
\* whatever order and at the same time they were rendered and however DEBUG
\* changes, show the details of internal errors or none of them does, and an
\* error that declares itself visible is always explained (page.rs:28-66).
OneDecision ==
  \A b, c \in Browsers :
    (tab[b].response.page /\ tab[c].response.page) =>
      /\ (tab[b].response.details = tab[c].response.details)
           \/ UserVisible(tab[b].error) # UserVisible(tab[c].error)
      /\ UserVisible(tab[b].error) => tab[b].response.details

\* Post/Redirect/Get: a form is carried out once, however often the user
\* reloads what the answer led to, but for answers that were lost and had to be
\* asked for again (page.rs:151-181).
SubmittedOnce == \A f \in Forms : applied[f] <= 1 + lost[f]

\* Every 405 a browser is shown says which method was refused, whoever
\* answered it: the router, a handler without a page, or an error page that
\* keeps its details to itself (page.rs:131-141).  Nothing of the kind holds of
\* other failures, which the middleware lets pass as they are.
NotAllowedIsExplained ==
  \A b \in Browsers :
    (tab[b].stage = "shown" /\ tab[b].response.status = 405) =>
      /\ tab[b].response.page /\ tab[b].response.details
      /\ tab[b].error = MethodNotAllowed
=============================================================================
