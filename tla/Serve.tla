------------------------------- MODULE Serve -------------------------------
(***************************************************************************)
(* src/src/server.rs: serve(), from Listener::bind to its return, with the *)
(* accept loop and the connection tasks of axum::serve and hyper that it   *)
(* runs on (marked external).                                              *)
(*                                                                         *)
(* serve() binds the listener, passes signal() to axum's graceful shutdown *)
(* and waits.  Once the shutdown future has resolved, axum trips a switch  *)
(* that the accept loop and every connection task watch, each on its own:  *)
(* the loop drops the listener, an idle connection closes, one with a      *)
(* request in progress finishes it first, and serve() returns when none is *)
(* left.  There is no deadline: a request that never ends keeps the server *)
(* up, and so does the first request of a connection if its head, once     *)
(* begun, never arrives in full.                                           *)
(***************************************************************************)
CONSTANT Conns        \* slots for client connections, reused after they close

VARIABLES
  phase,              \* how far serve() has got
  result,             \* what serve() returned
  fired,              \* has the future of shutdown::signal() resolved?
  tripped,            \* has axum dropped signal_rx, which everybody watches?
  conn,               \* per slot: no connection, or how far it has got
  sent,               \* slots whose client has sent a request nobody has read
  closing,            \* connection tasks that have begun their graceful shutdown
  outcome             \* history: how the last request read on a slot ended

serverVars == <<phase, result, tripped, conn, sent, closing, outcome>>
serveVars  == <<serverVars, fired>>

Phase  == {"starting", "bound", "serving", "draining", "returned"}
Result == {"none", "ok", "listener_error", "serve_error"}

ServeInit ==
  /\ phase = "starting"
  /\ result = "none"
  /\ fired = FALSE
  /\ tripped = FALSE
  /\ conn = [c \in Conns |-> "none"]
  /\ sent = {}
  /\ closing = {}
  /\ outcome = [c \in Conns |-> "none"]

ConnState == {"none", "queued",
              "fresh",      \* accepted, nothing received
              "reading",    \* a part of its first request's head received
              "busy",       \* a request is handled
              "open"}       \* it has served requests and waits for the next

Idle(c) == conn[c] \in {"fresh", "open"}
InProgress(c) == conn[c] \in {"reading", "busy"}
Accepted(c) == Idle(c) \/ InProgress(c)

\* axum has spawned the task that awaits the shutdown future; it outlives serve().
Started == phase \in {"serving", "draining"} \/ result \in {"ok", "serve_error"}

\* serve() returns r.
Return(r) == phase' = "returned" /\ result' = r

-----------------------------------------------------------------------------
(* serve() itself.                                                         *)

\* Listener::bind: from here on the kernel queues connections; or the bind, or
\* reading the address back, fails and `?' returns the listener's error.
Bind ==
  /\ phase = "starting"
  /\ \/ phase' = "bound" /\ UNCHANGED result
     \/ Return("listener_error")
  /\ UNCHANGED <<fired, tripped, conn, sent, closing, outcome>>

\* axum::serve(..).with_graceful_shutdown(..).await begins.
StartServing ==
  /\ phase = "bound"
  /\ phase' = "serving"
  /\ UNCHANGED <<result, fired, tripped, conn, sent, closing, outcome>>

\* Mutant: Listener::accept serves one connection to its end before the next.
AcceptOneAtATime(c) ==
  /\ phase = "serving"
  /\ conn[c] = "queued"
  /\ \A d \in Conns : ~Accepted(d)
  /\ conn' = [conn EXCEPT ![c] = "fresh"]
  /\ UNCHANGED <<phase, result, fired, tripped, sent, closing, outcome>>

\* The accept loop's select: it may still accept after the switch has tripped.
\* Listener::accept hands on what the TCP or the Unix listener accepted.
Accept(c) ==
  /\ phase = "serving"
  /\ conn[c] = "queued"
  /\ conn' = [conn EXCEPT ![c] = "fresh"]
  /\ UNCHANGED <<phase, result, fired, tripped, sent, closing, outcome>>

\* Mutant: serve() returns as soon as the listener is closed.
ReturnsUndrained ==
  /\ phase = "draining"
  /\ Return("ok")
  /\ UNCHANGED <<fired, tripped, conn, sent, closing, outcome>>

\* Mutant: serve() takes its connection tasks along when it returns.
ReturnsByAborting ==
  /\ phase = "draining"
  /\ Return("ok")
  /\ conn' = [c \in Conns |-> "none"]
  /\ sent' = {}
  /\ closing' = {}
  /\ UNCHANGED <<fired, tripped, outcome>>

\* axum's future resolves once the last connection task has ended.
Drained ==
  /\ phase = "draining"
  /\ \A c \in Conns : ~Accepted(c)
  /\ Return("ok")
  /\ UNCHANGED <<fired, tripped, conn, sent, closing, outcome>>

\* The connections still in the backlog are reset with the listener.
ResetBacklog ==
  /\ conn' = [c \in Conns |-> IF conn[c] = "queued" THEN "none" ELSE conn[c]]
  /\ sent' = {c \in sent : conn[c] # "queued"}

\* axum reports an I/O error instead.
ServeFails ==
  /\ phase \in {"serving", "draining"}
  /\ Return("serve_error")
  /\ ResetBacklog
  /\ UNCHANGED <<fired, tripped, closing, outcome>>

-----------------------------------------------------------------------------
(* axum's graceful shutdown.                                               *)

\* The task awaiting the shutdown future drops signal_rx.
Trip ==
  /\ fired
  /\ ~tripped
  /\ tripped' = TRUE
  /\ UNCHANGED <<phase, result, fired, conn, sent, closing, outcome>>

\* The accept loop notices, ends and drops the listener.
StopAccepting ==
  /\ phase = "serving"
  /\ tripped
  /\ phase' = "draining"
  /\ ResetBacklog
  /\ UNCHANGED <<result, fired, tripped, closing, outcome>>

\* A connection ends: its task is gone, and so is what its client had sent.
Close(c) ==
  /\ conn' = [conn EXCEPT ![c] = "none"]
  /\ sent' = sent \ {c}
  /\ closing' = closing \ {c}

\* Mutant: idle connections are left to their clients.
ShutDownBusyOnly(c) ==
  /\ tripped
  /\ c \notin closing
  /\ InProgress(c)
  /\ closing' = closing \cup {c}
  /\ UNCHANGED <<conn, sent, phase, result, fired, tripped, outcome>>

\* Mutant: keep-alive stays enabled while a request is in progress.
ShutDownIdleOnly(c) ==
  /\ tripped
  /\ Idle(c)
  /\ Close(c)
  /\ UNCHANGED <<phase, result, fired, tripped, outcome>>

\* A connection task notices.  hyper closes an idle connection at once, with
\* whatever its client may just have sent, and disables keep-alive on one with a
\* request in progress, be it half of its first head.
ShutDownConnection(c) ==
  /\ tripped
  /\ c \notin closing
  /\ \/ Idle(c) /\ Close(c)
     \/ InProgress(c) /\ closing' = closing \cup {c} /\ UNCHANGED <<conn, sent>>
  /\ UNCHANGED <<phase, result, fired, tripped, outcome>>

-----------------------------------------------------------------------------
(* Requests and clients.                                                   *)

\* hyper reads a request and calls the application.
ReadRequest(c) ==
  /\ conn[c] \in {"fresh", "reading", "open"}
  /\ c \in sent
  /\ conn' = [conn EXCEPT ![c] = "busy"]
  /\ sent' = sent \ {c}
  /\ outcome' = [outcome EXCEPT ![c] = "none"]
  /\ UNCHANGED <<phase, result, fired, tripped, closing>>

\* The application's response is written; the connection lives on unless it
\* has been told to close.
Respond(c) ==
  /\ conn[c] = "busy"
  /\ outcome' = [outcome EXCEPT ![c] = "answered"]
  /\ IF c \in closing
       THEN Close(c)
       ELSE conn' = [conn EXCEPT ![c] = "open"] /\ UNCHANGED <<sent, closing>>
  /\ UNCHANGED <<phase, result, fired, tripped>>

\* The kernel completes the connection while the listening socket is open.
Connect(c) ==
  /\ phase \in {"bound", "serving"}
  /\ conn[c] = "none"
  /\ conn' = [conn EXCEPT ![c] = "queued"]
  /\ UNCHANGED <<phase, result, fired, tripped, sent, closing, outcome>>

\* The client sends a request, before or after it has been accepted.
Send(c) ==
  /\ conn[c] \in {"queued", "fresh", "open"}
  /\ c \notin sent
  /\ sent' = sent \cup {c}
  /\ UNCHANGED <<phase, result, fired, tripped, conn, closing, outcome>>

\* A part of the first request's head has arrived; the rest follows, or not.
SendPart(c) ==
  /\ conn[c] = "fresh"
  /\ c \notin sent
  /\ conn' = [conn EXCEPT ![c] = "reading"]
  /\ UNCHANGED <<phase, result, fired, tripped, sent, closing, outcome>>

SendRest(c) ==
  /\ conn[c] = "reading"
  /\ c \notin sent
  /\ sent' = sent \cup {c}
  /\ UNCHANGED <<phase, result, fired, tripped, conn, closing, outcome>>

\* The client goes away.
HangUp(c) ==
  /\ conn[c] # "none"
  /\ outcome' = IF conn[c] = "busy" THEN [outcome EXCEPT ![c] = "hung_up"] ELSE outcome
  /\ Close(c)
  /\ UNCHANGED <<phase, result, fired, tripped>>

\* The environment of this module: the future of signal() resolves.  It is
\* made when serve() passes it to axum, and polled from then on.
SignalFires ==
  /\ Started
  /\ ~fired
  /\ fired' = TRUE
  /\ UNCHANGED serverVars

-----------------------------------------------------------------------------
\* The steps of one connection, and those of the server and its clients.
ConnNext(c) ==
  \/ Accept(c)
  \/ ReadRequest(c)
  \/ Respond(c)
  \/ ShutDownConnection(c)
  \/ Connect(c)
  \/ Send(c) \/ SendPart(c) \/ SendRest(c)
  \/ HangUp(c)

ServerNext ==
  \/ Trip
  \/ StopAccepting
  \/ Drained
  \/ ServeFails
  \/ \E c \in Conns : ConnNext(c)

ServeNext == Bind \/ StartServing \/ SignalFires \/ ServerNext

ServeSpec == ServeInit /\ [][ServeNext]_serveVars

\* serve() runs on, and every task that can move is polled in the end.  No
\* fairness for clients, for the signal, or for the application's handlers.
ServeFairness ==
  /\ WF_serveVars(Bind)
  /\ WF_serveVars(StartServing)
  /\ WF_serveVars(Trip)
  /\ WF_serveVars(StopAccepting)
  /\ WF_serveVars(Drained)
  /\ \A c \in Conns :
       /\ WF_serveVars(Accept(c))
       /\ WF_serveVars(ReadRequest(c))
       /\ WF_serveVars(ShutDownConnection(c))

ServeFairSpec == ServeSpec /\ ServeFairness

-----------------------------------------------------------------------------
(* Properties.                                                             *)

\* Every variable has its type, and only live connections have anything to
\* read or to close.
ServeTypeOK ==
  /\ phase \in Phase
  /\ result \in Result
  /\ fired \in BOOLEAN
  /\ tripped \in BOOLEAN
  /\ conn \in [Conns -> ConnState]
  /\ sent \subseteq {c \in Conns : conn[c] # "none"}
  /\ closing \subseteq {c \in Conns : InProgress(c)}
  /\ outcome \in [Conns -> {"none", "answered", "hung_up"}]

\* serve() returns Ok only after a shutdown signal and with every connection
\* it ever took gone: none is served, none waits in the backlog.
OkMeansDrained ==
  result = "ok" => fired /\ \A c \in Conns : conn[c] = "none"

\* A request that was read is answered unless its client goes away: whatever
\* the switch, the accept loop and the other tasks do, no busy connection is cut.
NoRequestCut ==
  [][\A c \in Conns :
       conn[c] = "busy" /\ conn'[c] # "busy" => outcome'[c] # "none"]_serveVars

\* After the shutdown signal the only thing serve() ever waits for is a request
\* in progress, its head half received or its handler running: neither idle
\* keep-alive clients nor new ones hold it up.
OnlyRequestsDelayReturn ==
  fired ~> (phase = "returned"
              \/ (phase = "draining" /\ \E c \in Conns : InProgress(c) /\ c \in closing))

\* Assumptions on the application and on its clients: a handler that runs comes
\* to an end, and who has sent half a head sends the rest or hangs up.
HandlersFinish == \A c \in Conns : WF_serveVars(Respond(c))
HeadsFinish == \A c \in Conns : WF_serveVars(SendRest(c))

\* If handlers and heads finish, the shutdown signal ends serve(), however busy
\* the clients keep it.
SignalEndsServe == HandlersFinish /\ HeadsFinish => (fired ~> phase = "returned")

\* No client is left in the backlog: it is accepted, reset or goes away.
BacklogServed == \A c \in Conns : conn[c] = "queued" ~> conn[c] # "queued"
=============================================================================
