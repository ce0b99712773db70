------------------------------ MODULE HttpApp ------------------------------
(***************************************************************************)
(* An application built as the README's example: main starts up, calls     *)
(* twelve::serve() and returns when it does.  Other components of the      *)
(* application may hold tokens from shutdown::token().                     *)
(*                                                                         *)
(* The module composes Shutdown and Serve.  The future that axum awaits in *)
(* Serve is the future Http of Shutdown: serve() makes it only after the   *)
(* listener is bound, in the arguments of with_graceful_shutdown().        *)
(***************************************************************************)
EXTENDS Shutdown

CONSTANTS
  Http,               \* the call of signal() inside serve()
  Conns               \* slots for client connections

ASSUME HttpAssumption == Waiters = {Http}

VARIABLES phase, result, tripped, conn, sent, closing, outcome

serverVars == <<phase, result, tripped, conn, sent, closing, outcome>>
appVars    == <<shutdownVars, serverVars>>

Server == INSTANCE Serve WITH fired <- stage[Http] = "done"

AppInit ==
  /\ Init
  /\ Server!ServeInit

\* A step A of the server, in a process that runs.
InServer(A) ==
  /\ Running
  /\ UNCHANGED shutdownVars
  /\ A

\* A step A of the shutdown machinery.
InShutdown(A) == A /\ UNCHANGED serverVars

\* Mutant: signal() registers nothing before its future is polled.
BeginServingUnregistered == InServer(Server!StartServing)

\* axum's future is polled once signal() has returned.
BeginServing == stage[Http] = "waiting" /\ InServer(Server!StartServing)

\* serve() calls signal() after Listener::bind.
CallSignal == phase = "bound" /\ InShutdown(InstallTerminate(Http) \/ ContinueCall(Http))

\* Mutant: the future is polled before the server listens.
ResolveHttpEarly == InShutdown(Resolve(Http))

\* axum spawns the task that awaits the future when it begins to serve.
ResolveHttp == Server!Started /\ InShutdown(Resolve(Http))

\* main returns when serve() has.
ExitMain == phase = "returned" /\ InShutdown(Exit)

\* A component of the application calls token(), at any time.
CallToken(t) == InShutdown(InstallTerminate(t) \/ ContinueCall(t))

AppNext ==
  \/ InServer(Server!Bind)
  \/ BeginServing
  \/ InServer(Server!ServerNext)
  \/ CallSignal
  \/ ResolveHttp
  \/ ExitMain
  \/ \E t \in Tokens : CallToken(t) \/ InShutdown(TokenNext(t))
  \/ \E k \in Kinds : InShutdown(Raise(k) \/ Broadcast(k))

AppSpec == AppInit /\ [][AppNext]_appVars

\* main proceeds, and tasks that can move are polled; handlers, clients and
\* signals are not under the application's scheduler.
AppFairness ==
  /\ WF_appVars(InServer(Server!Bind))
  /\ WF_appVars(BeginServing)
  /\ WF_appVars(InServer(Server!Trip))
  /\ WF_appVars(InServer(Server!StopAccepting))
  /\ WF_appVars(InServer(Server!Drained))
  /\ WF_appVars(CallSignal)
  /\ WF_appVars(ResolveHttp)
  /\ WF_appVars(ExitMain)
  /\ \A c \in Conns :
       /\ WF_appVars(InServer(Server!Accept(c)))
       /\ WF_appVars(InServer(Server!ReadRequest(c)))
       /\ WF_appVars(InServer(Server!ShutDownConnection(c)))
  /\ \A t \in Tokens :
       /\ WF_appVars(InShutdown(ContinueCall(t)))
       /\ WF_appVars(InShutdown(WatcherSignalled(t) \/ WatcherReleased(t)))
  /\ \A k \in Kinds : WF_appVars(InShutdown(Broadcast(k)))

AppFairSpec == AppSpec /\ AppFairness

-----------------------------------------------------------------------------
(* Properties.                                                             *)

\* The composition keeps the types and the well-formedness of both parts.
AppTypeOK == TypeOK /\ Server!ServeTypeOK

\* Only a caught signal starts the shutdown of the server.  In particular it
\* does not observe anybody's token (shutdown.rs:10-12): cancelling one by hand
\* leaves the server up.
OnlySignalsTrip == tripped => Caught

\* While serve() serves or drains, a signal never kills the process and cuts
\* its requests, unless the registration of that signal failed.
NoKillWhileServing ==
  [][Running /\ process' = "killed" /\ phase \in {"serving", "draining"}
     => \E k \in Kinds : raised'[k] # raised[k] /\ handler[k] = "failed"]_appVars

\* Inside the application serve() behaves as the module Serve says.
ImplementsServe == Server!ServeSpec

\* The application's assumption, and its clients': a request in progress comes
\* to an end, its head and its handler.
AppRequestsFinish ==
  \A c \in Conns : WF_appVars(InServer(Server!Respond(c))) /\ WF_appVars(InServer(Server!SendRest(c)))

\* No component of the application ever asks for a token.
HttpOnly == [](\A t \in Tokens : stage[t] = "uncalled")

\* An HTTP-only application, which takes no tokens, needs nothing else
\* (shutdown.rs:3-4): a termination signal ends it at any time, by its default
\* action before serve() has registered and gracefully after.  The exception is
\* a signal that arrives inside the registration of its own kind: caught by the
\* handler and broadcast before the stream exists, it is lost (shutdown.rs:87).
\* One that comes later is not.
HttpOnlyStops ==
  AppRequestsFinish /\ HttpOnly =>
    \A k \in Kinds : k \in timely ~> ~Running

\* With tokens: a signal raised once serve() listens ends the application, and
\* also reaches every token that was out: both listen independently.
OneSignalStopsAll ==
  AppRequestsFinish =>
    /\ owed[Http] # {} ~> ~Running
    /\ \A t \in Tokens : owed[t] # {} ~> (cancelled[t] \/ ~Running)

\* server.rs:15, "Runs an Axum router until process shutdown": once a signal
\* has told a component of the application to stop, serve() stops too.
ServesUntilShutdown ==
  AppRequestsFinish => \A t \in Tokens : owed[t] # {} ~> ~Running
=============================================================================
