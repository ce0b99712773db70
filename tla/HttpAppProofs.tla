--------------------------- MODULE HttpAppProofs ---------------------------
(***************************************************************************)
(* Proofs about HttpApp, for any number of tokens, connections and signals.*)
(*                                                                         *)
(* Every step of the application is a step of Shutdown or leaves it alone, *)
(* so what ShutdownProofs proves holds here too; and it is a step of Serve *)
(* or leaves it alone, where the resolution of the future Http is Serve's  *)
(* SignalFires.                                                            *)
(***************************************************************************)
EXTENDS HttpApp, ShutdownProofs

-----------------------------------------------------------------------------
(* The two parts.                                                          *)

\* Every step of the application is one of the shutdown machinery, or none.
LEMMA AppStepIsShutdownStep == [AppNext]_appVars => [Next]_shutdownVars
<1> SUFFICES ASSUME [AppNext]_appVars PROVE Next \/ UNCHANGED shutdownVars
  OBVIOUS
<1> USE HttpAssumption DEF Next, Futures
<1>1. CASE InServer(Server!Bind) \/ BeginServing \/ InServer(Server!ServerNext)
  BY <1>1 DEF InServer, BeginServing
<1>2. CASE CallSignal
  BY <1>2 DEF CallSignal, InShutdown
<1>3. CASE ResolveHttp \/ ExitMain
  BY <1>3 DEF ResolveHttp, ExitMain, InShutdown, WaiterNext
<1>4. ASSUME NEW t \in Tokens, CallToken(t) \/ InShutdown(TokenNext(t))
      PROVE  Next
  BY <1>4 DEF CallToken, InShutdown
<1>5. ASSUME NEW k \in Kinds, InShutdown(Raise(k) \/ Broadcast(k)) PROVE Next
  BY <1>5 DEF InShutdown
<1>6. CASE UNCHANGED appVars
  BY <1>6 DEF appVars
<1> QED
  BY <1>1, <1>2, <1>3, <1>4, <1>5, <1>6 DEF AppNext

\* So the application inherits the invariant of the shutdown machinery.
LEMMA AppShutdownInvariant == AppSpec => []IInv
<1>1. AppInit => Init
  BY DEF AppInit
<1>2. AppSpec => Spec
  BY <1>1, AppStepIsShutdownStep, PTL DEF AppSpec, Spec
<1> QED
  BY <1>2, Invariant, PTL

\* The steps of the shutdown machinery that are not Http's own resolution.
OtherNext ==
  \/ \E f \in Futures : InstallTerminate(f) \/ ContinueCall(f)
  \/ \E t \in Tokens : TokenNext(t)
  \/ \E k \in Kinds : Raise(k) \/ Broadcast(k)
  \/ Exit

\* None of them makes the future Http resolve, nor undoes it.
LEMMA OthersDoNotFire ==
  ASSUME TypeOK, OtherNext
  PROVE  (stage[Http] = "done") <=> (stage'[Http] = "done")
<1> USE HttpAssumption, ShutdownAssumption DEF TypeOK, Futures
<1>1. ASSUME NEW f \in Futures, InstallTerminate(f) \/ ContinueCall(f)
      PROVE  (stage[Http] = "done") <=> (stage'[Http] = "done")
  BY <1>1 DEF InstallTerminate, ContinueCall, SubscribeTerminate, InstallInterrupt,
              SubscribeInterrupt, Advance
<1>2. ASSUME NEW t \in Tokens, TokenNext(t) PROVE stage[Http] = stage'[Http]
  BY <1>2 DEF TokenNext, WatcherSignalled, WatcherReleased, CancelToken, Finish,
              SignalReady, futureVars
<1>3. CASE Exit \/ \E k \in Kinds : Raise(k) \/ Broadcast(k)
  BY <1>3 DEF Exit, Raise, Broadcast, futureVars
<1> QED
  BY <1>1, <1>2, <1>3 DEF OtherNext

\* Every step of the application is one of Serve, or none.
LEMMA AppStepIsServeStep ==
  TypeOK /\ [AppNext]_appVars => [Server!ServeNext]_(Server!serveVars)
<1> SUFFICES ASSUME TypeOK, [AppNext]_appVars
             PROVE  Server!ServeNext \/ UNCHANGED Server!serveVars
  OBVIOUS
<1>1. CASE InServer(Server!Bind) \/ BeginServing \/ InServer(Server!ServerNext)
  BY <1>1 DEF InServer, BeginServing, Server!ServeNext
<1>2. CASE ResolveHttp
  <2>1. stage[Http] # "done" /\ stage'[Http] = "done"
    BY <1>2, HttpAssumption
    DEF ResolveHttp, InShutdown, Resolve, SignalReady, Finish, TypeOK, Futures
  <2>2. Server!SignalFires
    BY <1>2, <2>1 DEF ResolveHttp, InShutdown, Server!SignalFires, Server!serverVars,
                      serverVars
  <2> QED
    BY <2>2 DEF Server!ServeNext
<1>3. ASSUME UNCHANGED serverVars, (stage[Http] = "done") <=> (stage'[Http] = "done")
      PROVE  UNCHANGED Server!serveVars
  BY <1>3 DEF serverVars, Server!serveVars, Server!serverVars
<1>4. ASSUME UNCHANGED serverVars, OtherNext PROVE UNCHANGED Server!serveVars
  BY <1>3, <1>4, OthersDoNotFire
<1>5. CASE CallSignal \/ ExitMain
  BY <1>4, <1>5, HttpAssumption
  DEF CallSignal, ExitMain, InShutdown, OtherNext, Futures
<1>6. ASSUME NEW t \in Tokens, CallToken(t) \/ InShutdown(TokenNext(t))
      PROVE  UNCHANGED Server!serveVars
  BY <1>4, <1>6 DEF CallToken, InShutdown, OtherNext, Futures
<1>7. ASSUME NEW k \in Kinds, InShutdown(Raise(k) \/ Broadcast(k))
      PROVE  UNCHANGED Server!serveVars
  BY <1>4, <1>7 DEF InShutdown, OtherNext
<1>8. CASE UNCHANGED appVars
  BY <1>3, <1>8 DEF appVars, shutdownVars, futureVars
<1> QED
  BY <1>1, <1>2, <1>5, <1>6, <1>7, <1>8 DEF AppNext

\* Inside the application serve() behaves as Serve says, and Serve's signal is
\* the resolution of the future that serve() took from shutdown::signal().
THEOREM AppServes == AppSpec => ImplementsServe
<1>1. AppInit => Server!ServeInit
  BY DEF AppInit
<1>2. IInv => TypeOK
  BY DEF IInv
<1> QED
  BY <1>1, <1>2, AppStepIsServeStep, AppShutdownInvariant, PTL
  DEF AppSpec, ImplementsServe, Server!ServeSpec

\* What ServeProofs shows of Serve alone, with this application's future.
ServerProofs == INSTANCE ServeProofs WITH fired <- stage[Http] = "done"

\* The server's types survive every step of the application.
LEMMA ServerTypeStep ==
  TypeOK /\ Server!ServeTypeOK /\ [AppNext]_appVars => Server!ServeTypeOK'
<1> SUFFICES ASSUME TypeOK, Server!ServeTypeOK, [AppNext]_appVars PROVE Server!ServeTypeOK'
  OBVIOUS
<1>1. [Server!ServeNext]_(Server!serveVars)
  BY AppStepIsServeStep
<1>2. /\ Server!ServeTypeOK <=> ServerProofs!ServeTypeOK
      /\ Server!ServeTypeOK' <=> ServerProofs!ServeTypeOK'
  BY DEF Server!ServeTypeOK, ServerProofs!ServeTypeOK, Server!Phase, ServerProofs!Phase,
         Server!Result, ServerProofs!Result, Server!ConnState, ServerProofs!ConnState,
         Server!InProgress, ServerProofs!InProgress
<1>3. UNCHANGED Server!serveVars => UNCHANGED ServerProofs!serveVars
  BY DEF Server!serveVars, ServerProofs!serveVars, Server!serverVars, ServerProofs!serverVars
<1>4. Server!ServeNext => ServerProofs!ServeNext
  BY
  DEF Server!ServeNext, ServerProofs!ServeNext, Server!ServerNext, ServerProofs!ServerNext,
      Server!ConnNext, ServerProofs!ConnNext, Server!Bind, ServerProofs!Bind, Server!Return,
      ServerProofs!Return, Server!StartServing, ServerProofs!StartServing, Server!Accept,
      ServerProofs!Accept, Server!Accepted, ServerProofs!Accepted, Server!Drained,
      ServerProofs!Drained, Server!ResetBacklog, ServerProofs!ResetBacklog, Server!ServeFails,
      ServerProofs!ServeFails, Server!Trip, ServerProofs!Trip, Server!StopAccepting,
      ServerProofs!StopAccepting, Server!Close, ServerProofs!Close, Server!ShutDownConnection,
      ServerProofs!ShutDownConnection, Server!ReadRequest, ServerProofs!ReadRequest, Server!Respond,
      ServerProofs!Respond, Server!Connect, ServerProofs!Connect, Server!Send, ServerProofs!Send,
      Server!SendPart, ServerProofs!SendPart, Server!SendRest, ServerProofs!SendRest,
      Server!Idle, ServerProofs!Idle, Server!InProgress, ServerProofs!InProgress,
      Server!HangUp, ServerProofs!HangUp, Server!SignalFires, ServerProofs!SignalFires,
      Server!serverVars, ServerProofs!serverVars, Server!Started, ServerProofs!Started,
      Server!serveVars, ServerProofs!serveVars
<1> QED
  BY <1>1, <1>2, <1>3, <1>4, ServerProofs!ServeTypeStep

\* Both parts keep their types in the composition (AppTypeOK).
THEOREM AppTypeCorrect == AppSpec => []AppTypeOK
<1>1. AppInit => Server!ServeTypeOK
  BY DEF AppInit, Server!ServeInit, Server!ServeTypeOK, Server!Phase, Server!Result,
         Server!ConnState, Server!InProgress
<1>2. IInv => TypeOK
  BY DEF IInv
<1>3. TypeOK /\ Server!ServeTypeOK => AppTypeOK
  BY DEF AppTypeOK
<1> QED
  BY <1>1, <1>2, <1>3, ServerTypeStep, AppShutdownInvariant, PTL DEF AppSpec

-----------------------------------------------------------------------------
(* Shutdown and server together.                                           *)

\* What the server's progress says of its future: it is made before serving
\* begins, and the switch is tripped only after it has resolved.
HttpProgress ==
  /\ phase \in {"serving", "draining"} => Returned(Http)
  /\ tripped => stage[Http] = "done"

\* One step keeps it.
LEMMA HttpProgressStep ==
  TypeOK /\ HttpProgress /\ [AppNext]_appVars => HttpProgress'
<1> SUFFICES ASSUME TypeOK, HttpProgress, [AppNext]_appVars PROVE HttpProgress'
  OBVIOUS
<1> USE HttpAssumption, ShutdownAssumption DEF HttpProgress, TypeOK, Futures, Returned
<1>1. CASE InServer(Server!Bind) \/ BeginServing
  BY <1>1 DEF InServer, BeginServing, Server!Bind, Server!Return, Server!StartServing,
              shutdownVars, futureVars
<1>2. CASE InServer(Server!ServerNext)
  <2>1. UNCHANGED stage
    BY <1>2 DEF InServer, shutdownVars, futureVars
  <2>2. ASSUME NEW c \in Conns, Server!ConnNext(c) PROVE UNCHANGED <<phase, tripped>>
    BY <2>2 DEF Server!ConnNext, Server!Accept, Server!ReadRequest, Server!Respond,
                Server!ShutDownConnection, Server!Connect, Server!Send, Server!SendPart,
                Server!SendRest, Server!HangUp
  <2>3. CASE Server!Trip \/ Server!StopAccepting
    BY <2>1, <2>3 DEF Server!Trip, Server!StopAccepting
  <2>4. CASE Server!Drained \/ Server!ServeFails
    BY <2>1, <2>4 DEF Server!Drained, Server!ServeFails, Server!Return
  <2> QED
    BY <1>2, <2>1, <2>2, <2>3, <2>4 DEF InServer, Server!ServerNext
<1>3. CASE CallSignal \/ ResolveHttp \/ ExitMain
  BY <1>3 DEF CallSignal, ResolveHttp, ExitMain, InShutdown, InstallTerminate, ContinueCall,
     SubscribeTerminate, InstallInterrupt, SubscribeInterrupt, Advance, Resolve,
     SignalReady, Finish, Exit, futureVars, serverVars
<1>4. ASSUME NEW t \in Tokens, CallToken(t) \/ InShutdown(TokenNext(t))
      PROVE  HttpProgress'
  BY <1>4 DEF CallToken, InShutdown, TokenNext, InstallTerminate, ContinueCall,
     SubscribeTerminate, InstallInterrupt, SubscribeInterrupt, Advance, WatcherSignalled,
     WatcherReleased, CancelToken, SignalReady, Finish, futureVars,
     serverVars
<1>5. ASSUME NEW k \in Kinds, InShutdown(Raise(k) \/ Broadcast(k)) PROVE HttpProgress'
  BY <1>5 DEF InShutdown, Raise, Broadcast, serverVars
<1>6. CASE UNCHANGED appVars
  BY <1>6 DEF appVars, shutdownVars, futureVars, serverVars
<1> QED
  BY <1>1, <1>2, <1>3, <1>4, <1>5, <1>6 DEF AppNext

\* Both invariants hold throughout.
LEMMA AppInvariant == AppSpec => [](IInv /\ HttpProgress)
<1>1. AppInit => HttpProgress
  BY DEF AppInit, Server!ServeInit, HttpProgress
<1>2. IInv => TypeOK
  BY DEF IInv
<1> QED
  BY <1>1, <1>2, HttpProgressStep, AppShutdownInvariant, PTL DEF AppSpec

\* Only a caught signal shuts the server down; nobody's token does.
THEOREM SignalsTrip == AppSpec => []OnlySignalsTrip
<1>1. IInv /\ HttpProgress => OnlySignalsTrip
  BY HttpAssumption DEF IInv, HttpProgress, ShutdownHasCause, OnlySignalsTrip, Futures
<1> QED
  BY <1>1, AppInvariant, PTL

\* While serve() serves or drains, only a signal whose registration failed can
\* kill the process.
THEOREM ServingIsNotKilled == AppSpec => NoKillWhileServing
<1> DEFINE Spared ==
      Running /\ process' = "killed" /\ phase \in {"serving", "draining"}
      => \E k \in Kinds : raised'[k] # raised[k] /\ handler[k] = "failed"
<1>1. IInv /\ HttpProgress /\ [AppNext]_appVars => [Spared]_appVars
  <2> SUFFICES ASSUME IInv, HttpProgress, AppNext, Running, process' = "killed",
                      phase \in {"serving", "draining"}
               PROVE  \E k \in Kinds : raised'[k] # raised[k] /\ handler[k] = "failed"
    OBVIOUS
  <2>1. Next
    BY AppStepIsShutdownStep DEF shutdownVars, osVars, Running
  <2>2. \E f \in Futures : Returned(f)
    BY HttpAssumption DEF HttpProgress, Futures
  <2> QED
    BY <2>1, <2>2, KilledByDeafKind
<1> QED
  BY <1>1, AppInvariant, PTL DEF AppSpec, NoKillWhileServing
=============================================================================
