------------------------------ MODULE Shutdown ------------------------------
(***************************************************************************)
(* src/src/shutdown.rs: signal() and token(), with the parts of the        *)
(* operating system and of Tokio's signal driver that they rest on.        *)
(*                                                                         *)
(* signal() asks Tokio for one stream per termination signal and returns   *)
(* a future that resolves at the first notification on either stream.      *)
(* token() makes such a future, hands it to a spawned watcher task and     *)
(* returns a cancellation token that the watcher cancels.                  *)
(*                                                                         *)
(* A signal travels in two steps.  The operating system runs the handler,  *)
(* which only records the signal as pending (Raise); later the driver      *)
(* tells every stream that exists by then and clears the record            *)
(* (Broadcast).  A stream holds at most one unread notification, so        *)
(* repeated signals coalesce.                                              *)
(***************************************************************************)
EXTENDS Naturals

CONSTANTS
  Waiters,            \* calls of signal() made by the application or by serve()
  Tokens,             \* calls of token(), each with its own watcher task
  MaxRaised           \* bound: how often the environment raises each signal

ASSUME ShutdownAssumption ==
  /\ Waiters \cap Tokens = {}
  /\ MaxRaised \in Nat

\* One future per call: the watcher of a token owns the future made by token().
Futures == Waiters \cup Tokens

\* The conventional termination signals; SIGQUIT is never registered.
Kinds == {"SIGTERM", "SIGINT"}

VARIABLES
  process,            \* "running", "killed" by a signal, or "exited" from main
  handler,            \* per kind: the process-wide disposition Tokio installs once
  pending,            \* kinds recorded by the handler and not yet broadcast
  stage,              \* per future: how far its call, and then the future, has got
  streams,            \* per future: the kinds it holds a Some(Signal) for
  unread,             \* per future: the streams that have a notification to read
  cancelled,          \* per token: is it cancelled?
  raised,             \* history: how often each kind has been raised
  owed,               \* history: per future, the kinds raised while it held their stream
  timely,             \* history: kinds raised while no call was registering them
  manual              \* history: tokens the application has cancelled itself

osVars      == <<process, handler, pending, raised, timely>>
futureVars  == <<stage, streams, unread, owed>>
tokenVars   == <<cancelled, manual>>
shutdownVars == <<osVars, futureVars, tokenVars>>

\* A call of signal() passes the first five in this order; then its future
\* resolves or is dropped.
Stage == {"uncalled", "terminate", "between", "interrupt", "waiting", "done", "dropped"}

\* The call that makes f has returned.
Returned(f) == stage[f] \in {"waiting", "done", "dropped"}

Init ==
  /\ process = "running"
  /\ handler = [k \in Kinds |-> "default"]
  /\ pending = {}
  /\ stage = [f \in Futures |-> "uncalled"]
  /\ streams = [f \in Futures |-> {}]
  /\ unread = [f \in Futures |-> {}]
  /\ cancelled = [t \in Tokens |-> FALSE]
  /\ raised = [k \in Kinds |-> 0]
  /\ owed = [f \in Futures |-> {}]
  /\ timely = {}
  /\ manual = {}

Running == process = "running"

-----------------------------------------------------------------------------
(* Registration: signal() and register_signal().                           *)
(*                                                                         *)
(* register_signal(k) is two steps, for Tokio first sees to the handler of *)
(* the kind and then makes the stream.  A signal that is caught and        *)
(* broadcast in between is one the stream never tells.                     *)

\* The call of signal() for f goes on from one stage to the next.
Advance(f, from, to) ==
  /\ Running
  /\ stage[f] = from
  /\ stage' = [stage EXCEPT ![f] = to]
  /\ UNCHANGED <<process, pending, raised, timely, unread, owed, tokenVars>>

\* Tokio installs the handler of a kind at most once per process and remembers
\* a failure, so only the first call of any future can decide.
Install(k) ==
  /\ \/ handler[k] # "failed" /\ handler' = [handler EXCEPT ![k] = "installed"]
     \/ handler[k] # "installed" /\ handler' = [handler EXCEPT ![k] = "failed"]
  /\ UNCHANGED streams

\* Mutant: a failed registration costs the future the stream it already holds.
SubscribeAllOrNothing(f, k) ==
  /\ streams' = [streams EXCEPT ![f] = IF handler[k] = "installed" THEN @ \cup {k} ELSE {}]
  /\ UNCHANGED handler

\* With a handler the result is Some(Signal); a failure is logged and is None.
Subscribe(f, k) ==
  /\ streams' = [streams EXCEPT ![f] = IF handler[k] = "installed" THEN @ \cup {k} ELSE @]
  /\ UNCHANGED handler

\* SIGTERM first; other signals may arrive between any two of the steps.
InstallTerminate(f)   == Advance(f, "uncalled", "terminate") /\ Install("SIGTERM")

\* Mutant: the registration is kept and the stream it returned is not.
SubscribeTerminateDropped(f) ==
  Advance(f, "terminate", "between") /\ UNCHANGED <<handler, streams>>

SubscribeTerminate(f) == Advance(f, "terminate", "between") /\ Subscribe(f, "SIGTERM")

\* Mutant: SIGINT is registered only if SIGTERM could be.
InstallInterruptChained(f) ==
  /\ Advance(f, "between", "interrupt")
  /\ IF handler["SIGTERM"] = "installed" THEN Install("SIGINT") ELSE UNCHANGED <<handler, streams>>

\* Then SIGINT, whatever became of SIGTERM, and signal() returns the future.
\* For a token the call also spawns the watcher that owns the future.
InstallInterrupt(f)   == Advance(f, "between", "interrupt") /\ Install("SIGINT")

\* Mutant: the call ends with fresh streams and drops those it had.
SubscribeInterruptAnew(f) ==
  /\ Running
  /\ stage[f] = "interrupt"
  /\ stage' = [stage EXCEPT ![f] = "waiting"]
  /\ Subscribe(f, "SIGINT")
  /\ unread' = [unread EXCEPT ![f] = {}]
  /\ UNCHANGED <<process, pending, raised, timely, owed, tokenVars>>

SubscribeInterrupt(f) == Advance(f, "interrupt", "waiting") /\ Subscribe(f, "SIGINT")

\* The call is inside register_signal(k): handler seen to, stream not yet made.
Registering(f, k) == stage[f] = IF k = "SIGTERM" THEN "terminate" ELSE "interrupt"

\* A call of signal() that has begun goes on; nothing in it waits.
ContinueCall(f) == SubscribeTerminate(f) \/ InstallInterrupt(f) \/ SubscribeInterrupt(f)

-----------------------------------------------------------------------------
(* The operating system and Tokio's signal driver.                         *)

\* A signal arrives.  Without a handler its default action ends the process.
Raise(k) ==
  /\ Running
  /\ raised[k] < MaxRaised
  /\ raised' = [raised EXCEPT ![k] = @ + 1]
  /\ IF handler[k] = "installed"
       THEN /\ pending' = pending \cup {k}
            /\ owed' = [f \in Futures |->
                          IF k \in streams[f] THEN owed[f] \cup {k} ELSE owed[f]]
            /\ UNCHANGED process
       ELSE /\ process' = "killed"
            /\ UNCHANGED <<pending, owed>>
  /\ timely' = IF \E f \in Futures : Registering(f, k) THEN timely ELSE timely \cup {k}
  /\ UNCHANGED <<handler, stage, streams, unread, tokenVars>>

\* The driver tells every stream of kind k that exists now.
Broadcast(k) ==
  /\ Running
  /\ k \in pending
  /\ pending' = pending \ {k}
  /\ unread' = [f \in Futures |->
                  IF k \in streams[f] THEN unread[f] \cup {k} ELSE unread[f]]
  /\ UNCHANGED <<process, handler, raised, timely, stage, streams, owed, tokenVars>>

\* main returns and takes the runtime, its tasks and its futures along.
Exit ==
  /\ Running
  /\ process' = "exited"
  /\ UNCHANGED <<handler, pending, raised, timely, futureVars, tokenVars>>

-----------------------------------------------------------------------------
(* The future, and the watcher that owns a token's future.                 *)

\* Mutant: all futures share their streams, and the first to read a
\* notification takes it from the others.
FinishShared(f, end) ==
  /\ stage' = [stage EXCEPT ![f] = end]
  /\ streams' = [streams EXCEPT ![f] = {}]
  /\ unread' = [g \in Futures |-> unread[g] \ unread[f]]
  /\ owed' = [owed EXCEPT ![f] = {}]

\* The future of f goes away, and its streams with it.
Finish(f, end) ==
  /\ stage' = [stage EXCEPT ![f] = end]
  /\ streams' = [streams EXCEPT ![f] = {}]
  /\ unread' = [unread EXCEPT ![f] = {}]
  /\ owed' = [owed EXCEPT ![f] = {}]

\* Mutant: a stream that was not registered is ready at once.
ReadyWithoutStream(f) == stage[f] = "waiting" /\ (unread[f] # {} \/ streams[f] # Kinds)

\* Mutant: join instead of select.
ReadyOnBoth(f) == stage[f] = "waiting" /\ unread[f] = Kinds

\* The select of signal(): either stream will do, and a stream that was not
\* registered is never ready.
SignalReady(f) == stage[f] = "waiting" /\ unread[f] # {}

\* The future of a direct call of signal() resolves.
Resolve(w) ==
  /\ Running
  /\ SignalReady(w)
  /\ Finish(w, "done")
  /\ UNCHANGED <<osVars, tokenVars>>

\* The owner of the future drops it before it resolves.
DropWaiter(w) ==
  /\ Running
  /\ stage[w] = "waiting"
  /\ Finish(w, "dropped")
  /\ UNCHANGED <<osVars, tokenVars>>

\* The watcher's select takes its signal branch and cancels the token.
WatcherSignalled(t) ==
  /\ Running
  /\ SignalReady(t)
  /\ Finish(t, "done")
  /\ cancelled' = [cancelled EXCEPT ![t] = TRUE]
  /\ UNCHANGED <<osVars, manual>>

\* Mutant: the watcher awaits the signal alone.
WatcherStays(t) == FALSE

\* The watcher's select takes its cancelled branch and drops the future.
WatcherReleased(t) ==
  /\ Running
  /\ stage[t] = "waiting"
  /\ cancelled[t]
  /\ Finish(t, "dropped")
  /\ UNCHANGED <<osVars, tokenVars>>

\* The application cancels a clone of the token that token() returned.
CancelToken(t) ==
  /\ Running
  /\ Returned(t)
  /\ ~cancelled[t]
  /\ cancelled' = [cancelled EXCEPT ![t] = TRUE]
  /\ manual' = manual \cup {t}
  /\ UNCHANGED <<osVars, futureVars>>

-----------------------------------------------------------------------------
WaiterNext(w) == Resolve(w) \/ DropWaiter(w)

TokenNext(t) == WatcherSignalled(t) \/ WatcherReleased(t) \/ CancelToken(t)

Next ==
  \/ \E f \in Futures : InstallTerminate(f) \/ ContinueCall(f)
  \/ \E k \in Kinds : Raise(k) \/ Broadcast(k)
  \/ \E w \in Waiters : WaiterNext(w)
  \/ \E t \in Tokens : TokenNext(t)
  \/ Exit

Spec == Init /\ [][Next]_shutdownVars

\* A call of signal() that has begun returns, the driver broadcasts what is
\* pending, and a task that has been woken is polled.
Fairness ==
  /\ \A f \in Futures : WF_shutdownVars(ContinueCall(f))
  /\ \A k \in Kinds : WF_shutdownVars(Broadcast(k))
  /\ \A w \in Waiters : WF_shutdownVars(Resolve(w))
  /\ \A t \in Tokens : WF_shutdownVars(WatcherSignalled(t) \/ WatcherReleased(t))

FairSpec == Spec /\ Fairness
-----------------------------------------------------------------------------
(* Properties.                                                             *)

\* Every variable has its type; a notification lives in a stream its future
\* holds, and a future that is not pending holds none.
TypeOK ==
  /\ process \in {"running", "killed", "exited"}
  /\ handler \in [Kinds -> {"default", "installed", "failed"}]
  /\ pending \subseteq Kinds
  /\ stage \in [Futures -> Stage]
  /\ streams \in [Futures -> SUBSET Kinds]
  /\ unread \in [Futures -> SUBSET Kinds]
  /\ owed \in [Futures -> SUBSET Kinds]
  /\ cancelled \in [Tokens -> BOOLEAN]
  /\ timely \subseteq Kinds
  /\ manual \subseteq Tokens
  /\ raised \in [Kinds -> 0..MaxRaised]
  /\ \A f \in Futures :
       /\ unread[f] \subseteq streams[f]
       /\ stage[f] \in {"uncalled", "terminate", "done", "dropped"} => streams[f] = {}

\* A signal raised after a future got its stream (shutdown.rs:13, "register
\* signal handlers eagerly") is either still with the driver or readable by
\* the future, however raises, broadcasts and other futures interleave.
NoLostSignal ==
  \A f \in Futures : owed[f] \subseteq pending \cup unread[f]

\* shutdown.rs:86, "preserving startup on failure": a future that waits is deaf
\* to exactly the kinds whose registration failed for the whole process; a
\* failure of one kind never costs it the other.
PartialRegistration ==
  \A f \in Futures :
    stage[f] = "waiting" => streams[f] = {k \in Kinds : handler[k] = "installed"}

\* A termination signal has been raised and caught.
Caught == \E k \in Kinds : raised[k] > 0 /\ handler[k] = "installed"

\* No shutdown without a cause: a future resolves only if a caught signal was
\* raised, and a token is cancelled only so or by the application
\* (shutdown.rs:59-62).
ShutdownHasCause ==
  /\ \A f \in Futures : stage[f] = "done" => Caught
  /\ \A t \in Tokens : cancelled[t] => t \in manual \/ Caught

\* The watcher of a token exits only on a signal or a cancellation
\* (shutdown.rs:61-62): a token that is out and not cancelled is still watched.
UncancelledIsWatched ==
  \A t \in Tokens :
    Returned(t) /\ ~cancelled[t] => stage[t] = "waiting"

\* Once any call of signal() has returned, a signal can kill the process only
\* if the registration of its kind failed.  This also holds after the futures
\* have resolved or gone: the handlers stay installed, so a second signal is
\* swallowed and does not force the exit.
GracefulOnceRegistered ==
  [][Running /\ process' = "killed" /\ raised' # raised
       /\ (\E f \in Futures : Returned(f))
     => \E k \in Kinds : raised'[k] # raised[k] /\ handler[k] = "failed"]_shutdownVars

\* No watcher task outlives its purpose: whoever cancels the token, the
\* watcher ends (shutdown.rs:75-80).
WatcherTerminates ==
  \A t \in Tokens :
    cancelled[t] ~> (stage[t] \in {"done", "dropped"} \/ ~Running)

\* The latch that a future of this module is: it is due from the moment a
\* signal is owed to it or a notification is there to read.
LatchOf(f) ==
  CASE stage[f] = "uncalled" -> "unarmed"
    [] stage[f] = "done" -> "fired"
    [] stage[f] = "dropped" -> "dropped"
    [] OTHER -> IF owed[f] \cup unread[f] = {} THEN "armed" ELSE "due"

Latch == INSTANCE ShutdownLatch
           WITH latch <- [f \in Futures |-> LatchOf(f)], gone <- ~Running

\* signal() keeps the promise of ShutdownLatch, fairness included.
ImplementsLatch == Latch!LatchSpec
=============================================================================
