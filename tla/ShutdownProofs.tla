--------------------------- MODULE ShutdownProofs ---------------------------
(***************************************************************************)
(* Proofs about Shutdown, for any number of futures and of signals.        *)
(*                                                                         *)
(* The types are inductive alone; none of the other safety properties is.  *)
(* What ties them together is that the disposition of a kind is decided    *)
(* once for the whole process: a future holds a stream only of an          *)
(* installed kind (StreamsInstalled), at every stage of its call it holds   *)
(* exactly the installed kinds among those it has asked for (HalfDone,     *)
(* PartialRegistration), it is owed only what its streams can still be     *)
(* told (OwedIsHeld), and a recorded or delivered notification comes from  *)
(* a caught signal (NotesAreCaught).                                       *)
(***************************************************************************)
EXTENDS Shutdown, TLAPS

-----------------------------------------------------------------------------
(* Types.                                                                  *)

\* One step keeps every variable in its type.
LEMMA TypeStep == TypeOK /\ [Next]_shutdownVars => TypeOK'
<1> SUFFICES ASSUME TypeOK, [Next]_shutdownVars PROVE TypeOK'
  OBVIOUS
<1> USE ShutdownAssumption DEF TypeOK, Futures, Kinds, Stage
<1>1. ASSUME NEW f \in Futures, InstallTerminate(f) PROVE TypeOK'
  BY <1>1 DEF InstallTerminate, Advance, Install, tokenVars
<1>2. ASSUME NEW f \in Futures, ContinueCall(f) PROVE TypeOK'
  <2>1. CASE SubscribeTerminate(f)
    BY <2>1 DEF SubscribeTerminate, Advance, Subscribe, tokenVars
  <2>2. CASE InstallInterrupt(f)
    BY <2>2 DEF InstallInterrupt, Advance, Install, tokenVars
  <2>3. CASE SubscribeInterrupt(f)
    BY <2>3 DEF SubscribeInterrupt, Advance, Subscribe, tokenVars
  <2> QED
    BY <1>2, <2>1, <2>2, <2>3 DEF ContinueCall
<1>3. ASSUME NEW k \in Kinds, Raise(k) PROVE TypeOK'
  <2>1. raised' \in [Kinds -> 0..MaxRaised]
    <3>1. raised[k] + 1 \in 0..MaxRaised
      BY <1>3 DEF Raise
    <3> QED
      BY <1>3, <3>1 DEF Raise
  <2>2. pending' \in {pending, pending \cup {k}}
    BY <1>3 DEF Raise
  <2>3. owed' \in [Futures -> SUBSET Kinds]
    BY <1>3 DEF Raise
  <2>4. process' \in {"running", "killed", "exited"}
    BY <1>3 DEF Raise
  <2>5. timely' \in {timely, timely \cup {k}}
    BY <1>3 DEF Raise
  <2> QED
    BY <1>3, <2>1, <2>2, <2>3, <2>4, <2>5 DEF Raise, tokenVars
<1>4. ASSUME NEW k \in Kinds, Broadcast(k) PROVE TypeOK'
  BY <1>4 DEF Broadcast, tokenVars
<1>5. ASSUME NEW w \in Waiters, WaiterNext(w) PROVE TypeOK'
  BY <1>5 DEF WaiterNext, Resolve, DropWaiter, Finish, osVars, tokenVars
<1>6. ASSUME NEW t \in Tokens, TokenNext(t) PROVE TypeOK'
  <2>1. CASE WatcherSignalled(t)
    BY <2>1 DEF WatcherSignalled, Finish, osVars
  <2>2. CASE WatcherReleased(t)
    BY <2>2 DEF WatcherReleased, Finish, osVars, tokenVars
  <2>3. CASE CancelToken(t)
    BY <2>3 DEF CancelToken, osVars, futureVars
  <2> QED
    BY <1>6, <2>1, <2>2, <2>3 DEF TokenNext
<1>7. CASE Exit
  BY <1>7 DEF Exit, futureVars, tokenVars
<1>8. CASE UNCHANGED shutdownVars
  BY <1>8 DEF shutdownVars, osVars, futureVars, tokenVars
<1> QED
  BY <1>1, <1>2, <1>3, <1>4, <1>5, <1>6, <1>7, <1>8 DEF Next

\* Every variable of the shutdown machinery keeps its type, and a notification
\* always lives in a stream that its future still holds.
THEOREM TypeCorrect == Spec => []TypeOK
<1>1. Init => TypeOK
  BY ShutdownAssumption DEF Init, TypeOK, Stage
<1> QED
  BY <1>1, TypeStep, PTL DEF Spec

-----------------------------------------------------------------------------
(* The inductive invariant.                                                *)

\* A future is subscribed only to kinds whose handler is installed.
StreamsInstalled ==
  \A f \in Futures : \A k \in streams[f] : handler[k] = "installed"

\* While a call of signal() is under way, what it has asked for is decided, and
\* it holds the streams it has got so far.
HalfDone ==
  \A f \in Futures :
    /\ stage[f] \in {"terminate", "between", "interrupt"} => handler["SIGTERM"] # "default"
    /\ stage[f] \in {"between", "interrupt"} =>
         streams[f] = {k \in {"SIGTERM"} : handler[k] = "installed"}
    /\ stage[f] = "interrupt" => handler["SIGINT"] # "default"

\* Once a call of signal() has returned, every kind is decided for good.
Decided == \A f \in Futures : Returned(f) => \A k \in Kinds : handler[k] # "default"

\* The driver can still tell a future whatever the future is owed.
OwedIsHeld == \A f \in Futures : owed[f] \subseteq streams[f]

\* What the driver or a stream has recorded was raised and caught.
NotesAreCaught ==
  \A k \in Kinds :
    k \in pending \/ (\E f \in Futures : k \in unread[f])
      => raised[k] > 0 /\ handler[k] = "installed"

\* A token that token() has not returned yet is not cancelled.
FreshTokens ==
  \A t \in Tokens : ~Returned(t) => ~cancelled[t]

IInv ==
  /\ TypeOK
  /\ StreamsInstalled
  /\ HalfDone
  /\ Decided
  /\ OwedIsHeld
  /\ NotesAreCaught
  /\ FreshTokens
  /\ NoLostSignal
  /\ PartialRegistration
  /\ ShutdownHasCause
  /\ UncancelledIsWatched

\* The invariant holds before any call and any signal.
LEMMA InvInit == Init => IInv
BY ShutdownAssumption
DEF Init, IInv, TypeOK, StreamsInstalled, HalfDone, Decided, OwedIsHeld, NotesAreCaught,
    FreshTokens, NoLostSignal, PartialRegistration, ShutdownHasCause,
    UncancelledIsWatched, Stage, Returned, Futures, Kinds

\* A future that ends gives up its streams and what it is owed in one step,
\* so nothing the invariant says of streams and signals is disturbed.
LEMMA FinishKeeps ==
  ASSUME IInv, NEW f \in Futures, NEW end \in {"done", "dropped"},
         stage[f] = "waiting", Finish(f, end), UNCHANGED osVars
  PROVE  /\ StreamsInstalled' /\ HalfDone' /\ Decided' /\ OwedIsHeld'
         /\ NotesAreCaught' /\ NoLostSignal' /\ PartialRegistration'
<1> USE DEF IInv, TypeOK, Finish, osVars, Futures, Kinds, Stage, Returned
<1>1. StreamsInstalled' /\ OwedIsHeld' /\ NoLostSignal'
  BY DEF StreamsInstalled, OwedIsHeld, NoLostSignal
<1>2. HalfDone' /\ Decided' /\ PartialRegistration'
  BY DEF HalfDone, Decided, PartialRegistration
<1>3. NotesAreCaught'
  BY DEF NotesAreCaught
<1> QED
  BY <1>1, <1>2, <1>3

\* One step keeps the invariant.
LEMMA InvStep == IInv /\ [Next]_shutdownVars => IInv'
<1> SUFFICES ASSUME IInv, [Next]_shutdownVars PROVE IInv'
  OBVIOUS
<1>0. TypeOK'
  BY TypeStep DEF IInv
<1> USE <1>0, ShutdownAssumption DEF TypeOK, Futures, Kinds, Caught, Returned
<1>1. ASSUME NEW f \in Futures, InstallTerminate(f) PROVE IInv'
  <2> USE <1>1 DEF IInv, InstallTerminate, Advance, Install, tokenVars
  <2>1. StreamsInstalled' /\ HalfDone' /\ Decided' /\ PartialRegistration'
    BY DEF StreamsInstalled, HalfDone, Decided, PartialRegistration
  <2>2. OwedIsHeld' /\ NoLostSignal' /\ NotesAreCaught'
    BY DEF OwedIsHeld, NoLostSignal, NotesAreCaught
  <2>3. FreshTokens' /\ ShutdownHasCause' /\ UncancelledIsWatched'
    BY DEF FreshTokens, ShutdownHasCause, UncancelledIsWatched
  <2> QED
    BY <2>1, <2>2, <2>3
<1>2. ASSUME NEW f \in Futures, SubscribeTerminate(f) PROVE IInv'
  <2> USE <1>2 DEF IInv, SubscribeTerminate, Advance, Subscribe, tokenVars
  <2>1. StreamsInstalled' /\ HalfDone' /\ Decided' /\ PartialRegistration'
    BY DEF StreamsInstalled, HalfDone, Decided, PartialRegistration
  <2>2. OwedIsHeld' /\ NoLostSignal' /\ NotesAreCaught'
    BY DEF OwedIsHeld, NoLostSignal, NotesAreCaught
  <2>3. FreshTokens' /\ ShutdownHasCause' /\ UncancelledIsWatched'
    BY DEF FreshTokens, ShutdownHasCause, UncancelledIsWatched
  <2> QED
    BY <2>1, <2>2, <2>3
<1>3. ASSUME NEW f \in Futures, InstallInterrupt(f) PROVE IInv'
  <2> USE <1>3 DEF IInv, InstallInterrupt, Advance, Install, tokenVars
  <2>1. StreamsInstalled' /\ HalfDone' /\ Decided' /\ PartialRegistration'
    BY DEF StreamsInstalled, HalfDone, Decided, PartialRegistration
  <2>2. OwedIsHeld' /\ NoLostSignal' /\ NotesAreCaught'
    BY DEF OwedIsHeld, NoLostSignal, NotesAreCaught
  <2>3. FreshTokens' /\ ShutdownHasCause' /\ UncancelledIsWatched'
    BY DEF FreshTokens, ShutdownHasCause, UncancelledIsWatched
  <2> QED
    BY <2>1, <2>2, <2>3
<1>4. ASSUME NEW f \in Futures, SubscribeInterrupt(f) PROVE IInv'
  <2> USE <1>4 DEF IInv, SubscribeInterrupt, Advance, Subscribe, tokenVars
  <2>1. StreamsInstalled' /\ HalfDone' /\ Decided' /\ PartialRegistration'
    BY DEF StreamsInstalled, HalfDone, Decided, PartialRegistration
  <2>2. OwedIsHeld' /\ NoLostSignal' /\ NotesAreCaught'
    BY DEF OwedIsHeld, NoLostSignal, NotesAreCaught
  <2>3. FreshTokens' /\ ShutdownHasCause' /\ UncancelledIsWatched'
    BY DEF FreshTokens, ShutdownHasCause, UncancelledIsWatched
  <2> QED
    BY <2>1, <2>2, <2>3
<1>5. ASSUME NEW k \in Kinds, Raise(k) PROVE IInv'
  <2> USE <1>5 DEF IInv, Raise, tokenVars
  <2>1. StreamsInstalled' /\ HalfDone' /\ Decided' /\ PartialRegistration'
    BY DEF StreamsInstalled, HalfDone, Decided, PartialRegistration
  <2>2. OwedIsHeld' /\ NoLostSignal'
    BY DEF OwedIsHeld, NoLostSignal
  <2>3. NotesAreCaught' /\ ShutdownHasCause'
    BY DEF NotesAreCaught, ShutdownHasCause
  <2>4. FreshTokens' /\ UncancelledIsWatched'
    BY DEF FreshTokens, UncancelledIsWatched
  <2> QED
    BY <2>1, <2>2, <2>3, <2>4
<1>6. ASSUME NEW k \in Kinds, Broadcast(k) PROVE IInv'
  <2> USE <1>6 DEF IInv, Broadcast, tokenVars
  <2>1. StreamsInstalled' /\ HalfDone' /\ Decided' /\ PartialRegistration'
    BY DEF StreamsInstalled, HalfDone, Decided, PartialRegistration
  <2>2. OwedIsHeld' /\ NoLostSignal'
    BY DEF OwedIsHeld, NoLostSignal
  <2>3. NotesAreCaught' /\ ShutdownHasCause'
    BY DEF NotesAreCaught, ShutdownHasCause
  <2>4. FreshTokens' /\ UncancelledIsWatched'
    BY DEF FreshTokens, UncancelledIsWatched
  <2> QED
    BY <2>1, <2>2, <2>3, <2>4
<1>7. ASSUME NEW w \in Waiters, Resolve(w) PROVE IInv'
  <2>1. stage[w] = "waiting" /\ Finish(w, "done") /\ UNCHANGED <<osVars, tokenVars>>
    BY <1>7 DEF Resolve, SignalReady
  <2>2. ShutdownHasCause'
    BY <1>7 DEF IInv, ShutdownHasCause, NotesAreCaught, Resolve, SignalReady, Finish,
                osVars, tokenVars
  <2>3. FreshTokens' /\ UncancelledIsWatched'
    BY <2>1 DEF IInv, FreshTokens, UncancelledIsWatched, Finish, tokenVars
  <2> QED
    BY <2>1, <2>2, <2>3, FinishKeeps DEF IInv
<1>8. ASSUME NEW w \in Waiters, DropWaiter(w) PROVE IInv'
  <2>1. stage[w] = "waiting" /\ Finish(w, "dropped") /\ UNCHANGED <<osVars, tokenVars>>
    BY <1>8 DEF DropWaiter
  <2>2. ShutdownHasCause' /\ FreshTokens' /\ UncancelledIsWatched'
    BY <2>1 DEF IInv, ShutdownHasCause, FreshTokens, UncancelledIsWatched, Finish,
                osVars, tokenVars
  <2> QED
    BY <2>1, <2>2, FinishKeeps DEF IInv
<1>9. ASSUME NEW t \in Tokens, WatcherSignalled(t) PROVE IInv'
  <2>1. stage[t] = "waiting" /\ Finish(t, "done") /\ UNCHANGED osVars
    BY <1>9 DEF WatcherSignalled, SignalReady
  <2>2. ShutdownHasCause'
    BY <1>9 DEF IInv, ShutdownHasCause, NotesAreCaught, WatcherSignalled, SignalReady,
                Finish, osVars
  <2>3. FreshTokens' /\ UncancelledIsWatched'
    BY <1>9 DEF IInv, FreshTokens, UncancelledIsWatched, WatcherSignalled, Finish
  <2> QED
    BY <2>1, <2>2, <2>3, FinishKeeps DEF IInv
<1>10. ASSUME NEW t \in Tokens, WatcherReleased(t) PROVE IInv'
  <2>1. stage[t] = "waiting" /\ Finish(t, "dropped") /\ UNCHANGED osVars
    BY <1>10 DEF WatcherReleased
  <2>2. ShutdownHasCause' /\ FreshTokens' /\ UncancelledIsWatched'
    BY <1>10 DEF IInv, ShutdownHasCause, FreshTokens, UncancelledIsWatched,
                WatcherReleased, Finish, osVars, tokenVars
  <2> QED
    BY <2>1, <2>2, FinishKeeps DEF IInv
<1>11. ASSUME NEW t \in Tokens, CancelToken(t) PROVE IInv'
  <2> USE <1>11 DEF IInv, CancelToken, osVars, futureVars
  <2>1. ShutdownHasCause' /\ FreshTokens' /\ UncancelledIsWatched'
    BY DEF ShutdownHasCause, FreshTokens, UncancelledIsWatched
  <2>2. NotesAreCaught' /\ OwedIsHeld' /\ NoLostSignal'
    BY DEF NotesAreCaught, OwedIsHeld, NoLostSignal
  <2>3. StreamsInstalled' /\ HalfDone' /\ Decided' /\ PartialRegistration'
    BY DEF StreamsInstalled, HalfDone, Decided, PartialRegistration
  <2> QED
    BY <2>1, <2>2, <2>3
<1>12. CASE Exit \/ UNCHANGED shutdownVars
  BY <1>12 DEF Exit, shutdownVars, osVars, futureVars, tokenVars, IInv, StreamsInstalled,
     HalfDone, Decided, OwedIsHeld, NotesAreCaught, FreshTokens, NoLostSignal,
     PartialRegistration, ShutdownHasCause, UncancelledIsWatched
<1> QED
  BY <1>1, <1>2, <1>3, <1>4, <1>5, <1>6, <1>7, <1>8, <1>9, <1>10, <1>11, <1>12
  DEF Next, ContinueCall, WaiterNext, TokenNext

\* The invariant holds throughout.
LEMMA Invariant == Spec => []IInv
BY InvInit, InvStep, PTL DEF Spec

-----------------------------------------------------------------------------
(* The properties of shutdown.rs.                                          *)

\* A signal raised after a future got its stream is never lost: it is with
\* the driver or readable by the future.
THEOREM SignalsAreKept == Spec => []NoLostSignal
BY Invariant, PTL DEF IInv

\* A failed registration of one kind never costs a waiting future the other.
THEOREM FailuresAreSeparate == Spec => []PartialRegistration
BY Invariant, PTL DEF IInv

\* Nothing shuts down but for a caught signal or a cancelled token.
THEOREM ShutdownIsCaused == Spec => []ShutdownHasCause
BY Invariant, PTL DEF IInv

\* A token that is out and not cancelled still has its watcher.
THEOREM TokensAreWatched == Spec => []UncancelledIsWatched
BY Invariant, PTL DEF IInv

\* Only a signal kills the process, and once a call of signal() has returned
\* only one whose registration failed.
LEMMA KilledByDeafKind ==
  ASSUME IInv, Next, Running, process' = "killed",
         \E f \in Futures : Returned(f)
  PROVE  \E k \in Kinds : raised'[k] # raised[k] /\ handler[k] = "failed"
<1>1. PICK k \in Kinds : Raise(k)
  <2>1. \A f \in Futures : ~InstallTerminate(f) /\ ~ContinueCall(f)
    BY DEF InstallTerminate, ContinueCall, SubscribeTerminate, InstallInterrupt,
           SubscribeInterrupt, Advance, Running
  <2>2. \A w \in Waiters : ~WaiterNext(w)
    BY DEF WaiterNext, Resolve, DropWaiter, osVars, Running
  <2>3. \A t \in Tokens : ~TokenNext(t)
    BY DEF TokenNext, WatcherSignalled, WatcherReleased, CancelToken, osVars, Running
  <2>4. ~Exit /\ \A k \in Kinds : ~Broadcast(k)
    BY DEF Exit, Broadcast, Running
  <2> QED
    BY <2>1, <2>2, <2>3, <2>4 DEF Next
<1>2. handler[k] = "failed"
  BY <1>1 DEF IInv, TypeOK, Decided, Raise, Running
<1>3. raised'[k] # raised[k]
  BY <1>1 DEF IInv, TypeOK, Raise
<1> QED
  BY <1>2, <1>3

\* After any call of signal() has returned, only a signal whose registration
\* failed can kill the process.
THEOREM ExitIsGraceful == Spec => GracefulOnceRegistered
<1> DEFINE Graceful ==
      Running /\ process' = "killed" /\ raised' # raised
        /\ (\E f \in Futures : Returned(f))
      => \E k \in Kinds : raised'[k] # raised[k] /\ handler[k] = "failed"
<1>1. IInv /\ [Next]_shutdownVars => [Graceful]_shutdownVars
  BY KilledByDeafKind
<1> QED
  BY <1>1, Invariant, PTL DEF Spec, GracefulOnceRegistered

-----------------------------------------------------------------------------
(* signal() implements the one-shot latch.                                 *)

\* The latch of a future that is not pending any more, or not yet, is armed by
\* nothing: such a future is owed nothing and has nothing to read.
LEMMA IdleIsQuiet ==
  ASSUME IInv, NEW f \in Futures, stage[f] \in {"uncalled", "done", "dropped"}
  PROVE  owed[f] = {} /\ unread[f] = {}
BY DEF IInv, TypeOK, OwedIsHeld

\* Telling the futures of S, and only those, is one notification of the latch.
LEMMA TellIsNotify ==
  ASSUME IInv, UNCHANGED stage, UNCHANGED process, Running,
         NEW k \in Kinds,
         \A f \in Futures : owed'[f] \cup unread'[f] =
           IF k \in streams[f] THEN {k} \cup owed[f] \cup unread[f]
                               ELSE owed[f] \cup unread[f]
  PROVE  Latch!LatchNext
<1> DEFINE S == {f \in Futures : k \in streams[f] /\ owed[f] \cup unread[f] = {}}
<1>1. \A f \in S : LatchOf(f) = "armed"
  BY DEF LatchOf, IInv, TypeOK, Stage
<1>2. \A f \in Futures : LatchOf(f)' = IF f \in S THEN "due" ELSE LatchOf(f)
  <2> TAKE f \in Futures
  <2>1. CASE f \in S
    BY <2>1 DEF LatchOf, IInv, TypeOK, Stage
  <2>2. CASE k \in streams[f] /\ f \notin S
    BY <2>2 DEF LatchOf, IInv, TypeOK, Stage
  <2>3. CASE k \notin streams[f]
    BY <2>3 DEF LatchOf, IInv, TypeOK, Stage
  <2> QED
    BY <2>1, <2>2, <2>3
<1>3. Latch!Notify(S)
  BY <1>1, <1>2 DEF Latch!Notify, Running
<1> QED
  BY <1>3 DEF Latch!LatchNext

\* A step that moves the latch of one future alone, in a running process.
LEMMA OneLatchTurns ==
  ASSUME NEW f \in Futures, NEW to, NEW from,
         UNCHANGED process, Running,
         LatchOf(f) \in from, LatchOf(f)' = to,
         \A g \in Futures \ {f} : LatchOf(g)' = LatchOf(g)
  PROVE  Latch!Turn(f, from, to)
BY DEF Latch!Turn, Running

\* Every step of the shutdown machinery is a step of the latches or none.
LEMMA LatchStep == IInv /\ [Next]_shutdownVars => [Latch!LatchNext]_(Latch!latchVars)
<1> SUFFICES ASSUME IInv, [Next]_shutdownVars
             PROVE  Latch!LatchNext \/ UNCHANGED Latch!latchVars
  OBVIOUS
<1> USE DEF Futures
<1>1. ASSUME NEW f \in Futures, InstallTerminate(f) PROVE Latch!LatchNext
  <2>1. LatchOf(f) = "unarmed" /\ LatchOf(f)' = "armed"
    BY <1>1, IdleIsQuiet DEF InstallTerminate, Advance, LatchOf, IInv, TypeOK
  <2>2. \A g \in Futures \ {f} : LatchOf(g)' = LatchOf(g)
    BY <1>1 DEF InstallTerminate, Advance, LatchOf, IInv, TypeOK
  <2>3. Latch!Arm(f)
    BY <1>1, <2>1, <2>2, OneLatchTurns DEF Latch!Arm, InstallTerminate, Advance
  <2> QED
    BY <2>3 DEF Latch!LatchNext
<1>2. ASSUME NEW f \in Futures, ContinueCall(f) PROVE UNCHANGED Latch!latchVars
  <2> USE <1>2 DEF ContinueCall, SubscribeTerminate, InstallInterrupt, SubscribeInterrupt,
                   Advance
  <2>1. \A g \in Futures : LatchOf(g)' = LatchOf(g)
    BY DEF LatchOf, IInv, TypeOK
  <2> QED
    BY <2>1 DEF Latch!latchVars, Running
<1>3. ASSUME NEW k \in Kinds, Raise(k) PROVE Latch!LatchNext
  <2>1. CASE handler[k] = "installed"
    BY <1>3, <2>1, TellIsNotify DEF Raise, IInv, TypeOK
  <2>2. CASE handler[k] # "installed"
    <3>1. \A g \in Futures : LatchOf(g)' = LatchOf(g)
      BY <1>3, <2>2 DEF Raise, LatchOf
    <3>2. Latch!End
      BY <1>3, <2>2, <3>1 DEF Latch!End, Raise, Running
    <3> QED
      BY <3>2 DEF Latch!LatchNext
  <2> QED
    BY <2>1, <2>2
<1>4. ASSUME NEW k \in Kinds, Broadcast(k) PROVE Latch!LatchNext
  BY <1>4, TellIsNotify DEF Broadcast, IInv, TypeOK
<1>5. ASSUME NEW w \in Waiters, Resolve(w) PROVE Latch!LatchNext
  <2>1. LatchOf(w) = "due" /\ LatchOf(w)' = "fired"
    BY <1>5 DEF Resolve, SignalReady, Finish, LatchOf, IInv, TypeOK
  <2>2. \A g \in Futures \ {w} : LatchOf(g)' = LatchOf(g)
    BY <1>5 DEF Resolve, Finish, LatchOf, IInv, TypeOK
  <2>3. Latch!Fire(w)
    BY <1>5, <2>1, <2>2, OneLatchTurns DEF Latch!Fire, Resolve, osVars
  <2> QED
    BY <2>3 DEF Latch!LatchNext
<1>6. ASSUME NEW w \in Waiters, DropWaiter(w) PROVE Latch!LatchNext
  <2>1. LatchOf(w) \in {"armed", "due"} /\ LatchOf(w)' = "dropped"
    BY <1>6 DEF DropWaiter, Finish, LatchOf, IInv, TypeOK
  <2>2. \A g \in Futures \ {w} : LatchOf(g)' = LatchOf(g)
    BY <1>6 DEF DropWaiter, Finish, LatchOf, IInv, TypeOK
  <2>3. Latch!Drop(w)
    BY <1>6, <2>1, <2>2, OneLatchTurns DEF Latch!Drop, DropWaiter, osVars
  <2> QED
    BY <2>3 DEF Latch!LatchNext
<1>7. ASSUME NEW t \in Tokens, WatcherSignalled(t) PROVE Latch!LatchNext
  <2>1. LatchOf(t) = "due" /\ LatchOf(t)' = "fired"
    BY <1>7 DEF WatcherSignalled, SignalReady, Finish, LatchOf, IInv, TypeOK
  <2>2. \A g \in Futures \ {t} : LatchOf(g)' = LatchOf(g)
    BY <1>7 DEF WatcherSignalled, Finish, LatchOf, IInv, TypeOK
  <2>3. Latch!Fire(t)
    BY <1>7, <2>1, <2>2, OneLatchTurns DEF Latch!Fire, WatcherSignalled, osVars
  <2> QED
    BY <2>3 DEF Latch!LatchNext
<1>8. ASSUME NEW t \in Tokens, WatcherReleased(t) PROVE Latch!LatchNext
  <2>1. LatchOf(t) \in {"armed", "due"} /\ LatchOf(t)' = "dropped"
    BY <1>8 DEF WatcherReleased, Finish, LatchOf, IInv, TypeOK
  <2>2. \A g \in Futures \ {t} : LatchOf(g)' = LatchOf(g)
    BY <1>8 DEF WatcherReleased, Finish, LatchOf, IInv, TypeOK
  <2>3. Latch!Drop(t)
    BY <1>8, <2>1, <2>2, OneLatchTurns DEF Latch!Drop, WatcherReleased, osVars
  <2> QED
    BY <2>3 DEF Latch!LatchNext
<1>9. ASSUME UNCHANGED <<process, stage, unread, owed>> PROVE UNCHANGED Latch!latchVars
  BY <1>9 DEF Latch!latchVars, LatchOf, Running
<1>10. CASE Exit
  BY <1>10 DEF Exit, futureVars, LatchOf, Latch!End, Latch!LatchNext, Running
<1>11. CASE (\E t \in Tokens : CancelToken(t)) \/ UNCHANGED shutdownVars
  BY <1>9, <1>11 DEF CancelToken, shutdownVars, osVars, futureVars
<1> QED
  BY <1>1, <1>2, <1>3, <1>4, <1>5, <1>6, <1>7, <1>8, <1>10, <1>11
  DEF Next, WaiterNext, TokenNext

\* Whatever handlers, driver, streams and watchers do, each future of signal()
\* behaves as a one-shot latch: it resolves only after a notification, keeps
\* the one it got, and its siblings neither consume nor disturb it.
THEOREM SignalIsALatch == Spec => Latch!LatchSafety
<1>1. Init => Latch!LatchInit
  BY DEF Init, Latch!LatchInit, LatchOf, Running
<1> QED
  BY <1>1, LatchStep, Invariant, PTL DEF Spec, Latch!LatchSafety
=============================================================================
