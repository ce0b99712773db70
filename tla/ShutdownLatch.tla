--------------------------- MODULE ShutdownLatch ---------------------------
(***************************************************************************)
(* What src/src/shutdown.rs promises, without signals, handlers, streams   *)
(* or tasks.  Every call of signal() (and of token(), which makes one)     *)
(* yields a future; the future is a one-shot latch.  A notification        *)
(* reaches any number of the armed latches at once and is never taken      *)
(* back: a latch it reached fires, unless its owner drops it or the        *)
(* process ends first, and no latch fires that nothing has reached.        *)
(***************************************************************************)
CONSTANT Futures      \* the futures made by calls of signal()

VARIABLES
  latch,              \* what has become of each future
  gone                \* has the process ended?

latchVars == <<latch, gone>>

LatchState == {"unarmed", "armed", "due", "fired", "dropped"}

LatchTypeOK ==
  /\ latch \in [Futures -> LatchState]
  /\ gone \in BOOLEAN

LatchInit ==
  /\ latch = [f \in Futures |-> "unarmed"]
  /\ gone = FALSE

\* f moves from a state of `from' to the state `to'.
Turn(f, from, to) ==
  /\ ~gone
  /\ latch[f] \in from
  /\ latch' = [latch EXCEPT ![f] = to]
  /\ UNCHANGED gone

\* signal() is called: from here on f can be notified.
Arm(f) == Turn(f, {"unarmed"}, "armed")

\* One notification reaches every future of S.
Notify(S) ==
  /\ ~gone
  /\ \A f \in S : latch[f] = "armed"
  /\ latch' = [f \in Futures |-> IF f \in S THEN "due" ELSE latch[f]]
  /\ UNCHANGED gone

\* The future resolves.
Fire(f) == Turn(f, {"due"}, "fired")

\* The owner of the future drops it.
Drop(f) == Turn(f, {"armed", "due"}, "dropped")

\* The process ends, killed or returned from main.
End ==
  /\ ~gone
  /\ gone' = TRUE
  /\ UNCHANGED latch

LatchNext ==
  \/ \E f \in Futures : Arm(f) \/ Fire(f) \/ Drop(f)
  \/ \E S \in SUBSET Futures : Notify(S)
  \/ End

\* The safety part, which the proofs are about.
LatchSafety == LatchInit /\ [][LatchNext]_latchVars

\* A future that is due is not left hanging.
LatchSpec == LatchSafety /\ \A f \in Futures : WF_latchVars(Fire(f))
=============================================================================
