---------------------------- MODULE MigrationLog ----------------------------
(***************************************************************************)
(* What connect_and_migrate() of src/src/postgres.rs promises, without     *)
(* sessions, locks or a migrator: a start adds the migrations it misses to *)
(* one history, each the next of its number, and returns a pool only when  *)
(* the history has all of its own.  Whatever else ends a start, nothing is *)
(* taken back, and a start is turned away for a newer history only if      *)
(* there is one.                                                           *)
(***************************************************************************)
EXTENDS Integers, Sequences

CONSTANTS
  Replicas,
  Migrations    \* how many migrations each replica was built with

VARIABLES
  history,      \* the migrations applied, in order
  start         \* what has become of each replica's start

logVars == <<history, start>>

LogInit ==
  /\ history = <<>>
  /\ start = [r \in Replicas |-> "off"]

Ended == {"off", "newer", "failed"}

\* A start moves on without touching the history.
Turn(r, from, to) ==
  /\ start[r] \in from
  /\ start' = [start EXCEPT ![r] = to]
  /\ UNCHANGED history

Run(r) == Turn(r, Ended, "running")

\* A running start applies the next migration, one it was built with.
ApplyNext(r) ==
  /\ start[r] = "running"
  /\ Len(history) < Migrations[r]
  /\ history' = Append(history, Len(history) + 1)
  /\ UNCHANGED start

\* It returns its pool.
Succeed(r) == Len(history) >= Migrations[r] /\ Turn(r, {"running"}, "ready")

\* It finds migrations that are not its own.
Refuse(r) == Len(history) > Migrations[r] /\ Turn(r, {"running"}, "newer")

\* A connection, a session or a statement fails; the replica ends.
Abort(r) == Turn(r, {"running"}, "failed")
Stop(r) == Turn(r, {"running", "ready"} \cup Ended, "off")

LogNext ==
  \E r \in Replicas : Run(r) \/ ApplyNext(r) \/ Succeed(r) \/ Refuse(r) \/ Abort(r) \/ Stop(r)

LogSpec == LogInit /\ [][LogNext]_logVars
=============================================================================
