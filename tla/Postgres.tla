------------------------------ MODULE Postgres ------------------------------
(***************************************************************************)
(* src/src/postgres.rs: replicas of the application start, each connecting *)
(* a pool and applying its migrations before it serves.  The database and  *)
(* SQLx's migrator, with its session-level advisory lock and a transaction *)
(* per migration, are external; they are modelled from what                *)
(* connect_and_migrate() relies on.                                        *)
(***************************************************************************)
EXTENDS Integers, Sequences, FiniteSets

CONSTANTS
  Replicas,
  Migrations,   \* how many migrations each replica was built with
  Crashes       \* how often a replica crashes or loses its session

ASSUME PostgresAssumption ==
  /\ Migrations \in [Replicas -> Nat]
  /\ Crashes \in Nat
  /\ "nobody" \notin Replicas

VARIABLES
  up,           \* does the database take connections?
  history,      \* the migrations the database has applied, in order
  lock,         \* the replica whose session holds the advisory lock
  rep,          \* where each replica is
  next,         \* the migration each replica is to apply next
  session,      \* has the replica an open session?
  crashes       \* the crashes so far

pgVars == <<up, history, lock, rep, next, session, crashes>>

Nobody == "nobody"

\* The steps of connect_and_migrate(), what it returns (a pool, Error::Connect,
\* or Error::Migrate for one of four reasons), and "off" before and after.
Steps == {"connecting", "locking", "checking", "applying", "unlocking"}
MigrateErrors == {"newer", "statement", "session", "duplicate"}
Stages == {"off", "ready", "connect"} \cup MigrateErrors \cup Steps

PgInit ==
  /\ up \in BOOLEAN
  /\ history = <<>>
  /\ lock = Nobody
  /\ rep = [r \in Replicas |-> "off"]
  /\ next = [r \in Replicas |-> 1]
  /\ session = [r \in Replicas |-> FALSE]
  /\ crashes = 0

Goto(r, stage) == rep' = [rep EXCEPT ![r] = stage]

Done(m) == \E i \in DOMAIN history : history[i] = m

\* The server releases a session's lock when the session ends.
CloseSession(r) ==
  /\ session' = [session EXCEPT ![r] = FALSE]
  /\ lock' = IF lock = r THEN Nobody ELSE lock

\* Mutant: the pool is returned although the migrations failed.
FailLightly(r, error) ==
  /\ Goto(r, IF error \in MigrateErrors THEN "ready" ELSE error)
  /\ CloseSession(r)
  /\ UNCHANGED <<up, history, next, crashes>>

\* An error drops the pool, and its session with it.
Fail(r, error) ==
  /\ Goto(r, error)
  /\ CloseSession(r)
  /\ UNCHANGED <<up, history, next, crashes>>

\* A supervisor starts a replica, or starts it again after an error.
Begin(r) ==
  /\ rep[r] \in {"off", "connect"} \cup MigrateErrors
  /\ Goto(r, "connecting")
  /\ UNCHANGED <<up, history, lock, next, session, crashes>>

\* The pool makes its first connection, or fails to: without the database, and
\* for any other error of SQLx, a refused password or a timeout.
Connect(r) ==
  /\ rep[r] = "connecting"
  /\ \/ /\ up
        /\ Goto(r, "locking")
        /\ session' = [session EXCEPT ![r] = TRUE]
        /\ UNCHANGED <<up, history, lock, next, crashes>>
     \/ Fail(r, "connect")

\* Mutant: the replica migrates without the lock.
LockSkipped(r) ==
  /\ rep[r] = "locking" /\ session[r]
  /\ Goto(r, "checking")
  /\ UNCHANGED <<up, history, lock, next, session, crashes>>

\* The migrator takes the lock first, waiting for whoever has it.
Lock(r) ==
  /\ rep[r] = "locking" /\ session[r]
  /\ lock = Nobody
  /\ lock' = r
  /\ Goto(r, "checking")
  /\ UNCHANGED <<up, history, next, session, crashes>>

\* Mutant: the migration after the next is taken for the next.
CheckSkips(r) ==
  /\ rep[r] = "checking" /\ session[r]
  /\ IF \E i \in DOMAIN history : history[i] > Migrations[r] THEN Fail(r, "newer")
     ELSE /\ Goto(r, "applying")
          /\ next' = [next EXCEPT ![r] = Len(history) + 2]
          /\ UNCHANGED <<up, history, lock, session, crashes>>

\* It reads what is applied; a migration it does not know is an error.
Check(r) ==
  /\ rep[r] = "checking" /\ session[r]
  /\ IF \E i \in DOMAIN history : history[i] > Migrations[r] THEN Fail(r, "newer")
     ELSE /\ Goto(r, "applying")
          /\ next' = [next EXCEPT ![r] = Len(history) + 1]
          /\ UNCHANGED <<up, history, lock, session, crashes>>

\* The next migration and the record of it, whole or not at all.
Apply(r) ==
  /\ rep[r] = "applying" /\ session[r]
  /\ next[r] <= Migrations[r]
  /\ \/ /\ ~Done(next[r])
        /\ history' = Append(history, next[r])
        /\ next' = [next EXCEPT ![r] = @ + 1]
        /\ UNCHANGED <<up, lock, rep, session, crashes>>
     \/ Done(next[r]) /\ Fail(r, "duplicate")
     \/ Fail(r, "statement")

Applied(r) ==
  /\ rep[r] = "applying" /\ session[r]
  /\ next[r] > Migrations[r]
  /\ Goto(r, "unlocking")
  /\ UNCHANGED <<up, history, lock, next, session, crashes>>

\* run() ends, and connect_and_migrate() returns the pool.
Unlock(r) ==
  /\ rep[r] = "unlocking" /\ session[r]
  /\ lock' = IF lock = r THEN Nobody ELSE lock
  /\ Goto(r, "ready")
  /\ UNCHANGED <<up, history, next, session, crashes>>

\* Mutant: the migrator waits for a session that is gone.
SessionErrorIgnored(r) ==
  /\ rep[r] \in Steps \ {"connecting"}
  /\ ~session[r]
  /\ UNCHANGED pgVars

\* Whatever the migrator does on a session that is gone is an error.
SessionError(r) ==
  /\ rep[r] \in Steps \ {"connecting"}
  /\ ~session[r]
  /\ Fail(r, "session")

\* The database ends a session; a replica crashes, or ends; the database goes
\* and comes back.
LoseSession(r) ==
  /\ crashes < Crashes
  /\ crashes' = crashes + 1
  /\ CloseSession(r)
  /\ UNCHANGED <<up, history, rep, next>>

Crash(r) ==
  /\ crashes < Crashes
  /\ crashes' = crashes + 1
  /\ Goto(r, "off")
  /\ CloseSession(r)
  /\ UNCHANGED <<up, history, next>>

Outage ==
  /\ crashes < Crashes
  /\ crashes' = crashes + 1
  /\ up' = ~up
  /\ UNCHANGED <<history, lock, rep, next, session>>

Start(r) ==
  Connect(r) \/ Lock(r) \/ Check(r) \/ Apply(r) \/ Applied(r) \/ Unlock(r) \/ SessionError(r)

PgNext ==
  \/ \E r \in Replicas : Begin(r) \/ Start(r) \/ LoseSession(r) \/ Crash(r)
  \/ Outage

PgSafety == PgInit /\ [][PgNext]_pgVars

\* A start that can go on does; the database grants the lock to everyone who
\* keeps waiting for it.
PgSpec ==
  /\ PgSafety
  /\ \A r \in Replicas : WF_pgVars(Start(r)) /\ SF_pgVars(Lock(r))

PgTypeOK ==
  /\ up \in BOOLEAN
  /\ history \in Seq(Nat)
  /\ lock \in Replicas \cup {Nobody}
  /\ rep \in [Replicas -> Stages]
  /\ next \in [Replicas -> Nat \ {0}]
  /\ session \in [Replicas -> BOOLEAN]
  /\ crashes \in 0..Crashes
  /\ \A r \in Replicas : session[r] => rep[r] \in {"locking", "checking", "applying", "unlocking", "ready"}

-----------------------------------------------------------------------------
\* The database has applied the migrations in order and each once, however
\* many replicas start, crash and lose their sessions at once.
InOrder == \A i \in DOMAIN history : history[i] = i

\* A replica that has its pool finds all of its migrations applied, by itself
\* or by another (postgres.rs:51-66).
ReadyIsMigrated ==
  \A r \in Replicas : rep[r] = "ready" => \A m \in 1..Migrations[r] : Done(m)

\* A start that is over, well or not, holds no lock that others wait for: an
\* error of connect_and_migrate() leaves no pool behind (postgres.rs:55-65).
NoLockLeft ==
  lock # Nobody => rep[lock] \in {"checking", "applying", "unlocking"} /\ session[lock]

\* Starting several replicas at once makes none of them fail: each failure has
\* a cause of its own.
StartsDoNotCollide == \A r \in Replicas : rep[r] # "duplicate"

\* What an observer of the starts sees of them: an error that other replicas
\* cause ("duplicate") is nothing the promise knows of.
Outcome(r) ==
  IF rep[r] \in Steps THEN "running"
  ELSE IF rep[r] \in {"connect", "statement", "session"} THEN "failed" ELSE rep[r]

Log == INSTANCE MigrationLog WITH start <- [r \in Replicas |-> Outcome(r)]

\* However starts interleave, crash and lose their sessions, they keep the
\* promise of MigrationLog: one history that only grows, by the next migration
\* and one a running start was built with, pools only on all of one's own, and
\* no start turned away but for a history that is newer (postgres.rs:51-66).
ImplementsLog == Log!LogSpec

\* Every start ends, with a pool or an error, whatever happens to the others.
StartsReturn ==
  \A r \in Replicas : rep[r] = "connecting" ~> rep[r] \notin Steps
=============================================================================
