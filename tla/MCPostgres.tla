----------------------------- MODULE MCPostgres -----------------------------
(***************************************************************************)
(* Instances of Postgres for TLC.                                          *)
(***************************************************************************)
EXTENDS Postgres, TLC

CONSTANTS r1, r2, r3

\* Two replicas of one release and one of the release before.
MCMigrations == r1 :> 2 @@ r2 :> 2 @@ r3 :> 1
=============================================================================
