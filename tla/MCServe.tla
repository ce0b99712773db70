------------------------------- MODULE MCServe -------------------------------
(***************************************************************************)
(* The instance of Serve for TLC; liveness allows no symmetry.             *)
(***************************************************************************)
EXTENDS Serve, TLC
=============================================================================
