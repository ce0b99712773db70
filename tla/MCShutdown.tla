----------------------------- MODULE MCShutdown ------------------------------
(***************************************************************************)
(* The instance of Shutdown for TLC; liveness allows no symmetry.          *)
(***************************************************************************)
EXTENDS Shutdown, TLC
=============================================================================
