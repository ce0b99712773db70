------------------------------ MODULE MCHttpApp ------------------------------
(***************************************************************************)
(* The instance of HttpApp for TLC; liveness allows no symmetry.           *)
(***************************************************************************)
EXTENDS HttpApp, TLC
=============================================================================
