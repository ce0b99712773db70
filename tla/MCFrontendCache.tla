-------------------------- MODULE MCFrontendCache --------------------------
(***************************************************************************)
(* Instances of FrontendCache for TLC: requests of every kind.             *)
(***************************************************************************)
EXTENDS FrontendCache
=============================================================================
