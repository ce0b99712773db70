------------------------------- MODULE MCPage -------------------------------
(***************************************************************************)
(* Instances of Page for TLC.                                              *)
(***************************************************************************)
EXTENDS Page, TLC

Symmetry == Permutations(Browsers)
=============================================================================
