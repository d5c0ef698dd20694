------------------------------ MODULE MCSession ------------------------------
(***************************************************************************)
(* LTPASession for TLC; the configurations give the constants.             *)
(***************************************************************************)
EXTENDS LTPASession
=============================================================================
