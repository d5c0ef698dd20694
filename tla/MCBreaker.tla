------------------------------ MODULE MCBreaker ------------------------------
(***************************************************************************)
(* CircuitBreaker for TLC; the configurations give the constants.          *)
(***************************************************************************)
EXTENDS CircuitBreaker
=============================================================================
