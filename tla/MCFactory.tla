----------------------------- MODULE MCFactory -----------------------------
(***************************************************************************)
(* Module ClientFactory for TLC.                                           *)
(***************************************************************************)
EXTENDS ClientFactory
=============================================================================
