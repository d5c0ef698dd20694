---------------------------- MODULE MCConnection ----------------------------
(***************************************************************************)
(* Module ConnectionReconcile for TLC; the .cfg files give the constants.  *)
(***************************************************************************)
EXTENDS ConnectionReconcile
=============================================================================
