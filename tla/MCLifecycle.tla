---------------------------- MODULE MCLifecycle ----------------------------
(***************************************************************************)
(* Lifecycle for TLC; one unit of time is 10 s.                            *)
(***************************************************************************)
EXTENDS Lifecycle
=============================================================================
