-------------------------- MODULE MCSubscriptions --------------------------
(***************************************************************************)
(* Subscriptions for TLC.                                                  *)
(***************************************************************************)
EXTENDS Subscriptions
=============================================================================
