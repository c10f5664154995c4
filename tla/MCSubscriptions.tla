--------------------------- MODULE MCSubscriptions ---------------------------
(* Subscriptions with its constants given by the configuration. *)
EXTENDS Subscriptions
=============================================================================
